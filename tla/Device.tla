------------------------------- MODULE Device -------------------------------
(* Opening and closing a network device: the TUN devices of Linux and macOS,   *)
(* Wintun on Windows, and the AF_XDP socket of hal_linux_afxdp.cpp with its    *)
(* UMEM, rings and XDP program.  Any step of open may fail.  held is what the  *)
(* system has given, fields what the object knows of it.                       *)
EXTENDS Naturals, Sequences, SequencesExt

VARIABLES kind, held, fields, xdp_flags

deviceVars == <<kind, held, fields, xdp_flags>>

Kinds == {"linux", "macos", "windows", "af_xdp"}

\* NetDevice::create: the device of the platform, or AF_XDP when asked for.
create(af_xdp) == IF af_xdp THEN {"af_xdp", "none"} ELSE Kinds \ {"af_xdp"}

\* The steps of open in order: what each is given, "-" if it only asks.
LinuxDevice == <<"fd", "-">>
MacOSDevice == <<"fd", "-", "-">>
load_wintun_dll == <<"dll", "-">>
WindowsDevice == load_wintun_dll \o <<"adapter", "session">>
umem_create == <<"umem">>
create_socket == <<"fd">>
register_to_socket == <<"-">>
setup_rings == <<"-", "-", "-", "-", "-", "fill", "comp", "rx", "tx">>
bind_to_interface == <<"-">>
LinuxAFXDPDevice == <<"-">> \o umem_create \o create_socket \o register_to_socket
                      \o setup_rings \o bind_to_interface
Steps == CASE kind = "linux" -> LinuxDevice
           [] kind = "macos" -> MacOSDevice
           [] kind = "windows" -> WindowsDevice
           [] kind = "af_xdp" -> LinuxAFXDPDevice

given(n) == Range(SubSeq(Steps, 1, n)) \ {"-"}

DeviceInit == kind = "none" /\ held = {} /\ fields = {} /\ xdp_flags = "none"

-----------------------------------------------------------------------------
\* load_bpf_program fails at step n: open, load, find, attach, find the map,
\* register the socket.  It takes back what it has done; at 7 it has succeeded.
load_bpf_program(n) == IF n = 7 THEN {"program", "object"} ELSE {}

\* open, with its first failing step (after the last: none), and the step at
\* which loading the XDP program fails, which open survives.
\* The TUN devices and Wintun take back what they have; AF_XDP leaves that to
\* close.
failing(first) == first <= Len(Steps)

open(first, bpf, flags) ==
  LET got == IF ~failing(first) /\ kind = "af_xdp"
             THEN given(first - 1) \cup load_bpf_program(bpf)
             ELSE given(first - 1) IN
  /\ first \in 1 .. Len(Steps) + 1
  /\ IF failing(first) /\ kind # "af_xdp" THEN UNCHANGED <<held, fields>>
     ELSE held' = held \cup got
          /\ fields' = fields \cup IF failing(first) \/ bpf = 7 THEN got
                                   ELSE got \ {"program", "object"}
  /\ xdp_flags' = IF kind = "af_xdp" /\ ~failing(first) /\ bpf >= 4 THEN flags ELSE xdp_flags
  /\ UNCHANGED kind

\* close: all but the UMEM, which the destructor unmaps.
close ==
  /\ held' = held \ (fields \ {"umem"})
  /\ fields' = fields \cap {"umem"}
  /\ UNCHANGED <<kind, xdp_flags>>

\* (mutant) the destructor only closes
destroy_closed == close

destroy ==
  /\ held' = held \ fields /\ fields' = {} /\ UNCHANGED <<kind, xdp_flags>>
=============================================================================
