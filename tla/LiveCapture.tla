----------------------------- MODULE LiveCapture -----------------------------
(***************************************************************************)
(* The two live implementations of CaptureSource, each on one interface:   *)
(* HwTimestampSource, a packet socket with SO_TIMESTAMPING, and PcapSource, *)
(* a libpcap handle opened by its maker.  The kernel stamps packets with   *)
(* the system clock and, where the card can, with the clock of the card.   *)
(* Several packets may bear one stamp: the clocks tick as they please, but *)
(* are assumed not to be set back.  The card of another interface has a    *)
(* clock of its own.  A stamp of zero is a stamp that is missing, as in    *)
(* the code.                                                               *)
(***************************************************************************)
EXTENDS Integers, Sequences, SequencesExt

CONSTANTS Skew,        \* the card's clock is this far ahead of the system clock
          OtherClocks, \* what the clocks of other cards may show
          Room,        \* packets the socket's receive buffer holds
          MaxTime,     \* bound on the system clock
          MaxPackets   \* bound on the packets handed over or waiting

ASSUME LiveAssumption ==
    /\ Skew \in Nat /\ OtherClocks \subseteq Nat \ {0}
    /\ Room \in Nat /\ MaxTime \in Nat /\ MaxPackets \in Nat

VARIABLES source,               \* "hw": HwTimestampSource, "pcap": PcapSource
          require_hardware,     \* HwCaptureConfig
          adapter,              \* the libpcap handle was set to the card's stamps
          step,                 \* of open(), then "reading", then "closed"
          backlog,              \* kernel: packets not yet received
          now,                  \* kernel: the system clock, never set back
          last_ts_was_hardware,
          answer,               \* of the last call
          handed,               \* every frame returned: [ts, packet, told]
          open_fds              \* descriptors opened less calls of close

config == <<source, require_hardware, adapter>>
kernel == <<backlog, now>>
vars == <<config, kernel, step, last_ts_was_hardware, answer, handed, open_fds>>

Init ==
    /\ source \in {"hw", "pcap"}
    /\ require_hardware \in BOOLEAN /\ (require_hardware => source = "hw")
    /\ adapter \in BOOLEAN /\ (adapter => source = "pcap")
    /\ step = IF source = "hw" THEN "socket" ELSE "reading"
    /\ backlog = << >> /\ now = 1
    /\ last_ts_was_hardware = FALSE
    /\ answer = "none" /\ handed = << >> /\ open_fds = 0

-----------------------------------------------------------------------------
(* The kernel.  A packet socket receives from its creation on, and from    *)
(* every interface until it is bound; a packet that came before the        *)
(* timestamping was asked for may have no stamp.  What does not fit is     *)
(* dropped without a word.                                                 *)

Receives == IF source = "pcap" THEN step = "reading"
            ELSE step \in {"setsockopt", "bind", "reading"}

\* Stamps of the card: this interface's, or any reading of another's clock.
CardStamps(own) == {0} \cup (IF own THEN {now' + Skew} ELSE OtherClocks)

Arrive ==
    /\ Receives /\ Len(handed) + Len(backlog) < MaxPackets
    /\ now' \in {now, now + 1} /\ now' <= MaxTime
    /\ \E own \in BOOLEAN : \E hw \in CardStamps(own), sw \in {0, now'} :
           /\ own \/ step # "reading"
           /\ sw # 0 \/ step = "setsockopt"
           /\ backlog' = IF Len(backlog) < Room
                         THEN Append(backlog, [own |-> own, hw |-> hw, sw |-> sw])
                         ELSE backlog
    /\ UNCHANGED <<config, step, last_ts_was_hardware, answer, handed, open_fds>>

-----------------------------------------------------------------------------
(* HwTimestampSource::open: three system calls, each of which may fail.    *)

SetupOrder == <<"socket", "setsockopt", "bind", "reading">>
AfterStep(s) == SetupOrder[1 + CHOOSE i \in 1 .. 3 : SetupOrder[i] = s]
Opening == step \in {"socket", "setsockopt", "bind"}

OpenStep ==
    /\ Opening
    /\ step' = AfterStep(step)
    /\ open_fds' = 1
    /\ UNCHANGED <<config, kernel, last_ts_was_hardware, answer, handed>>

\* Mutant: the last error path returns without closing the socket.
OpenFailsLeaky ==
    /\ Opening
    /\ step' = "closed" /\ answer' = "Setup" /\ backlog' = << >>
    /\ open_fds' = IF step = "setsockopt" THEN open_fds - 1 ELSE open_fds
    /\ UNCHANGED <<config, now, last_ts_was_hardware, handed>>

OpenFails ==
    /\ Opening
    /\ step' = "closed" /\ answer' = "Setup" /\ backlog' = << >>
    /\ open_fds' = IF step = "socket" THEN open_fds ELSE open_fds - 1
    /\ UNCHANGED <<config, now, last_ts_was_hardware, handed>>

-----------------------------------------------------------------------------
(* next_frame.  A packet is gone from the buffer once it is received,      *)
(* whatever the answer is.                                                 *)

Take(p) == /\ step = "reading" /\ backlog # << >>
           /\ p = Head(backlog) /\ backlog' = Tail(backlog)
           /\ UNCHANGED <<config, now, step, open_fds>>

timestamp_source ==
    IF source = "hw" /\ last_ts_was_hardware THEN "NicHardware" ELSE "KernelSoftware"

\* What the caller has after the call: the stamp, the frame, and the provenance
\* it is told when it asks.
HandOver(p, ts) ==
    /\ answer' = "Frame"
    /\ handed' = Append(handed, [ts |-> ts, packet |-> p, told |-> timestamp_source'])

RecvHardware(p) == /\ p.hw # 0
                   /\ last_ts_was_hardware' = TRUE /\ HandOver(p, p.hw)

\* Mutant: the flag is set only, never taken back.
RecvSoftwareSticky(p) ==
    /\ p.hw = 0 /\ p.sw # 0 /\ ~require_hardware
    /\ UNCHANGED last_ts_was_hardware /\ HandOver(p, p.sw)

RecvSoftware(p) == /\ p.hw = 0 /\ p.sw # 0 /\ ~require_hardware
                   /\ last_ts_was_hardware' = FALSE /\ HandOver(p, p.sw)

\* Mutant: the flag is assigned before the packet is refused.
RecvUnstampedClears(p) ==
    /\ p.hw = 0 /\ (p.sw = 0 \/ require_hardware)
    /\ answer' = "NoHardwareTimestamp" /\ last_ts_was_hardware' = FALSE
    /\ UNCHANGED handed

RecvUnstamped(p) == /\ p.hw = 0 /\ (p.sw = 0 \/ require_hardware)
                    /\ answer' = "NoHardwareTimestamp"
                    /\ UNCHANGED <<last_ts_was_hardware, handed>>

RecvOne == /\ source = "hw"
           /\ \E p \in ToSet(backlog) :
                  Take(p) /\ (RecvHardware(p) \/ RecvSoftware(p) \/ RecvUnstamped(p))

\* libpcap hands out the kernel's stamp, or the card's if its handle was set so.
NextPacket == /\ source = "pcap" /\ UNCHANGED last_ts_was_hardware
              /\ \E p \in ToSet(backlog) :
                     Take(p) /\ HandOver(p, IF adapter /\ p.hw # 0 THEN p.hw ELSE p.sw)

\* A read timeout of libpcap comes back as Ok(None).
TimeoutExpired == /\ source = "pcap" /\ step = "reading" /\ backlog = << >>
                  /\ answer' = "End"
                  /\ UNCHANGED <<config, kernel, step, last_ts_was_hardware, handed, open_fds>>

\* A signal, a link that went down: nothing was received.
CallFails == /\ step = "reading" /\ answer' = "Io"
             /\ UNCHANGED <<config, kernel, step, last_ts_was_hardware, handed, open_fds>>

\* Drop, at any moment: callers may go on after an error or leave.  libpcap
\* closes its own handle.
Drop == /\ step = "reading" /\ step' = "closed" /\ backlog' = << >>
        /\ open_fds' = IF source = "hw" THEN open_fds - 1 ELSE open_fds
        /\ UNCHANGED <<config, now, last_ts_was_hardware, answer, handed>>

Next == \/ Arrive \/ OpenStep \/ OpenFails
        \/ RecvOne \/ NextPacket \/ TimeoutExpired \/ CallFails \/ Drop

Spec == Init /\ [][Next]_vars

-----------------------------------------------------------------------------
(* Properties.                                                             *)

StampOf(p, clock) == IF clock = "NicHardware" THEN p.hw ELSE p.sw

\* "Declares the timestamp provenance of this source": whatever errors and
\* packets without a stamp came between, the clock timestamp_source names is
\* the one that stamped the last frame returned.  (A libpcap handle set to the
\* card's stamps is told "KernelSoftware" until the method is edited, as its
\* comment demands: nothing is claimed of it.)
ProvenanceOfFrame ==
    handed # << >> /\ ~adapter =>
        LET f == Last(handed) IN f.ts = StampOf(f.packet, timestamp_source)

\* A caller that asks for the provenance of each frame can keep the card's clock
\* apart from the system's: frames of the bound interface that were told the
\* same clock never run backward, from the packets that came before the socket
\* was configured to the last one, whatever was dropped or refused between.
\* With require_hardware there is one timeline only.
OneTimeline ==
    ~adapter =>
        /\ \A i, j \in DOMAIN handed :
              /\ i < j /\ handed[i].told = handed[j].told
              /\ handed[i].packet.own /\ handed[j].packet.own
              => handed[i].ts <= handed[j].ts
        /\ require_hardware => \A i \in DOMAIN handed : handed[i].told = "NicHardware"

\* "Bind to the interface so we only receive its mirrored traffic."
OnlyBoundInterface == \A i \in DOMAIN handed : handed[i].packet.own

\* "a supervisor can restart cleanly" and "closed exactly once": whichever step
\* of open failed, or when the source is dropped, the descriptor is closed, and
\* no descriptor is closed twice.
FdClosedOnce ==
    open_fds = IF source = "hw" /\ step \in {"setsockopt", "bind", "reading"} THEN 1 ELSE 0
=============================================================================
