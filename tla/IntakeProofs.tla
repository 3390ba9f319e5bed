---------------------------- MODULE IntakeProofs ----------------------------
(***************************************************************************)
(* Frames on their way in.  Live capture, for every skew of the card's     *)
(* clock, every size of the receive buffer and any number of packets: the  *)
(* clock a source names is the one that stamped the last frame, the frames *)
(* under one clock's name never run backward, and the socket is closed     *)
(* exactly once.  The triage of a capture, for every file: the   *)
(* frame parser reads only what is there, its second readers agree with    *)
(* it, the masks hold the bits that toggled, the two commands count every  *)
(* frame once, and the quantiles are as close as promised.                 *)
(***************************************************************************)
EXTENDS LiveCapture, CaptureTriage, LeastPositions, SequenceTheorems, TLAPS

-----------------------------------------------------------------------------
(* The inductive invariant.                                                *)

Clocks     == {"NicHardware", "KernelSoftware"}
PacketSeen == [own : BOOLEAN, hw : Nat, sw : Nat]
FrameSeen  == [ts : Nat, packet : PacketSeen, told : Clocks]

LiveTypes ==
    /\ source \in {"hw", "pcap"} /\ require_hardware \in BOOLEAN
    /\ adapter => source = "pcap"
    /\ require_hardware => source = "hw"
    /\ step \in {"socket", "setsockopt", "bind", "reading", "closed"}
    /\ backlog \in Seq(PacketSeen) /\ now \in Nat \ {0}
    /\ handed \in Seq(FrameSeen)

\* libpcap's handle is open from the start, and its packets are all stamped.
PcapReady ==
    source = "pcap" =>
        /\ step \in {"reading", "closed"}
        /\ \A k \in DOMAIN backlog : backlog[k].sw # 0

\* What a clock shows, and the stamp it put on a packet of the bound interface:
\* zero if the packet is another's, or has none.
Shows(clock)       == IF clock = "NicHardware" THEN now + Skew ELSE now
OwnStamp(p, clock) == IF p.own THEN StampOf(p, clock) ELSE 0

\* The stamps of either clock, where there are any, do not run backward along
\* the buffer nor exceed the clock, and the frames handed over under a clock's
\* name are no later than the packets it stamped that still wait.
BacklogInOrder ==
    \A clock \in Clocks :
        /\ \A k \in DOMAIN backlog : OwnStamp(backlog[k], clock) <= Shows(clock)
        /\ \A j, k \in DOMAIN backlog :
              j < k /\ OwnStamp(backlog[k], clock) # 0
                  => OwnStamp(backlog[j], clock) <= OwnStamp(backlog[k], clock)

HandedBeforeBacklog ==
    ~adapter =>
        \A i \in DOMAIN handed :
            handed[i].packet.own =>
                /\ handed[i].ts <= Shows(handed[i].told)
                /\ \A k \in DOMAIN backlog :
                      OwnStamp(backlog[k], handed[i].told) # 0
                          => handed[i].ts <= OwnStamp(backlog[k], handed[i].told)

LiveInv == /\ LiveTypes /\ PcapReady
           /\ ProvenanceOfFrame /\ FdClosedOnce
           /\ BacklogInOrder /\ HandedBeforeBacklog /\ OneTimeline

LEMMA LiveInvInit == Init => LiveInv
  BY DEF Init, LiveInv, LiveTypes, PcapReady, ProvenanceOfFrame, FdClosedOnce,
         BacklogInOrder, HandedBeforeBacklog, OneTimeline

-----------------------------------------------------------------------------
(* The steps.                                                              *)

\* open, a failure of it, and Drop: the buffer is kept or emptied, and nothing
\* is handed over.
LEMMA NextSetupStep ==
  /\ AfterStep("socket") = "setsockopt"
  /\ AfterStep("setsockopt") = "bind"
  /\ AfterStep("bind") = "reading"
<1>1. /\ SetupOrder[1] = "socket" /\ SetupOrder[2] = "setsockopt"
      /\ SetupOrder[3] = "bind" /\ SetupOrder[4] = "reading"
  BY DEF SetupOrder
<1>2. \A s : \A k \in 1 .. 3 :
         SetupOrder[k] = s /\ (\A i \in 1 .. 3 : SetupOrder[i] = s => i = k)
             => (CHOOSE i \in 1 .. 3 : SetupOrder[i] = s) = k
  OBVIOUS
<1>3. \A i \in 1 .. 3 : i = 1 \/ i = 2 \/ i = 3
  OBVIOUS
<1> HIDE DEF SetupOrder
<1>4. /\ (CHOOSE i \in 1 .. 3 : SetupOrder[i] = "socket") = 1
      /\ (CHOOSE i \in 1 .. 3 : SetupOrder[i] = "setsockopt") = 2
      /\ (CHOOSE i \in 1 .. 3 : SetupOrder[i] = "bind") = 3
  BY <1>1, <1>2, <1>3
<1> QED
  BY <1>1, <1>4 DEF AfterStep

LEMMA BacklogKept ==
  ASSUME LiveInv, UNCHANGED <<config, now, handed, last_ts_was_hardware>>,
         backlog' = backlog \/ backlog' = << >>
  PROVE  /\ ProvenanceOfFrame' /\ OneTimeline'
         /\ BacklogInOrder' /\ HandedBeforeBacklog'
<1>1. ProvenanceOfFrame' /\ OneTimeline'
  BY DEF LiveInv, ProvenanceOfFrame, OneTimeline, timestamp_source, config
<1>2. BacklogInOrder'
  BY DEF LiveInv, BacklogInOrder, OwnStamp, Shows, config
<1>3. HandedBeforeBacklog'
  BY DEF LiveInv, HandedBeforeBacklog, OwnStamp, Shows, config
<1> QED
  BY <1>1, <1>2, <1>3

LEMMA SetupInv ==
  ASSUME LiveInv, OpenStep \/ OpenFails \/ Drop
  PROVE  LiveInv'
<1>1. UNCHANGED <<config, now, handed, last_ts_was_hardware>>
      /\ (backlog' = backlog \/ backlog' = << >>)
  BY DEF OpenStep, OpenFails, Drop, kernel
<1>2. step' \in {"setsockopt", "bind", "reading", "closed"}
  <2>1. CASE OpenStep
    <3>1. step \in {"socket", "setsockopt", "bind"} /\ step' = AfterStep(step)
      BY <2>1 DEF OpenStep, Opening
    <3> QED
      BY <3>1, NextSetupStep
  <2>2. CASE OpenFails \/ Drop
    BY <2>2 DEF OpenFails, Drop
  <2> QED
    BY <2>1, <2>2
<1>3. LiveTypes'
  <2>1. << >> \in Seq(PacketSeen) /\ backlog \in Seq(PacketSeen)
    BY DEF LiveInv, LiveTypes
  <2>2. backlog' \in Seq(PacketSeen)
    BY <1>1, <2>1
  <2>3. /\ source' \in {"hw", "pcap"} /\ require_hardware' \in BOOLEAN
        /\ now' \in Nat \ {0} /\ handed' \in Seq(FrameSeen)
        /\ (adapter' => source' = "pcap") /\ (require_hardware' => source' = "hw")
    BY <1>1 DEF LiveInv, LiveTypes, config
  <2> QED
    BY <1>2, <2>2, <2>3 DEF LiveTypes
<1>4. PcapReady'
  BY <1>1 DEF LiveInv, PcapReady, OpenStep, OpenFails, Drop, Opening, config
<1>5. FdClosedOnce'
  BY NextSetupStep
     DEF LiveInv, LiveTypes, PcapReady, FdClosedOnce, OpenStep, OpenFails, Drop,
         Opening, config
<1> QED
  BY <1>1, <1>3, <1>4, <1>5, BacklogKept DEF LiveInv

\* Calls that return nothing, and steps that do nothing.
LEMMA QuietInv ==
  ASSUME LiveInv,
         UNCHANGED <<config, kernel, step, last_ts_was_hardware, handed, open_fds>>
  PROVE  LiveInv'
<1>1. LiveTypes' /\ PcapReady' /\ FdClosedOnce'
  BY DEF LiveInv, LiveTypes, PcapReady, FdClosedOnce, config, kernel
<1> QED
  BY <1>1, BacklogKept DEF LiveInv, kernel

\* A packet arrives with the clocks' newest readings, or is dropped.
LEMMA ArriveInv ==
  ASSUME LiveInv, Arrive
  PROVE  LiveInv'
<1>1. /\ now' \in {now, now + 1} /\ now \in Nat \ {0} /\ Skew \in Nat /\ Receives
      /\ OtherClocks \subseteq Nat
      /\ UNCHANGED <<config, step, last_ts_was_hardware, handed, open_fds>>
      /\ backlog \in Seq(PacketSeen)
  BY LiveAssumption DEF Arrive, LiveInv, LiveTypes
<1>2a. PICK own \in BOOLEAN : \E hw \in CardStamps(own), sw \in {0, now'} :
         /\ sw # 0 \/ step = "setsockopt"
         /\ backlog' = IF Len(backlog) < Room
                       THEN Append(backlog, [own |-> own, hw |-> hw, sw |-> sw])
                       ELSE backlog
  BY DEF Arrive
<1>2. PICK hw \in CardStamps(own), sw \in {0, now'} :
         /\ sw # 0 \/ step = "setsockopt"
         /\ backlog' = IF Len(backlog) < Room
                       THEN Append(backlog, [own |-> own, hw |-> hw, sw |-> sw])
                       ELSE backlog
  BY <1>2a
<1>3. PICK p : p = [own |-> own, hw |-> hw, sw |-> sw]
  OBVIOUS
<1>4. /\ p \in PacketSeen
      /\ p.own => p.hw \in {0, now' + Skew}
      /\ p.sw \in {0, now'} /\ p.sw = sw
  <2>1. hw \in Nat /\ (own => hw \in {0, now' + Skew})
    <3>1. CASE own
      <4>1. CardStamps(own) = {0} \cup {now' + Skew}
        BY <3>1, Zenon DEF CardStamps
      <4> QED
        BY <1>1, <1>2, <4>1
    <3>2. CASE ~own
      <4>1. CardStamps(own) = {0} \cup OtherClocks
        BY <3>2, Zenon DEF CardStamps
      <4>2. hw \in {0} \cup OtherClocks
        BY <1>2, <4>1, Zenon
      <4>3. hw \in Nat
        BY <1>1, <4>2
      <4> QED
        BY <3>2, <4>3, Zenon
    <3> QED
      BY <3>1, <3>2
  <2>2. sw \in Nat /\ now' \in Nat
    BY <1>1, <1>2
  <2>3. p.own = own /\ p.hw = hw /\ p.sw = sw
    BY <1>3
  <2> QED
    BY <1>2, <1>3, <2>1, <2>2, <2>3 DEF PacketSeen
<1>5. backlog' = backlog \/ backlog' = Append(backlog, p)
  BY <1>2, <1>3
<1>6. source = "pcap" => p.sw # 0
  BY <1>1, <1>2, <1>4 DEF LiveInv, PcapReady, Receives
<1>7. /\ backlog' \in Seq(PacketSeen)
      /\ \A k \in DOMAIN backlog' : \/ k \in DOMAIN backlog /\ backlog'[k] = backlog[k]
                                    \/ backlog'[k] = p /\ k = Len(backlog) + 1
      /\ \A k \in DOMAIN backlog : k \in Nat /\ k <= Len(backlog)
      /\ Len(backlog) \in Nat
  BY <1>1, <1>4, <1>5
<1>8. LiveTypes' /\ PcapReady' /\ FdClosedOnce' /\ ProvenanceOfFrame' /\ OneTimeline'
  BY <1>1, <1>6, <1>7
     DEF LiveInv, LiveTypes, PcapReady, FdClosedOnce, ProvenanceOfFrame, OneTimeline,
         timestamp_source, config
<1>9. ASSUME NEW clock \in Clocks
      PROVE  /\ Shows(clock)' \in Nat /\ Shows(clock) \in Nat
             /\ Shows(clock) <= Shows(clock)'
             /\ OwnStamp(p, clock) \in {0, Shows(clock)'}
             /\ \A q \in PacketSeen : OwnStamp(q, clock) \in Nat
             /\ \A k \in DOMAIN backlog : OwnStamp(backlog[k], clock) \in Nat
  <2>1. ASSUME NEW q \in PacketSeen  PROVE OwnStamp(q, clock) \in Nat
    BY <2>1 DEF OwnStamp, StampOf, PacketSeen
  <2>2. Shows(clock)' \in Nat /\ Shows(clock) \in Nat /\ Shows(clock) <= Shows(clock)'
    <3>1. now \in Nat /\ now' \in Nat /\ now <= now' /\ Skew \in Nat
      BY <1>1
    <3>2. /\ clock = "NicHardware" => Shows(clock) = now + Skew /\ Shows(clock)' = now' + Skew
          /\ clock # "NicHardware" => Shows(clock) = now /\ Shows(clock)' = now'
      BY DEF Shows
    <3> QED
      BY <3>1, <3>2
  <2>3. OwnStamp(p, clock) \in {0, Shows(clock)'}
    BY <1>1, <1>4 DEF Shows, OwnStamp, StampOf, Clocks
  <2> QED
    BY <1>1, <2>1, <2>2, <2>3
<1>10. BacklogInOrder'
  <2> SUFFICES ASSUME NEW clock \in Clocks
               PROVE  /\ \A k \in DOMAIN backlog' :
                            OwnStamp(backlog'[k], clock) <= Shows(clock)'
                      /\ \A j, k \in DOMAIN backlog' :
                            j < k /\ OwnStamp(backlog'[k], clock) # 0 =>
                                OwnStamp(backlog'[j], clock) <= OwnStamp(backlog'[k], clock)
    BY DEF BacklogInOrder, OwnStamp, StampOf
  <2>1. ASSUME NEW k \in DOMAIN backlog'
        PROVE  OwnStamp(backlog'[k], clock) <= Shows(clock)'
    <3>1. CASE k \in DOMAIN backlog /\ backlog'[k] = backlog[k]
      <4>1. OwnStamp(backlog[k], clock) <= Shows(clock)
        BY <3>1 DEF LiveInv, BacklogInOrder
      <4> QED
        BY <1>9, <3>1, <4>1
    <3>2. CASE backlog'[k] = p
      BY <1>9, <3>2
    <3> QED
      BY <1>7, <3>1, <3>2
  <2>2. ASSUME NEW j \in DOMAIN backlog', NEW k \in DOMAIN backlog', j < k,
               OwnStamp(backlog'[k], clock) # 0
        PROVE  OwnStamp(backlog'[j], clock) <= OwnStamp(backlog'[k], clock)
    <3>1. CASE k \in DOMAIN backlog /\ backlog'[k] = backlog[k]
      <4>1. j \in DOMAIN backlog /\ backlog'[j] = backlog[j]
        BY <1>7, <2>2, <3>1
      <4> QED
        BY <2>2, <3>1, <4>1 DEF LiveInv, BacklogInOrder
    <3>2. CASE backlog'[k] = p
      BY <1>9, <2>1, <2>2, <3>2
    <3> QED
      BY <1>7, <3>1, <3>2
  <2> QED
    BY <2>1, <2>2
<1>11. HandedBeforeBacklog'
  <2> SUFFICES ASSUME ~adapter, NEW i \in DOMAIN handed, handed[i].packet.own,
                      NEW clock, clock = handed[i].told
               PROVE  /\ handed[i].ts <= Shows(clock)'
                      /\ \A k \in DOMAIN backlog' :
                            OwnStamp(backlog'[k], clock) # 0
                                => handed[i].ts <= OwnStamp(backlog'[k], clock)
    BY <1>1 DEF HandedBeforeBacklog, OwnStamp, StampOf, Shows, config
  <2>1. handed[i].ts \in Nat /\ clock \in Clocks
    <3>1. handed[i] \in FrameSeen
      BY DEF LiveInv, LiveTypes
    <3> QED
      BY <3>1 DEF FrameSeen
  <2>2. handed[i].ts <= Shows(clock)
    BY DEF LiveInv, HandedBeforeBacklog
  <2>3. ASSUME NEW k \in DOMAIN backlog', OwnStamp(backlog'[k], clock) # 0
        PROVE  handed[i].ts <= OwnStamp(backlog'[k], clock)
    <3>1. CASE k \in DOMAIN backlog /\ backlog'[k] = backlog[k]
      BY <2>3, <3>1 DEF LiveInv, HandedBeforeBacklog
    <3>2. CASE backlog'[k] = p
      BY <1>9, <2>1, <2>2, <2>3, <3>2
    <3> QED
      BY <1>7, <3>1, <3>2
  <2> QED
    BY <1>9, <2>1, <2>2, <2>3
<1> QED
  BY <1>8, <1>10, <1>11 DEF LiveInv

\* The head of the buffer is taken; what stays is still in order and later than
\* everything handed over.
LEMMA TakeFacts ==
  ASSUME LiveInv, NEW p, Take(p)
  PROVE  /\ p \in PacketSeen /\ p = backlog[1] /\ 1 \in DOMAIN backlog
         /\ backlog' \in Seq(PacketSeen)
         /\ \A k \in DOMAIN backlog' :
               /\ k + 1 \in DOMAIN backlog /\ 1 < k + 1 /\ k \in Nat
               /\ backlog'[k] = backlog[k + 1]
         /\ PcapReady' /\ FdClosedOnce' /\ BacklogInOrder'
<1>1. /\ step = "reading" /\ backlog # << >> /\ p = Head(backlog)
      /\ backlog' = Tail(backlog)
      /\ UNCHANGED <<config, now, step, open_fds>> /\ backlog \in Seq(PacketSeen)
  BY DEF Take, LiveInv, LiveTypes
<1>2. /\ p \in PacketSeen /\ p = backlog[1] /\ 1 \in DOMAIN backlog
      /\ backlog' \in Seq(PacketSeen)
      /\ \A k \in DOMAIN backlog' :
            /\ k + 1 \in DOMAIN backlog /\ 1 < k + 1 /\ k \in Nat
            /\ backlog'[k] = backlog[k + 1]
  BY <1>1
<1>3. PcapReady' /\ FdClosedOnce'
  BY <1>1, <1>2 DEF LiveInv, PcapReady, FdClosedOnce, config
<1>4. BacklogInOrder'
  <2> SUFFICES ASSUME NEW clock \in Clocks
               PROVE  /\ \A k \in DOMAIN backlog' :
                            OwnStamp(backlog'[k], clock) <= Shows(clock)
                      /\ \A j, k \in DOMAIN backlog' :
                            j < k /\ OwnStamp(backlog'[k], clock) # 0 =>
                                OwnStamp(backlog'[j], clock) <= OwnStamp(backlog'[k], clock)
    BY <1>1 DEF BacklogInOrder, OwnStamp, StampOf, Shows
  <2>1. \A j, k \in DOMAIN backlog' : j < k => j + 1 < k + 1
    BY <1>2
  <2> QED
    BY <1>2, <2>1 DEF LiveInv, BacklogInOrder
<1> QED
  BY <1>2, <1>3, <1>4

\* A packet is handed over with the stamp of the clock that the flag names.
LEMMA HandOverInv ==
  ASSUME LiveInv, NEW p, Take(p), NEW ts \in {p.hw, p.sw}, HandOver(p, ts),
         ~adapter => ts = StampOf(p, timestamp_source') /\ ts # 0,
         require_hardware => timestamp_source' = "NicHardware"
  PROVE  LiveInv'
<1>1. /\ p \in PacketSeen /\ p = backlog[1] /\ 1 \in DOMAIN backlog
      /\ backlog' \in Seq(PacketSeen)
      /\ \A k \in DOMAIN backlog' :
            /\ k + 1 \in DOMAIN backlog /\ 1 < k + 1 /\ k \in Nat
            /\ backlog'[k] = backlog[k + 1]
      /\ PcapReady' /\ FdClosedOnce' /\ BacklogInOrder'
  BY TakeFacts
<1>2. PICK f : f = [ts |-> ts, packet |-> p, told |-> timestamp_source']
  OBVIOUS
<1>3. /\ f \in FrameSeen /\ f.ts = ts /\ f.packet = p
      /\ f.told = timestamp_source' /\ f.told \in Clocks /\ ts \in Nat
  <2>1. timestamp_source' \in Clocks
    BY DEF timestamp_source, Clocks
  <2> QED
    BY <1>1, <1>2, <2>1 DEF PacketSeen, FrameSeen
<1>4. /\ handed \in Seq(FrameSeen)
      /\ handed' = Append(handed, f)
  BY <1>2 DEF HandOver, LiveInv, LiveTypes
<1>5. /\ handed' \in Seq(FrameSeen) /\ Last(handed') = f
      /\ \A i \in DOMAIN handed' : \/ i \in DOMAIN handed /\ handed'[i] = handed[i]
                                   \/ handed'[i] = f /\ i = Len(handed) + 1
      /\ Len(handed) \in Nat
      /\ \A i \in DOMAIN handed : i \in Nat /\ i <= Len(handed)
  BY <1>3, <1>4 DEF Last
<1>6. UNCHANGED <<config, now, step>>
  BY DEF Take
<1>7. LiveTypes'
  BY <1>1, <1>5, <1>6 DEF LiveInv, LiveTypes, config
<1>8. ProvenanceOfFrame'
  BY <1>3, <1>5, <1>6 DEF ProvenanceOfFrame, StampOf, config
<1>9. p.own /\ ~adapter => /\ f.ts = OwnStamp(p, f.told) /\ f.ts # 0
                          /\ f.ts <= Shows(f.told)
  BY <1>1, <1>3 DEF OwnStamp, LiveInv, BacklogInOrder
<1>10. HandedBeforeBacklog'
  <2> SUFFICES ASSUME ~adapter, NEW i \in DOMAIN handed', handed'[i].packet.own
               PROVE  /\ handed'[i].ts <= Shows(handed'[i].told)
                      /\ \A k \in DOMAIN backlog' :
                            OwnStamp(backlog'[k], handed'[i].told) # 0
                                => handed'[i].ts <= OwnStamp(backlog'[k], handed'[i].told)
    BY <1>6 DEF HandedBeforeBacklog, OwnStamp, StampOf, Shows, config
  <2>1. CASE i \in DOMAIN handed /\ handed'[i] = handed[i]
    BY <1>1, <2>1 DEF LiveInv, HandedBeforeBacklog
  <2>2. CASE handed'[i] = f
    BY <1>1, <1>3, <1>9, <2>2 DEF LiveInv, BacklogInOrder
  <2> QED
    BY <1>5, <2>1, <2>2
<1>11. OneTimeline'
  <2>1. ASSUME ~adapter, NEW i \in DOMAIN handed', NEW j \in DOMAIN handed', i < j,
               handed'[i].told = handed'[j].told,
               handed'[i].packet.own, handed'[j].packet.own
        PROVE  handed'[i].ts <= handed'[j].ts
    <3>1. i \in DOMAIN handed /\ handed'[i] = handed[i]
      BY <1>5, <2>1
    <3>2. CASE j \in DOMAIN handed /\ handed'[j] = handed[j]
      BY <2>1, <3>1, <3>2 DEF LiveInv, OneTimeline
    <3>3. CASE handed'[j] = f
      BY <1>1, <1>3, <1>9, <2>1, <3>1, <3>3 DEF LiveInv, HandedBeforeBacklog
    <3> QED
      BY <1>5, <3>2, <3>3
  <2>2. ASSUME ~adapter, require_hardware, NEW i \in DOMAIN handed'
        PROVE  handed'[i].told = "NicHardware"
    <3>1. CASE i \in DOMAIN handed /\ handed'[i] = handed[i]
      BY <2>2, <3>1 DEF LiveInv, OneTimeline
    <3>2. CASE handed'[i] = f
      BY <1>3, <2>2, <3>2
    <3> QED
      BY <1>5, <3>1, <3>2
  <2> QED
    BY <1>6, <2>1, <2>2 DEF OneTimeline, config
<1> QED
  BY <1>1, <1>7, <1>8, <1>10, <1>11 DEF LiveInv

\* A packet without a stamp is gone and nothing is handed over.
LEMMA UnstampedInv ==
  ASSUME LiveInv, NEW p, Take(p), UNCHANGED <<last_ts_was_hardware, handed>>
  PROVE  LiveInv'
<1>1. /\ backlog' \in Seq(PacketSeen)
      /\ \A k \in DOMAIN backlog' : /\ k + 1 \in DOMAIN backlog
                                    /\ backlog'[k] = backlog[k + 1]
      /\ PcapReady' /\ FdClosedOnce' /\ BacklogInOrder'
  BY TakeFacts
<1>2. UNCHANGED <<config, now, step>>
  BY DEF Take
<1>3. LiveTypes' /\ ProvenanceOfFrame' /\ OneTimeline'
  BY <1>1, <1>2
     DEF LiveInv, LiveTypes, ProvenanceOfFrame, OneTimeline, timestamp_source, config
<1>4. HandedBeforeBacklog'
  BY <1>1, <1>2 DEF LiveInv, HandedBeforeBacklog, OwnStamp, StampOf, Shows, config
<1> QED
  BY <1>1, <1>3, <1>4 DEF LiveInv

LEMMA LiveInvStep == LiveInv /\ [Next]_vars => LiveInv'
<1> SUFFICES ASSUME LiveInv, [Next]_vars PROVE LiveInv'
  OBVIOUS
<1>1. CASE Arrive
  BY <1>1, ArriveInv
<1>2. CASE OpenStep \/ OpenFails \/ Drop
  BY <1>2, SetupInv
<1>3. CASE RecvOne
  <2>1. PICK p : Take(p) /\ (RecvHardware(p) \/ RecvSoftware(p) \/ RecvUnstamped(p))
    BY <1>3 DEF RecvOne
  <2>2. source = "hw" /\ source' = source
    BY <1>3, <2>1 DEF RecvOne, Take, config
  <2>3. CASE RecvHardware(p)
    <3>1. timestamp_source' = "NicHardware" /\ p.hw # 0
      BY <2>2, <2>3 DEF RecvHardware, timestamp_source
    <3> QED
      BY <2>1, <2>3, <3>1, HandOverInv DEF RecvHardware, StampOf
  <2>4. CASE RecvSoftware(p)
    <3>1. timestamp_source' = "KernelSoftware" /\ p.sw # 0 /\ ~require_hardware
      BY <2>2, <2>4 DEF RecvSoftware, timestamp_source
    <3> QED
      BY <2>1, <2>4, <3>1, HandOverInv DEF RecvSoftware, StampOf
  <2>5. CASE RecvUnstamped(p)
    BY <2>1, <2>5, UnstampedInv DEF RecvUnstamped
  <2> QED
    BY <2>1, <2>3, <2>4, <2>5
<1>4. CASE NextPacket
  <2>1. PICK p : Take(p) /\ HandOver(p, IF adapter /\ p.hw # 0 THEN p.hw ELSE p.sw)
    BY <1>4 DEF NextPacket
  <2>2. source = "pcap" /\ source' = source /\ ~require_hardware
    BY <1>4, <2>1 DEF NextPacket, Take, config, LiveInv, LiveTypes
  <2>3. timestamp_source' = "KernelSoftware" /\ p.sw = StampOf(p, timestamp_source')
    BY <2>2 DEF timestamp_source, StampOf
  <2>4. p.sw # 0
    BY <2>1, <2>2, TakeFacts DEF LiveInv, PcapReady
  <2> DEFINE ts == IF adapter /\ p.hw # 0 THEN p.hw ELSE p.sw
  <2>5. ts \in {p.hw, p.sw} /\ (~adapter => ts = p.sw)
    OBVIOUS
  <2> QED
    BY <2>1, <2>2, <2>3, <2>4, <2>5, HandOverInv
<1>5. CASE TimeoutExpired \/ CallFails
  BY <1>5, QuietInv DEF TimeoutExpired, CallFails
<1>6. CASE UNCHANGED vars
  BY <1>6, QuietInv DEF vars
<1> QED
  BY <1>1, <1>2, <1>3, <1>4, <1>5, <1>6 DEF Next

-----------------------------------------------------------------------------
(* Theorems.                                                               *)

\* Whatever errors and packets without a stamp came between, timestamp_source
\* names the clock that stamped the last frame handed over.
THEOREM LiveProvenanceOfFrame == Spec => []ProvenanceOfFrame
<1>1. LiveInv => ProvenanceOfFrame
  BY DEF LiveInv
<1> QED
  BY LiveInvInit, LiveInvStep, <1>1, PTL DEF Spec

\* Frames of the bound interface handed over under one clock's name bear stamps
\* that never run backward, however much the buffer dropped and from before the
\* socket was configured on, if neither clock is set back; and a socket that
\* requires the card's stamps hands out no others.
THEOREM LiveOneTimeline == Spec => []OneTimeline
<1>1. LiveInv => OneTimeline
  BY DEF LiveInv
<1> QED
  BY LiveInvInit, LiveInvStep, <1>1, PTL DEF Spec

\* The descriptor is closed exactly once, on every error path of open and on
\* Drop.
THEOREM LiveFdClosedOnce == Spec => []FdClosedOnce
<1>1. LiveInv => FdClosedOnce
  BY DEF LiveInv
<1> QED
  BY LiveInvInit, LiveInvStep, <1>1, PTL DEF Spec

-----------------------------------------------------------------------------
(* parse_frame and the other readers of a raw frame.                       *)

IsFrame(f) == f.len \in Nat /\ \A o \in DOMAIN f.at : f.at[o] \in Nat

LEMMA WordsAreNumbers ==
  ASSUME NEW f, IsFrame(f), NEW o
  PROVE  Word(f, o) \in Nat /\ Nibble(f, o) \in 0 .. 15
<1>1. Word(f, o) \in Nat
  BY DEF IsFrame, Word
<1>2. \A w \in Nat : w % 16 \in 0 .. 15
  OBVIOUS
<1> QED
  BY <1>1, <1>2 DEF Nibble

LEMMA ProfinetWithin ==
  ASSUME NEW f, IsFrame(f), NEW l3 \in Nat, l3 <= f.len
  PROVE  ParseProfinet(f, l3).upto <= f.len
  BY DEF ParseProfinet, Accept, Refuse, IsFrame

LEMMA TcpWithin ==
  ASSUME NEW f, IsFrame(f), NEW l4 \in Nat, l4 + 8 <= f.len
  PROVE  ParseTcp(f, l4).upto <= f.len
  BY DEF ParseTcp, Accept, Refuse, IsFrame

LEMMA UdpWithin ==
  ASSUME NEW f, IsFrame(f), NEW l4 \in Nat, l4 + 8 <= f.len
  PROVE  ParseUdp(f, l4).upto <= f.len
<1>1. Word(f, l4 + 4) \in Nat /\ f.len \in Nat
  BY WordsAreNumbers DEF IsFrame
<1> QED
  BY <1>1 DEF ParseUdp, Accept, Refuse

LEMMA Ipv4Within ==
  ASSUME NEW f, IsFrame(f), NEW ip \in Nat, ip <= f.len
  PROVE  ParseIpv4(f, ip).upto <= f.len
<1>1. f.len \in Nat /\ Nibble(f, ip) \in 0 .. 15
  BY WordsAreNumbers DEF IsFrame
<1> DEFINE l4 == ip + Nibble(f, ip) * 4
<1>2. l4 \in Nat
  BY <1>1
<1>3. CASE f.len < ip + 20 \/ Nibble(f, ip) < 5 \/ f.len < l4 + 8
  BY <1>1, <1>3 DEF ParseIpv4, Refuse
<1>4. CASE ~(f.len < ip + 20 \/ Nibble(f, ip) < 5 \/ f.len < l4 + 8)
  <2>1. l4 + 8 <= f.len /\ ip + 10 <= f.len
    BY <1>1, <1>2, <1>4
  <2>2. ParseIpv4(f, ip) = ParseL4(f, ip, l4)
    BY <1>4 DEF ParseIpv4
  <2> HIDE DEF l4
  <2>3. ParseTcp(f, l4).upto <= f.len /\ ParseUdp(f, l4).upto <= f.len
    BY <1>2, <2>1, TcpWithin, UdpWithin
  <2> QED
    BY <2>1, <2>2, <2>3 DEF ParseL4, Refuse
<1> QED
  BY <1>3, <1>4

\* No byte beyond the last is read, whatever lengths the frame declares.
LEMMA ParseWithin ==
  ASSUME NEW f, IsFrame(f)
  PROVE  Parse(f).upto <= f.len
<1>1. ASSUME NEW l3 \in Nat, l3 <= f.len  PROVE ParseL3(f, l3).upto <= f.len
  <2>1. ParseProfinet(f, l3).upto <= f.len /\ ParseIpv4(f, l3).upto <= f.len
    BY <1>1, ProfinetWithin, Ipv4Within
  <2>2. Refuse("UnhandledEtherType", l3).upto <= f.len
    BY <1>1 DEF Refuse
  <2> QED
    BY <2>1, <2>2 DEF ParseL3, ETHERTYPE_PROFINET, ETHERTYPE_IPV4
<1>2. f.len \in Nat
  BY DEF IsFrame
<1>3. CASE f.len < 14
  BY <1>2, <1>3 DEF Parse, Refuse
<1>4. CASE f.len >= 14
  <2>1. ParseL3(f, 14).upto <= f.len /\ (f.len >= 18 => ParseL3(f, 18).upto <= f.len)
    BY <1>1, <1>2, <1>4
  <2> QED
    BY <1>2, <1>4, <2>1 DEF Parse, Refuse
<1> QED
  BY <1>2, <1>3, <1>4

\* Where the payload of an accepted frame starts, and what stands before it.
L3(f) == IF Tagged(f) THEN 18 ELSE 14

LEMMA AcceptedFrame ==
  ASSUME NEW f, IsFrame(f), Parse(f).ok
  PROVE  /\ Parse(f) = ParseL3(f, L3(f)) /\ f.len >= L3(f)
         /\ EthertypeOf(f) = Word(f, L3(f) - 2)
  BY DEF Parse, Refuse, IsFrame, L3, Tagged, EthertypeOf

LEMMA AcceptedProfinet ==
  ASSUME NEW f, IsFrame(f), Parse(f).ok, Word(f, L3(f) - 2) = ETHERTYPE_PROFINET
  PROVE  /\ Parse(f).proto.kind = "profinet"
         /\ IoPayload(f) # << >>
         /\ Head(IoPayload(f)) = Parse(f).proto.status
<1>1. /\ Parse(f) = ParseProfinet(f, L3(f)) /\ f.len >= L3(f) /\ f.len \in Nat
      /\ L3(f) \in {14, 18} /\ (Tagged(f) => L3(f) = 18)
  <2>1. Parse(f) = ParseL3(f, L3(f)) /\ f.len >= L3(f)
    BY AcceptedFrame
  <2>2. ParseL3(f, L3(f)) = ParseProfinet(f, L3(f))
    BY DEF ParseL3, ETHERTYPE_PROFINET, ETHERTYPE_IPV4
  <2>3. L3(f) \in {14, 18} /\ (Tagged(f) => L3(f) = 18)
    BY DEF L3
  <2> QED
    BY <2>1, <2>2, <2>3 DEF IsFrame
<1>2. f.len >= L3(f) + 3
  BY <1>1 DEF ParseProfinet, Refuse
<1>3. /\ Parse(f).proto.kind = "profinet"
      /\ Parse(f).proto.status = Bits(Word(f, L3(f) + 2))
  BY <1>1, <1>2 DEF ParseProfinet, Accept
<1> DEFINE n == f.len - (L3(f) + 2)
           io == [i \in 1 .. n |-> Bits(Word(f, L3(f) + 2 + i - 1))]
<1>4. IoPayload(f) = io
  BY <1>1, <1>2 DEF IoPayload, PayloadStart, L3
<1>5. n \in Nat /\ 1 \in 1 .. n
  BY <1>1, <1>2
<1>6. io[1] = Bits(Word(f, L3(f) + 2))
  <2>1. L3(f) + 2 + 1 - 1 = L3(f) + 2
    BY <1>1
  <2> QED
    BY <1>5, <2>1
<1>7. io # << >> /\ Head(io) = io[1]
  <2>1. Len(io) = n /\ DOMAIN io = 1 .. n
    BY <1>5
  <2> HIDE DEF n, io
  <2> QED
    BY <1>5, <2>1
<1> QED
  BY <1>3, <1>4, <1>6, <1>7

LEMMA AcceptedIpv4 ==
  ASSUME NEW f, IsFrame(f), Parse(f).ok, Word(f, L3(f) - 2) # ETHERTYPE_PROFINET
  PROVE  /\ Word(f, L3(f) - 2) = ETHERTYPE_IPV4
         /\ Parse(f).proto.kind \in {"s7comm", "ros2", "fanuc"}
         /\ Parse(f).proto.kind = "fanuc" => UdpDstPort(f) = FANUC_POSE_PORT
<1> DEFINE ip == L3(f)
           ihl == Nibble(f, ip)
           l4 == ip + ihl * 4
<1>1. /\ Word(f, ip - 2) = ETHERTYPE_IPV4
      /\ Parse(f) = ParseIpv4(f, ip) /\ f.len >= ip /\ f.len \in Nat
  BY AcceptedFrame DEF ParseL3, Refuse, IsFrame
<1>2. ip \in {14, 18} /\ ip = (IF Tagged(f) THEN 18 ELSE 14)
  BY DEF L3
<1>3. ihl \in 0 .. 15
  BY WordsAreNumbers
<1>4. /\ ~(f.len < ip + 20) /\ ~(ihl < 5) /\ ~(f.len < l4 + 8)
      /\ Parse(f) = ParseL4(f, ip, l4)
  BY <1>1 DEF ParseIpv4, Refuse
<1>5. UdpDstPort(f) = Word(f, l4 + 2)
  <2>1. ~(f.len < ip) /\ ~(f.len < l4 + 4)
    BY <1>1, <1>2, <1>3, <1>4
  <2> HIDE DEF l4
  <2>2. UdpDstPort(f) = Word(f, ip + ihl * 4 + 2)
    BY <1>1, <1>2, <1>4, <2>1 DEF UdpDstPort, l4
  <2> QED
    BY <2>2 DEF l4
<1> HIDE DEF l4
<1>6. CASE Word(f, ip + 9) = IPV4_PROTO_TCP
  <2>1. Parse(f).proto.kind = "s7comm"
    BY <1>4, <1>6 DEF ParseL4, ParseTcp, Accept, Refuse
  <2> QED
    BY <1>1, <2>1
<1>7. CASE Word(f, ip + 9) # IPV4_PROTO_TCP
  <2>1. Parse(f) = ParseUdp(f, l4)
    BY <1>4, <1>7 DEF ParseL4, Refuse
  <2>2. /\ Parse(f).proto.kind \in {"ros2", "fanuc"}
        /\ Parse(f).proto.kind = "fanuc" => Word(f, l4 + 2) = FANUC_POSE_PORT
    BY <2>1 DEF ParseUdp, Accept, Refuse
  <2> QED
    BY <1>1, <1>5, <2>2
<1> QED
  BY <1>6, <1>7

\* What the re-readers find in an accepted frame.
LEMMA Reparsed ==
  ASSUME NEW f, IsFrame(f), Parse(f).ok
  PROVE  LET proto == Parse(f).proto
         IN  /\ proto.kind \in {"profinet", "s7comm", "ros2", "fanuc"}
             /\ proto.kind = "profinet" =>
                   /\ EthertypeOf(f) = ETHERTYPE_PROFINET
                   /\ IoPayload(f) # << >>
                   /\ Head(IoPayload(f)) = proto.status
             /\ proto.kind = "fanuc" => UdpDstPort(f) = FANUC_POSE_PORT
             /\ proto.kind # "profinet" => EthertypeOf(f) = ETHERTYPE_IPV4
<1>1. EthertypeOf(f) = Word(f, L3(f) - 2)
  BY AcceptedFrame
<1>2. CASE Word(f, L3(f) - 2) = ETHERTYPE_PROFINET
  BY <1>1, <1>2, AcceptedProfinet
<1>3. CASE Word(f, L3(f) - 2) # ETHERTYPE_PROFINET
  BY <1>1, <1>3, AcceptedIpv4
<1> QED
  BY <1>2, <1>3

-----------------------------------------------------------------------------
(* Discovery: the mask of toggling bits.                                   *)

Profinet == {key \in DOMAIN streams : key.kind = "profinet"}
Payload(i) == IoPayload(FrameAt(i))

ReaderInv == /\ capture \in Captures /\ next \in Nat \ {0}
             /\ Taken \subseteq DOMAIN capture.frames

\* Every accepted frame is in a stream, and every stream has a frame.
GroupedInv ==
    /\ \A i \in Taken :
          ParsedAt(i).ok => StreamKey(FrameAt(i), Proto(i)) \in DOMAIN streams
    /\ \A key \in DOMAIN streams :
          DOMAIN streams[key] = {"last", "gaps", "first", "mask"}

\* The reference is the payload of a frame of the stream, and the mask holds, at
\* each of its bytes, the bits at which some frame differs from it.
MaskInv ==
    \A key \in Profinet :
        LET first == streams[key].first
            mask  == streams[key].mask
        IN  /\ first # << >> /\ DOMAIN mask = DOMAIN first
            /\ \E i \in FramesOf(key) : first = Payload(i)
            /\ \A b \in DOMAIN first :
                  mask[b] = UNION {SymDiff(first[b], Payload(i)[b]) :
                                      i \in {j \in FramesOf(key) : b \in DOMAIN Payload(j)}}

TriageInv == ReaderInv /\ GroupedInv /\ MaskInv

LEMMA FramesAreFrames == ReaderInv => \A i \in Taken : IsFrame(FrameAt(i))
  BY CapturesAssumption DEF ReaderInv, IsFrame, FrameAt

LEMMA TriageInvInit == TriageInit => TriageInv
<1> SUFFICES ASSUME TriageInit PROVE TriageInv
  OBVIOUS
<1>1. Taken = {} /\ DOMAIN streams = {} /\ next = 1 /\ capture \in Captures
  BY DEF TriageInit, DiscoveryInit, Taken
<1> QED
  BY <1>1 DEF TriageInv, ReaderInv, GroupedInv, MaskInv, Profinet

\* What one more payload does to the mask.
LEMMA TouchedMask ==
  ASSUME NEW profile, NEW io, NEW new, new = Touched(profile, io), io # << >>,
         DOMAIN profile = {"last", "gaps", "first", "mask"},
         profile.first # << >> => DOMAIN profile.mask = DOMAIN profile.first
  PROVE  /\ DOMAIN new = {"last", "gaps", "first", "mask"}
         /\ new.first # << >> /\ DOMAIN new.mask = DOMAIN new.first
         /\ profile.first = << >> =>
               /\ new.first = io
               /\ \A b \in DOMAIN new.first : new.mask[b] = {}
         /\ profile.first # << >> =>
               /\ new.first = profile.first
               /\ \A b \in DOMAIN new.first :
                     /\ b \in DOMAIN io =>
                           new.mask[b] = profile.mask[b] \cup SymDiff(new.first[b], io[b])
                     /\ b \notin DOMAIN io => new.mask[b] = profile.mask[b]
  BY DEF Touched

LEMMA TimedKeeps ==
  ASSUME NEW profile, NEW ts, DOMAIN profile = {"last", "gaps", "first", "mask"}
  PROVE  /\ DOMAIN Timed(profile, ts) = {"last", "gaps", "first", "mask"}
         /\ Timed(profile, ts).first = profile.first
         /\ Timed(profile, ts).mask = profile.mask
  BY DEF Timed

\* The keys of PROFINET streams are those of PROFINET frames.
LEMMA ProfinetKey ==
  ASSUME NEW f, IsFrame(f), Parse(f).ok
  PROVE  StreamKey(f, Parse(f).proto).kind = "profinet"
            <=> Parse(f).proto.kind = "profinet"
<1>1. Parse(f).proto.kind \in {"profinet", "s7comm", "ros2", "fanuc"}
  BY Reparsed
<1> QED
  BY <1>1 DEF StreamKey

\* One more frame is taken.
LEMMA TakenGrows ==
  ASSUME ReaderInv, next' = next + 1, capture' = capture
  PROVE  /\ Taken' = Taken \cup {next} /\ next \notin Taken
         /\ \A i : FrameAt(i)' = FrameAt(i) /\ ParsedAt(i)' = ParsedAt(i)
                   /\ Proto(i)' = Proto(i) /\ Payload(i)' = Payload(i)
<1>1. next \in Nat \ {0} /\ next' - 1 = next
  BY DEF ReaderInv
<1>2. 1 .. next = (1 .. next - 1) \cup {next} /\ next \notin 1 .. next - 1
  BY <1>1
<1>3. Taken' = 1 .. next
  BY <1>1 DEF Taken
<1>4. \A i : FrameAt(i)' = FrameAt(i)
  BY DEF FrameAt
<1> QED
  BY <1>2, <1>3, <1>4 DEF Taken, ParsedAt, Proto, Payload

LEMMA FramesOfGrows ==
  ASSUME ReaderInv, next' = next + 1, capture' = capture, NEW key
  PROVE  FramesOf(key)' =
            FramesOf(key) \cup
                {i \in {next} : ParsedAt(i).ok /\ StreamKey(FrameAt(i), Proto(i)) = key}
<1> DEFINE hit(i) == ParsedAt(i).ok /\ StreamKey(FrameAt(i), Proto(i)) = key
<1>1. FramesOf(key)' = {i \in Taken' : hit(i)}
  <2>1. \A i : (ParsedAt(i).ok)' = ParsedAt(i).ok
               /\ StreamKey(FrameAt(i), Proto(i))' = StreamKey(FrameAt(i), Proto(i))
    BY TakenGrows DEF StreamKey, FrameAt, ParsedAt, Proto
  <2> QED
    BY <2>1 DEF FramesOf
<1>2. Taken' = Taken \cup {next}
  BY TakenGrows
<1> HIDE DEF hit
<1>3. {i \in Taken' : hit(i)} = {i \in Taken : hit(i)} \cup {i \in {next} : hit(i)}
  BY <1>2
<1>4. {i \in Taken : hit(i)} = FramesOf(key)
  BY DEF FramesOf, hit
<1> QED
  BY <1>1, <1>3, <1>4 DEF hit

\* A stream the frame does not belong to stays as it is.
LEMMA OtherStream ==
  ASSUME MaskInv, NEW key \in Profinet, streams'[key] = streams[key],
         FramesOf(key)' = FramesOf(key), \A i : Payload(i)' = Payload(i)
  PROVE  LET first == streams'[key].first
             mask  == streams'[key].mask
         IN  /\ first # << >> /\ DOMAIN mask = DOMAIN first
             /\ \E i \in FramesOf(key)' : first = Payload(i)'
             /\ \A b \in DOMAIN first :
                   mask[b] = UNION {SymDiff(first[b], Payload(i)'[b]) :
                                i \in {j \in FramesOf(key)' : b \in DOMAIN Payload(j)'}}
  BY DEF MaskInv

\* The stream of the frame, when it is a PROFINET stream.
LEMMA TouchedStream ==
  ASSUME TriageInv, NEW key, key.kind = "profinet", NEW ts,
         NEW n, n = next, next' = next + 1, capture' = capture,
         FramesOf(key)' = FramesOf(key) \cup {n},
         NEW io, io = Payload(n), io # << >>,
         streams'[key] = Touched(Timed(ProfileOf(key), ts), io)
  PROVE  LET first == streams'[key].first
             mask  == streams'[key].mask
         IN  /\ first # << >> /\ DOMAIN mask = DOMAIN first
             /\ \E i \in FramesOf(key)' : first = Payload(i)'
             /\ \A b \in DOMAIN first :
                   mask[b] = UNION {SymDiff(first[b], Payload(i)'[b]) :
                                i \in {j \in FramesOf(key)' : b \in DOMAIN Payload(j)'}}
<1>0. PICK old, new : /\ old = Timed(ProfileOf(key), ts)
                      /\ new = Touched(old, io) /\ streams'[key] = new
  OBVIOUS
<1> DEFINE seen(b) == {j \in FramesOf(key) : b \in DOMAIN Payload(j)}
           now1(b) == {j \in FramesOf(key)' : b \in DOMAIN Payload(j)'}
<1>1. \A i : Payload(i)' = Payload(i)
  BY TakenGrows DEF TriageInv
<1>2. /\ DOMAIN old = {"last", "gaps", "first", "mask"}
      /\ old.first = ProfileOf(key).first /\ old.mask = ProfileOf(key).mask
  <2>1. DOMAIN ProfileOf(key) = {"last", "gaps", "first", "mask"}
    BY DEF ProfileOf, NewProfile, TriageInv, GroupedInv
  <2> QED
    BY <1>0, <2>1, TimedKeeps
<1>3. old.first # << >> => DOMAIN old.mask = DOMAIN old.first
  BY <1>2 DEF ProfileOf, NewProfile, TriageInv, MaskInv, Profinet
<1>4. /\ DOMAIN new = {"last", "gaps", "first", "mask"}
      /\ new.first # << >> /\ DOMAIN new.mask = DOMAIN new.first
      /\ old.first = << >> =>
            /\ new.first = io
            /\ \A b \in DOMAIN new.first : new.mask[b] = {}
      /\ old.first # << >> =>
            /\ new.first = old.first
            /\ \A b \in DOMAIN new.first :
                  /\ b \in DOMAIN io =>
                        new.mask[b] = old.mask[b] \cup SymDiff(new.first[b], io[b])
                  /\ b \notin DOMAIN io => new.mask[b] = old.mask[b]
  <2>1. new = Touched(old, io) /\ DOMAIN old = {"last", "gaps", "first", "mask"}
    BY <1>0, <1>2
  <2> QED
    BY <1>3, <2>1, TouchedMask
<1>5. \A b : now1(b) = IF b \in DOMAIN io THEN seen(b) \cup {n} ELSE seen(b)
  BY <1>1
<1> HIDE DEF seen, now1
<1>6. CASE key \notin DOMAIN streams
  <2>1. old.first = << >>
    BY <1>2, <1>6 DEF ProfileOf, NewProfile
  <2>2. FramesOf(key) = {}
    BY <1>6 DEF FramesOf, TriageInv, GroupedInv
  <2>3. new.first = Payload(n)' /\ n \in FramesOf(key)'
    BY <1>1, <1>4, <2>1
  <2>4. ASSUME NEW b \in DOMAIN new.first
        PROVE  new.mask[b] = UNION {SymDiff(new.first[b], Payload(i)'[b]) : i \in now1(b)}
    <3>1. new.first = io /\ new.mask[b] = {}
      BY <1>4, <2>1, <2>4
    <3>2. now1(b) = {n}
      BY <1>5, <2>2, <2>4, <3>1 DEF seen
    <3>3. SymDiff(new.first[b], Payload(n)'[b]) = {}
      BY <1>1, <3>1 DEF SymDiff
    <3> QED
      BY <3>1, <3>2, <3>3
  <2> QED
    BY <1>0, <1>4, <2>3, <2>4 DEF now1
<1>7. CASE key \in DOMAIN streams
  <2>1. /\ key \in Profinet /\ old.first = streams[key].first
        /\ old.mask = streams[key].mask
    BY <1>2, <1>7 DEF ProfileOf, Profinet
  <2>2. /\ old.first # << >>
        /\ \E i \in FramesOf(key) : old.first = Payload(i)
        /\ \A b \in DOMAIN old.first :
              old.mask[b] = UNION {SymDiff(old.first[b], Payload(i)[b]) : i \in seen(b)}
    BY <2>1 DEF TriageInv, MaskInv, seen
  <2>3. new.first = old.first
    BY <1>4, <2>2
  <2>4. \E i \in FramesOf(key)' : new.first = Payload(i)'
    BY <1>1, <2>2, <2>3
  <2>5. ASSUME NEW b \in DOMAIN new.first
        PROVE  new.mask[b] = UNION {SymDiff(new.first[b], Payload(i)'[b]) : i \in now1(b)}
    <3> DEFINE d(i) == SymDiff(new.first[b], Payload(i)[b])
    <3>1. old.mask[b] = UNION {d(i) : i \in seen(b)}
      BY <2>2, <2>3, <2>5
    <3>2. UNION {SymDiff(new.first[b], Payload(i)'[b]) : i \in now1(b)}
             = UNION {d(i) : i \in now1(b)}
      BY <1>1
    <3>3. new.mask[b] = IF b \in DOMAIN io THEN old.mask[b] \cup d(n) ELSE old.mask[b]
      BY <1>4, <2>2, <2>5
    <3> HIDE DEF d
    <3>4. CASE b \in DOMAIN io
      <4>1. now1(b) = seen(b) \cup {n}
        BY <1>5, <3>4
      <4>2. UNION {d(i) : i \in seen(b) \cup {n}}
               = (UNION {d(i) : i \in seen(b)}) \cup d(n)
        OBVIOUS
      <4> QED
        BY <3>1, <3>2, <3>3, <3>4, <4>1, <4>2
    <3>5. CASE b \notin DOMAIN io
      <4>1. now1(b) = seen(b)
        BY <1>5, <3>5
      <4> QED
        BY <3>1, <3>2, <3>3, <3>5, <4>1
    <3> QED
      BY <3>4, <3>5
  <2> QED
    BY <1>0, <1>4, <2>4, <2>5 DEF now1
<1> QED
  BY <1>6, <1>7

LEMMA TakeFrameKeeps == TriageInv /\ TakeFrame => TriageInv'
<1> SUFFICES ASSUME TriageInv, TakeFrame PROVE TriageInv'
  OBVIOUS
<1>1. PICK n, f, ts : /\ n = next /\ f = capture.frames[n].frame
                      /\ ts = capture.frames[n].ts
  OBVIOUS
<1>2. /\ next' = next + 1 /\ capture' = capture
      /\ n \in DOMAIN capture.frames /\ n \in Nat \ {0} /\ f = FrameAt(n)
  BY <1>1 DEF TakeFrame, TriageInv, ReaderInv, FrameAt
<1>3. Discover(ts, f)
  BY <1>1 DEF TakeFrame
<1>4. /\ Taken' = Taken \cup {n}
      /\ \A i : /\ FrameAt(i)' = FrameAt(i) /\ ParsedAt(i)' = ParsedAt(i)
                /\ Proto(i)' = Proto(i) /\ Payload(i)' = Payload(i)
  BY <1>1, <1>2, TakenGrows DEF TriageInv
<1>5. ReaderInv'
  <2>1. n + 1 \in Nat \ {0}
    BY <1>2
  <2> QED
    BY <1>1, <1>2, <1>4, <2>1 DEF TriageInv, ReaderInv
<1>6. IsFrame(f)
  BY <1>1, <1>2, CapturesAssumption DEF TriageInv, ReaderInv, IsFrame
<1>7. \A key : FramesOf(key)' =
         FramesOf(key) \cup
             {i \in {n} : ParsedAt(i).ok /\ StreamKey(FrameAt(i), Proto(i)) = key}
  BY <1>1, <1>2, FramesOfGrows DEF TriageInv
<1>8. CASE ~Parse(f).ok
  <2>1. streams' = streams
    BY <1>3, <1>8 DEF Discover, ObserveUnclassified
  <2>2. \A key : FramesOf(key)' = FramesOf(key)
    BY <1>2, <1>7, <1>8 DEF ParsedAt
  <2>3. GroupedInv'
    <3>1. \A i : StreamKey(FrameAt(i), Proto(i))' = StreamKey(FrameAt(i), Proto(i))
      BY <1>4 DEF StreamKey, FrameAt, Proto, ParsedAt
    <3> QED
      BY <1>2, <1>4, <1>8, <2>1, <3>1 DEF TriageInv, GroupedInv, ParsedAt
  <2>4. MaskInv'
    BY <1>4, <2>1, <2>2, OtherStream DEF TriageInv, MaskInv, Profinet
  <2> QED
    BY <1>5, <2>3, <2>4 DEF TriageInv
<1>9. CASE Parse(f).ok
  <2>1. PICK proto, key, io : /\ proto = Parse(f).proto /\ key = StreamKey(f, proto)
                              /\ io = IoPayload(f)
    OBVIOUS
  <2>2. PICK profile :
           /\ profile = IF proto.kind = "profinet"
                        THEN Touched(Timed(ProfileOf(key), ts), io)
                        ELSE Timed(ProfileOf(key), ts)
           /\ streams' = [k \in DOMAIN streams \cup {key} |->
                             IF k = key THEN profile ELSE streams[k]]
    BY <1>3, <1>9, <2>1 DEF Discover, Observe
  <2>3. /\ DOMAIN streams' = DOMAIN streams \cup {key} /\ streams'[key] = profile
        /\ \A k \in DOMAIN streams : k # key => streams'[k] = streams[k]
    BY <2>2
  <2>4. /\ proto.kind = "profinet" => io # << >>
        /\ key.kind = "profinet" <=> proto.kind = "profinet"
    BY <1>6, <1>9, <2>1, Reparsed, ProfinetKey
  <2>5. DOMAIN profile = {"last", "gaps", "first", "mask"}
    <3>1. DOMAIN ProfileOf(key) = {"last", "gaps", "first", "mask"}
      BY DEF ProfileOf, NewProfile, TriageInv, GroupedInv
    <3>2. DOMAIN Timed(ProfileOf(key), ts) = {"last", "gaps", "first", "mask"}
      BY <3>1, TimedKeeps
    <3>3. DOMAIN Touched(Timed(ProfileOf(key), ts), io) = DOMAIN Timed(ProfileOf(key), ts)
      BY DEF Touched
    <3> QED
      BY <2>2, <3>2, <3>3
  <2>6. GroupedInv'
    <3>1. \A i : StreamKey(FrameAt(i), Proto(i))' = StreamKey(FrameAt(i), Proto(i))
      BY <1>4 DEF StreamKey, FrameAt, Proto, ParsedAt
    <3>2. StreamKey(FrameAt(n), Proto(n)) = key
      BY <1>2, <2>1 DEF Proto, ParsedAt
    <3>3. \A i \in Taken' : ParsedAt(i)'.ok => StreamKey(FrameAt(i), Proto(i))' \in DOMAIN streams'
      BY <1>4, <2>3, <3>1, <3>2 DEF TriageInv, GroupedInv
    <3>4. \A k \in DOMAIN streams' : DOMAIN streams'[k] = {"last", "gaps", "first", "mask"}
      BY <2>3, <2>5 DEF TriageInv, GroupedInv
    <3> QED
      BY <3>3, <3>4 DEF GroupedInv
  <2>7. ASSUME NEW k, k \in DOMAIN streams', k.kind = "profinet"
        PROVE  LET first == streams'[k].first
                   mask  == streams'[k].mask
               IN  /\ first # << >> /\ DOMAIN mask = DOMAIN first
                   /\ \E i \in FramesOf(k)' : first = Payload(i)'
                   /\ \A b \in DOMAIN first :
                         mask[b] = UNION {SymDiff(first[b], Payload(i)'[b]) :
                                      i \in {j \in FramesOf(k)' : b \in DOMAIN Payload(j)'}}
    <3>1. CASE k # key
      <4>1. k \in Profinet /\ streams'[k] = streams[k]
        BY <2>3, <2>7, <3>1 DEF Profinet
      <4>2. FramesOf(k)' = FramesOf(k)
        BY <1>2, <1>7, <2>1, <3>1 DEF Proto, ParsedAt
      <4> QED
        BY <1>4, <4>1, <4>2, OtherStream DEF TriageInv
    <3>2. CASE k = key
      <4>1. FramesOf(k)' = FramesOf(k) \cup {n}
        BY <1>2, <1>7, <1>9, <2>1, <3>2 DEF Proto, ParsedAt
      <4>2. io = Payload(n) /\ io # << >>
        BY <1>2, <2>1, <2>4, <2>7, <3>2 DEF Payload
      <4>3. streams'[k] = Touched(Timed(ProfileOf(k), ts), io)
        BY <2>2, <2>3, <2>4, <2>7, <3>2
      <4> QED
        BY <1>1, <1>2, <2>7, <4>1, <4>2, <4>3, TouchedStream
    <3> QED
      BY <3>1, <3>2
  <2>8. MaskInv'
    BY <2>7 DEF MaskInv, Profinet
  <2> QED
    BY <1>5, <2>6, <2>8 DEF TriageInv
<1> QED
  BY <1>8, <1>9

LEMMA TriageInvStep == TriageInv /\ [TriageNext]_triageVars => TriageInv'
<1> SUFFICES ASSUME TriageInv, [TriageNext]_triageVars PROVE TriageInv'
  OBVIOUS
<1>1. CASE TakeFrame
  BY <1>1, TakeFrameKeeps
<1>2. CASE RejectFormat \/ Conclude \/ UNCHANGED triageVars
  <2>1. capture' = capture /\ next' = next /\ streams' = streams
    BY <1>2 DEF RejectFormat, Conclude, triageVars, discoveryVars
  <2>2. ReaderInv'
    BY <2>1 DEF TriageInv, ReaderInv, Taken
  <2>3. GroupedInv'
    BY <2>1 DEF TriageInv, GroupedInv, Taken, ParsedAt, Proto, FrameAt
  <2>4. MaskInv'
    BY <2>1 DEF TriageInv, MaskInv, Profinet, FramesOf, Payload, Taken, ParsedAt,
                Proto, FrameAt
  <2> QED
    BY <2>2, <2>3, <2>4 DEF TriageInv
<1> QED
  BY <1>1, <1>2 DEF TriageNext

LEMMA TriageInvAlways == TriageSpec => []TriageInv
  BY TriageInvInit, TriageInvStep, PTL DEF TriageSpec

-----------------------------------------------------------------------------
(* The theorems about the triage of a capture.                             *)

\* Whatever a frame declares and wherever it was cut, nothing is read beyond it.
THEOREM TriageReadsWithinFrame == TriageSpec => []ReadsWithinFrame
<1>1. TriageInv => ReadsWithinFrame
  BY FramesAreFrames, ParseWithin DEF TriageInv, ReadsWithinFrame, ParsedAt
<1> QED
  BY TriageInvAlways, <1>1, PTL

\* The other readers of an accepted frame find what parse_frame found.
THEOREM TriageReparsesAgree == TriageSpec => []ReparsesAgree
<1>1. TriageInv => ReparsesAgree
  <2> SUFFICES ASSUME TriageInv, NEW i \in Taken, ParsedAt(i).ok
               PROVE  CASE Proto(i).kind = "profinet" ->
                             /\ EthertypeOf(FrameAt(i)) = ETHERTYPE_PROFINET
                             /\ IoPayload(FrameAt(i)) # << >>
                             /\ Head(IoPayload(FrameAt(i))) = Proto(i).status
                        [] Proto(i).kind = "fanuc" ->
                             /\ EthertypeOf(FrameAt(i)) = ETHERTYPE_IPV4
                             /\ UdpDstPort(FrameAt(i)) = FANUC_POSE_PORT
                        [] OTHER -> EthertypeOf(FrameAt(i)) = ETHERTYPE_IPV4
    BY DEF ReparsesAgree
  <2>1. IsFrame(FrameAt(i)) /\ Parse(FrameAt(i)).ok /\ Proto(i) = Parse(FrameAt(i)).proto
    BY FramesAreFrames DEF TriageInv, ParsedAt, Proto
  <2>2. /\ Proto(i).kind \in {"profinet", "s7comm", "ros2", "fanuc"}
        /\ Proto(i).kind = "profinet" =>
              /\ EthertypeOf(FrameAt(i)) = ETHERTYPE_PROFINET
              /\ IoPayload(FrameAt(i)) # << >>
              /\ Head(IoPayload(FrameAt(i))) = Proto(i).status
        /\ Proto(i).kind = "fanuc" => UdpDstPort(FrameAt(i)) = FANUC_POSE_PORT
        /\ Proto(i).kind # "profinet" => EthertypeOf(FrameAt(i)) = ETHERTYPE_IPV4
    BY <2>1, Reparsed
  <2> QED
    BY <2>2
<1> QED
  BY TriageInvAlways, <1>1, PTL

LEMMA PayloadBits ==
  ASSUME NEW f, NEW b \in DOMAIN IoPayload(f)
  PROVE  IoPayload(f)[b] \subseteq 0 .. 7
  BY DEF IoPayload, Bits

\* A bit of a byte that the stream's first payload has is listed as toggling
\* exactly if two frames have it at different values.  Of later bytes nothing is
\* claimed.
THEOREM TriageTogglesSeen == TriageSpec => []TogglesSeen
<1>1. TriageInv => TogglesSeen
  <2> SUFFICES ASSUME TriageInv, NEW key \in DOMAIN streams, key.kind = "profinet"
               PROVE  LET payloads == {IoPayload(FrameAt(i)) : i \in FramesOf(key)}
                      IN  \A b \in DOMAIN streams[key].first : \A bit \in 0 .. 7 :
                            <<b, bit>> \in TogglingBits(key) <=>
                                \E p, q \in {r \in payloads : b \in DOMAIN r} :
                                    bit \in p[b] /\ bit \notin q[b]
    BY DEF TogglesSeen
  <2> DEFINE first == streams[key].first
             mask  == streams[key].mask
             payloads == {IoPayload(FrameAt(i)) : i \in FramesOf(key)}
             both(b, x) == \E p, q \in {r \in payloads : b \in DOMAIN r} :
                               x \in p[b] /\ x \notin q[b]
  <2>1. /\ first # << >> /\ DOMAIN mask = DOMAIN first /\ first \in payloads
        /\ \A b \in DOMAIN first :
              mask[b] = UNION {SymDiff(first[b], Payload(i)[b]) :
                                  i \in {j \in FramesOf(key) : b \in DOMAIN Payload(j)}}
    BY DEF TriageInv, MaskInv, Profinet, Payload
  <2>2. \A p \in payloads : \A b \in DOMAIN p : p[b] \subseteq 0 .. 7
    BY PayloadBits
  <2> HIDE DEF first, mask
  <2>3. ASSUME NEW b \in DOMAIN first, NEW x
        PROVE  x \in mask[b] <=> \E q \in payloads : b \in DOMAIN q /\ x \in SymDiff(first[b], q[b])
    BY <2>1 DEF Payload
  <2> HIDE DEF payloads
  <2>4. ASSUME NEW b \in DOMAIN first, NEW x
        PROVE  x \in mask[b] <=> x \in 0 .. 7 /\ both(b, x)
    <3>1. ASSUME x \in mask[b]  PROVE x \in 0 .. 7 /\ both(b, x)
      <4>1. PICK q \in payloads : b \in DOMAIN q /\ x \in SymDiff(first[b], q[b])
        BY <2>3, <3>1
      <4>2. CASE x \in first[b] /\ x \notin q[b]
        BY <2>1, <2>2, <4>1, <4>2
      <4>3. CASE x \in q[b] /\ x \notin first[b]
        BY <2>1, <2>2, <4>1, <4>3
      <4> QED
        BY <4>1, <4>2, <4>3 DEF SymDiff
    <3>2. ASSUME both(b, x)  PROVE x \in mask[b]
      <4>1. PICK p \in payloads, q \in payloads :
               /\ b \in DOMAIN p /\ b \in DOMAIN q /\ x \in p[b] /\ x \notin q[b]
        BY <3>2
      <4>2. x \in SymDiff(first[b], p[b]) \/ x \in SymDiff(first[b], q[b])
        BY <4>1 DEF SymDiff
      <4> QED
        BY <2>3, <4>1, <4>2
    <3> QED
      BY <3>1, <3>2
  <2>5. TogglingBits(key) = UNION {{<<b, x>> : x \in mask[b]} : b \in DOMAIN first}
    BY <2>1 DEF TogglingBits, mask
  <2> HIDE DEF both
  <2>6. \A b \in DOMAIN first : \A x \in 0 .. 7 :
           <<b, x>> \in TogglingBits(key) <=> both(b, x)
    <3> SUFFICES ASSUME NEW b \in DOMAIN first, NEW x \in 0 .. 7
                 PROVE  <<b, x>> \in TogglingBits(key) <=> x \in mask[b]
      BY <2>4
    <3> QED
      BY <2>5
  <2> QED
    BY <2>6 DEF first, both, payloads
<1> QED
  BY TriageInvAlways, <1>1, PTL

-----------------------------------------------------------------------------
(* Coverage: the two counts of the same frames.                            *)

Updates(k) == streams[k].gaps.count + 1

\* What is counted are natural numbers, and a stream has a last stamp.
CountsTyped ==
    /\ IsFiniteSet(DOMAIN streams) /\ IsFiniteSet(DOMAIN by_ethertype)
    /\ malformed \in Nat /\ stats.classifiable \in Nat
    /\ \A k \in DOMAIN streams : Updates(k) \in Nat \ {0} /\ streams[k].last \in Nat
    /\ \A et \in DOMAIN by_ethertype : by_ethertype[et] \in Nat
    /\ \A et \in DOMAIN stats.ethertypes : stats.ethertypes[et] \in Nat

CoverInv == TriageInv /\ CountsTyped /\ CoverageAddsUp

LEMMA NothingSums ==
  ASSUME NEW f, DOMAIN f = {}
  PROVE  SumFunction(f) = 0
  BY SumEmpty DEF SumFunction

LEMMA CoverInvInit == TriageInit => CoverInv
<1> SUFFICES ASSUME TriageInit PROVE CoverInv
  OBVIOUS
<1>1. /\ DOMAIN streams = {} /\ DOMAIN by_ethertype = {} /\ malformed = 0
      /\ total_frames = 0 /\ next = 1 /\ verdict = "reading" /\ stats = NoStats
  BY DEF TriageInit, DiscoveryInit
<1>2. Classified = 0 /\ Unclassified = 0
  <2>1. DOMAIN [k \in DOMAIN streams |-> streams[k].gaps.count + 1] = {}
    BY <1>1
  <2>2. SumFunction([k \in DOMAIN streams |-> streams[k].gaps.count + 1]) = 0
    BY <2>1, NothingSums
  <2>3. SumFunction(by_ethertype) = 0
    BY <1>1, NothingSums
  <2> QED
    BY <1>1, <2>2, <2>3 DEF Classified, Unclassified
<1>3. /\ stats.total = 0 /\ stats.classifiable = 0 /\ stats.unclassified = 0
      /\ stats.malformed = 0 /\ DOMAIN stats.ethertypes = {}
  BY <1>1 DEF NoStats
<1>4. CountsTyped
  BY <1>1, <1>3, FS_EmptySet DEF CountsTyped
<1>5. CoverageAddsUp
  BY <1>1, <1>2, <1>3 DEF CoverageAddsUp
<1> QED
  BY <1>4, <1>5, TriageInvInit DEF CoverInv

\* A tally with one more entry.
LEMMA TallyGrows ==
  ASSUME NEW tally, NEW et, IsFiniteSet(DOMAIN tally),
         \A k \in DOMAIN tally : tally[k] \in Nat
  PROVE  /\ DOMAIN Tallied(tally, et) = DOMAIN tally \cup {et}
         /\ IsFiniteSet(DOMAIN Tallied(tally, et))
         /\ \A k \in DOMAIN Tallied(tally, et) :
               /\ Tallied(tally, et)[k] \in Nat
               /\ Tallied(tally, et)[k] =
                     (IF k \in DOMAIN tally THEN tally[k] ELSE 0) + (IF k = et THEN 1 ELSE 0)
         /\ SumFunction(Tallied(tally, et)) = SumFunction(tally) + 1
<1> DEFINE new == Tallied(tally, et)
<1>1. /\ DOMAIN new = DOMAIN tally \cup {et}
      /\ \A k \in DOMAIN new :
            new[k] = (IF k \in DOMAIN tally THEN tally[k] ELSE 0) + (IF k = et THEN 1 ELSE 0)
  BY DEF Tallied
<1> HIDE DEF new
<1>2. IsFiniteSet(DOMAIN new)
  BY <1>1, FS_AddElement
<1>3. \A k \in DOMAIN new : new[k] \in Nat
  BY <1>1
<1>4. new[et] = (IF et \in DOMAIN tally THEN tally[et] ELSE 0) + 1
  BY <1>1
<1>5. \A k \in DOMAIN tally : k # et => new[k] = tally[k]
  BY <1>1
<1>6. SumFunction(new) = SumFunction(tally) + 1
  BY <1>1, <1>4, <1>5, SumGrows
<1> QED
  BY <1>1, <1>2, <1>3, <1>6 DEF new

\* An accepted frame, in discovery: its stream counts one more.
LEMMA ObserveCounts ==
  ASSUME CoverInv, NEW ts \in Nat, NEW f, NEW proto, Observe(ts, f, proto)
  PROVE  /\ Classified' = Classified + 1 /\ Unclassified' = Unclassified
         /\ IsFiniteSet(DOMAIN streams')
         /\ \A k \in DOMAIN streams' :
               Updates(k)' \in Nat \ {0} /\ streams'[k].last \in Nat
<1>1. PICK key : key = StreamKey(f, proto)
  OBVIOUS
<1>2. PICK timed : timed = Timed(ProfileOf(key), ts)
  OBVIOUS
<1>3. PICK profile : /\ profile = IF proto.kind = "profinet"
                                  THEN Touched(timed, IoPayload(f)) ELSE timed
                     /\ streams' = [k \in DOMAIN streams \cup {key} |->
                                       IF k = key THEN profile ELSE streams[k]]
                     /\ by_ethertype' = by_ethertype /\ malformed' = malformed
  BY <1>1, <1>2 DEF Observe
<1>4. DOMAIN ProfileOf(key) = {"last", "gaps", "first", "mask"}
  BY DEF ProfileOf, NewProfile, CoverInv, TriageInv, GroupedInv
<1>5. /\ timed.last = ts
      /\ timed.gaps = IF ProfileOf(key).last = None THEN ProfileOf(key).gaps
                      ELSE RecordGap(ProfileOf(key).gaps, Gap(ProfileOf(key).last, ts))
      /\ DOMAIN timed = {"last", "gaps", "first", "mask"}
  BY <1>2, <1>4 DEF Timed
<1>6. profile.last = ts /\ profile.gaps = timed.gaps
  <2>1. /\ Touched(timed, IoPayload(f)).last = timed.last
        /\ Touched(timed, IoPayload(f)).gaps = timed.gaps
    BY <1>5 DEF Touched
  <2> QED
    BY <1>3, <1>5, <2>1
<1>7. profile.gaps.count + 1 = (IF key \in DOMAIN streams THEN Updates(key) ELSE 0) + 1
  <2>1. CASE key \in DOMAIN streams
    <3>1. ProfileOf(key) = streams[key] /\ streams[key].last # None
      BY <2>1, NoValueAssumption DEF ProfileOf, CoverInv, CountsTyped
    <3>2. timed.gaps.count = streams[key].gaps.count + 1
      BY <1>5, <3>1 DEF RecordGap
    <3> QED
      BY <1>6, <2>1, <3>2 DEF Updates
  <2>2. CASE key \notin DOMAIN streams
    <3>1. ProfileOf(key).last = None /\ ProfileOf(key).gaps.count = 0
      BY <2>2 DEF ProfileOf, NewProfile, Empty
    <3>2. profile.gaps.count = 0
      BY <1>5, <1>6, <3>1
    <3> QED
      BY <2>2, <3>2
  <2> QED
    BY <2>1, <2>2
<1>8. /\ DOMAIN streams' = DOMAIN streams \cup {key} /\ streams'[key] = profile
      /\ \A k \in DOMAIN streams : k # key => streams'[k] = streams[k]
  BY <1>3
<1> DEFINE old == [k \in DOMAIN streams |-> Updates(k)]
           new == [k \in DOMAIN streams' |-> streams'[k].gaps.count + 1]
<1>9. /\ IsFiniteSet(DOMAIN old) /\ \A k \in DOMAIN old : old[k] \in Nat \ {0}
      /\ DOMAIN new = DOMAIN old \cup {key}
  BY <1>8 DEF CoverInv, CountsTyped
<1>10. new[key] = (IF key \in DOMAIN old THEN old[key] ELSE 0) + 1
  BY <1>7, <1>8
<1>11. \A k \in DOMAIN old : k # key => new[k] = old[k]
  BY <1>8 DEF Updates
<1>12. SumFunction(new) = SumFunction(old) + 1
  <2> HIDE DEF old, new
  <2> QED
    BY <1>9, <1>10, <1>11, SumGrows
<1>13. Classified = SumFunction(old) /\ Classified' = SumFunction(new)
  BY DEF Classified, Updates
<1>14. Unclassified' = Unclassified
  BY <1>3 DEF Unclassified
<1>15. IsFiniteSet(DOMAIN streams')
  BY <1>8, FS_AddElement DEF CoverInv, CountsTyped
<1>16. ASSUME NEW k \in DOMAIN streams'
       PROVE  Updates(k)' \in Nat \ {0} /\ streams'[k].last \in Nat
  <2>1. Updates(k)' = new[k]
    BY <1>16 DEF Updates
  <2>2. new[k] \in Nat \ {0}
    <3>1. k \in DOMAIN old \cup {key}
      BY <1>8, <1>16
    <3> HIDE DEF old, new
    <3> QED
      BY <1>9, <1>10, <1>11, <3>1
  <2>3. streams'[k].last \in Nat
    BY <1>6, <1>8, <1>16 DEF CoverInv, CountsTyped
  <2> QED
    BY <2>1, <2>2, <2>3
<1> QED
  BY <1>12, <1>13, <1>14, <1>15, <1>16

\* A refused frame, in discovery.
LEMMA UnclassifiedCounts ==
  ASSUME CoverInv, NEW et, ObserveUnclassified(et)
  PROVE  /\ Unclassified' = Unclassified + 1 /\ Classified' = Classified
         /\ streams' = streams
         /\ et = None => malformed' = malformed + 1 /\ by_ethertype' = by_ethertype
         /\ et # None => malformed' = malformed /\ by_ethertype' = Tallied(by_ethertype, et)
<1>1. /\ streams' = streams
      /\ et = None => malformed' = malformed + 1 /\ by_ethertype' = by_ethertype
      /\ et # None => malformed' = malformed /\ by_ethertype' = Tallied(by_ethertype, et)
  BY DEF ObserveUnclassified
<1>2. Classified' = Classified
  BY <1>1 DEF Classified
<1>3. /\ malformed \in Nat /\ SumFunction(by_ethertype) \in Nat
  <2>1. /\ malformed \in Nat /\ IsFiniteSet(DOMAIN by_ethertype)
        /\ \A k \in DOMAIN by_ethertype : by_ethertype[k] \in Nat
    BY DEF CoverInv, CountsTyped
  <2> QED
    BY <2>1, SumTakeOut DEF SumFunction
<1>4. CASE et = None
  BY <1>1, <1>2, <1>3, <1>4 DEF Unclassified
<1>5. CASE et # None
  <2>1. SumFunction(Tallied(by_ethertype, et)) = SumFunction(by_ethertype) + 1
    BY TallyGrows DEF CoverInv, CountsTyped
  <2> QED
    BY <1>1, <1>2, <1>3, <1>5, <2>1 DEF Unclassified
<1> QED
  BY <1>4, <1>5

\* A frame is unclassified exactly if parse_frame refuses it, and malformed, which
\* only a refused one can be, if it has no EtherType.
LEMMA RefusedIfMalformed ==
  ASSUME NEW f, IsFrame(f), EthertypeOf(f) = None
  PROVE  ~Parse(f).ok
<1> SUFFICES ASSUME Parse(f).ok PROVE FALSE
  OBVIOUS
<1>1. EthertypeOf(f) \in Nat
  BY AcceptedFrame, WordsAreNumbers
<1> QED
  BY <1>1, NoValueAssumption

LEMMA TakeFrameCounts == CoverInv /\ TakeFrame => CoverInv'
<1> SUFFICES ASSUME CoverInv, TakeFrame PROVE CoverInv'
  OBVIOUS
<1>1. TriageInv'
  BY TakeFrameKeeps DEF CoverInv
<1>2. PICK n, f, ts : /\ n = next /\ f = capture.frames[n].frame
                      /\ ts = capture.frames[n].ts
  OBVIOUS
<1>3. /\ next' = next + 1 /\ verdict = "reading" /\ verdict' = "reading"
      /\ n \in DOMAIN capture.frames /\ n \in Nat \ {0}
      /\ Discover(ts, f) /\ Measure(ts, f) /\ capture \in Captures
  BY <1>2 DEF TakeFrame, CoverInv, TriageInv, ReaderInv
<1>4. IsFrame(f) /\ ts \in Nat
  BY <1>2, <1>3, CapturesAssumption DEF IsFrame
<1>5. /\ total_frames = n - 1 /\ stats.total = n - 1
      /\ Classified + Unclassified = total_frames
      /\ stats.classifiable = Classified /\ stats.unclassified = Unclassified
      /\ malformed = stats.malformed
      /\ \A k \in DOMAIN by_ethertype :
            k \in DOMAIN stats.ethertypes /\ by_ethertype[k] <= stats.ethertypes[k]
  BY <1>2 DEF CoverInv, CoverageAddsUp
<1>6. /\ malformed \in Nat /\ Classified \in Nat
      /\ IsFiniteSet(DOMAIN streams) /\ IsFiniteSet(DOMAIN by_ethertype)
      /\ \A k \in DOMAIN streams : Updates(k) \in Nat \ {0} /\ streams[k].last \in Nat
      /\ \A k \in DOMAIN by_ethertype : by_ethertype[k] \in Nat
      /\ \A k \in DOMAIN stats.ethertypes : stats.ethertypes[k] \in Nat
  BY <1>5 DEF CoverInv, CountsTyped
<1>7. Unclassified \in Int
  <2>1. SumFunction(by_ethertype) \in Nat
    BY <1>6, SumTakeOut DEF SumFunction
  <2> QED
    BY <1>6, <2>1 DEF Unclassified
<1> DEFINE et == EthertypeOf(f)
           ok == Parse(f).ok
<1>8. /\ stats'.total = n
      /\ stats'.classifiable = stats.classifiable + Count(ok)
      /\ stats'.unclassified = stats.unclassified + Count(~ok)
      /\ stats'.malformed = stats.malformed + Count(et = None)
      /\ stats'.ethertypes = IF et = None THEN stats.ethertypes
                             ELSE Tallied(stats.ethertypes, et)
  BY <1>3, <1>5 DEF Measure, Measured
<1>9. total_frames' = n
  BY <1>3, <1>5 DEF Discover, Observe, ObserveUnclassified
<1>10. /\ DOMAIN stats.ethertypes \subseteq DOMAIN stats'.ethertypes
       /\ \A k \in DOMAIN stats'.ethertypes : stats'.ethertypes[k] \in Nat
       /\ \A k \in DOMAIN stats.ethertypes : stats.ethertypes[k] <= stats'.ethertypes[k]
       /\ et # None => et \in DOMAIN stats'.ethertypes
  <2>1. CASE et = None
    BY <1>6, <1>8, <2>1
  <2>2. CASE et # None
    <3>1. DOMAIN stats'.ethertypes = DOMAIN stats.ethertypes \cup {et}
      BY <1>8, <2>2 DEF Tallied
    <3>2. \A k \in DOMAIN stats'.ethertypes :
             stats'.ethertypes[k] =
                (IF k \in DOMAIN stats.ethertypes THEN stats.ethertypes[k] ELSE 0)
                + (IF k = et THEN 1 ELSE 0)
      BY <1>8, <2>2 DEF Tallied
    <3> HIDE DEF et
    <3> QED
      BY <1>6, <3>1, <3>2
  <2> QED
    BY <2>1, <2>2
<1>11. CASE ok
  <2>1. et # None
    BY <1>4, <1>11, RefusedIfMalformed
  <2>2. Observe(ts, f, Parse(f).proto)
    BY <1>3, <1>11 DEF Discover
  <2>3. /\ Classified' = Classified + 1 /\ Unclassified' = Unclassified
        /\ IsFiniteSet(DOMAIN streams')
        /\ \A k \in DOMAIN streams' : Updates(k)' \in Nat \ {0} /\ streams'[k].last \in Nat
    BY <1>4, <2>2, ObserveCounts
  <2>4. malformed' = malformed /\ by_ethertype' = by_ethertype
    BY <2>2 DEF Observe
  <2>5. /\ stats'.classifiable = stats.classifiable + 1
        /\ stats'.unclassified = stats.unclassified + 0
        /\ stats'.malformed = stats.malformed + 0
    BY <1>8, <1>11, <2>1 DEF Count
  <2>6. \A k \in DOMAIN by_ethertype' :
           k \in DOMAIN stats'.ethertypes /\ by_ethertype'[k] <= stats'.ethertypes[k]
    BY <1>5, <1>6, <1>10, <2>4
  <2> HIDE DEF et, ok
  <2>7. CountsTyped'
    BY <1>5, <1>6, <1>10, <2>3, <2>4, <2>5 DEF CountsTyped
  <2>8. CoverageAddsUp'
    BY <1>2, <1>3, <1>5, <1>6, <1>7, <1>8, <1>9, <2>3, <2>4, <2>5, <2>6
       DEF CoverageAddsUp
  <2> QED
    BY <1>1, <2>7, <2>8 DEF CoverInv
<1>12. CASE ~ok
  <2>1. ObserveUnclassified(et)
    BY <1>3, <1>12 DEF Discover
  <2>2. /\ Unclassified' = Unclassified + 1 /\ Classified' = Classified
        /\ streams' = streams
        /\ et = None => malformed' = malformed + 1 /\ by_ethertype' = by_ethertype
        /\ et # None => malformed' = malformed /\ by_ethertype' = Tallied(by_ethertype, et)
    BY <2>1, UnclassifiedCounts
  <2>3. /\ stats'.classifiable = stats.classifiable + 0
        /\ stats'.unclassified = stats.unclassified + 1
    BY <1>8, <1>12 DEF Count
  <2>4. malformed' = stats'.malformed /\ malformed' \in Nat
    <3>1. CASE et = None
      BY <1>5, <1>6, <1>8, <2>2, <3>1 DEF Count
    <3>2. CASE et # None
      BY <1>5, <1>6, <1>8, <2>2, <3>2 DEF Count
    <3> QED
      BY <3>1, <3>2
  <2>5. /\ IsFiniteSet(DOMAIN by_ethertype')
        /\ \A k \in DOMAIN by_ethertype' :
              /\ by_ethertype'[k] \in Nat
              /\ k \in DOMAIN stats'.ethertypes /\ by_ethertype'[k] <= stats'.ethertypes[k]
    <3>1. CASE et = None
      BY <1>5, <1>6, <1>10, <2>2, <3>1
    <3>2. CASE et # None
      <4>1. /\ DOMAIN by_ethertype' = DOMAIN by_ethertype \cup {et}
            /\ IsFiniteSet(DOMAIN by_ethertype')
            /\ \A k \in DOMAIN by_ethertype' :
                  /\ by_ethertype'[k] \in Nat
                  /\ by_ethertype'[k] =
                        (IF k \in DOMAIN by_ethertype THEN by_ethertype[k] ELSE 0)
                        + (IF k = et THEN 1 ELSE 0)
        <5>1. by_ethertype' = Tallied(by_ethertype, et)
          BY <2>2, <3>2
        <5> HIDE DEF et
        <5>2. /\ DOMAIN Tallied(by_ethertype, et) = DOMAIN by_ethertype \cup {et}
              /\ IsFiniteSet(DOMAIN Tallied(by_ethertype, et))
              /\ \A k \in DOMAIN Tallied(by_ethertype, et) :
                    /\ Tallied(by_ethertype, et)[k] \in Nat
                    /\ Tallied(by_ethertype, et)[k] =
                          (IF k \in DOMAIN by_ethertype THEN by_ethertype[k] ELSE 0)
                          + (IF k = et THEN 1 ELSE 0)
          BY <1>6, TallyGrows
        <5> QED
          BY <5>1, <5>2
      <4>2. \A k \in DOMAIN stats'.ethertypes :
               stats'.ethertypes[k] =
                  (IF k \in DOMAIN stats.ethertypes THEN stats.ethertypes[k] ELSE 0)
                  + (IF k = et THEN 1 ELSE 0)
        BY <1>8, <3>2 DEF Tallied
      <4> HIDE DEF et
      <4>3. ASSUME NEW k \in DOMAIN by_ethertype'
            PROVE  k \in DOMAIN stats'.ethertypes /\ by_ethertype'[k] <= stats'.ethertypes[k]
        <5>1. k \in DOMAIN stats'.ethertypes
          BY <1>5, <1>10, <3>2, <4>1, <4>3
        <5>2. CASE k \in DOMAIN by_ethertype
          BY <1>5, <1>6, <4>1, <4>2, <5>1, <5>2
        <5>3. CASE k \notin DOMAIN by_ethertype
          BY <1>6, <4>1, <4>2, <5>1, <5>3
        <5> QED
          BY <5>1, <5>2, <5>3
      <4> QED
        BY <4>1, <4>3
    <3> QED
      BY <3>1, <3>2
  <2> HIDE DEF et, ok
  <2>6. CountsTyped'
    BY <1>5, <1>6, <1>10, <2>2, <2>3, <2>4, <2>5 DEF CountsTyped, Updates
  <2>7. CoverageAddsUp'
    BY <1>2, <1>3, <1>5, <1>6, <1>7, <1>8, <1>9, <2>2, <2>3, <2>4, <2>5
       DEF CoverageAddsUp
  <2> QED
    BY <1>1, <2>6, <2>7 DEF CoverInv
<1> QED
  BY <1>11, <1>12

LEMMA CoverInvStep == CoverInv /\ [TriageNext]_triageVars => CoverInv'
<1> SUFFICES ASSUME CoverInv, [TriageNext]_triageVars PROVE CoverInv'
  OBVIOUS
<1>1. TriageInv'
  BY TriageInvStep DEF CoverInv
<1>2. CASE TakeFrame
  BY <1>2, TakeFrameCounts
<1>3. CASE RejectFormat \/ Conclude \/ UNCHANGED triageVars
  <2>1. /\ next' = next /\ stats' = stats /\ streams' = streams
        /\ by_ethertype' = by_ethertype /\ malformed' = malformed
        /\ total_frames' = total_frames
        /\ verdict' \in {verdict, "RejectedFormat", Verdict}
    BY <1>3 DEF RejectFormat, Conclude, triageVars, discoveryVars
  <2>2. Classified' = Classified /\ Unclassified' = Unclassified
    BY <2>1 DEF Classified, Unclassified
  <2>3. CountsTyped'
    BY <2>1 DEF CoverInv, CountsTyped, Updates
  <2>4. /\ verdict' = "Analyzable" => 5 * Unclassified <= total_frames
        /\ verdict' = "CoverageGap" => 5 * Unclassified > total_frames
    <3>1. /\ stats.unclassified = Unclassified /\ stats.total = total_frames
          /\ total_frames \in Int /\ Unclassified \in Int
          /\ verdict = "Analyzable" => 5 * Unclassified <= total_frames
          /\ verdict = "CoverageGap" => 5 * Unclassified > total_frames
      <4>1. next \in Nat /\ stats.classifiable \in Nat
        BY DEF CoverInv, CountsTyped, TriageInv, ReaderInv
      <4>2. /\ stats.unclassified = Unclassified /\ stats.total = total_frames
            /\ total_frames = next - 1
            /\ verdict = "Analyzable" => 5 * Unclassified <= total_frames
            /\ verdict = "CoverageGap" => 5 * Unclassified > total_frames
        BY DEF CoverInv, CoverageAddsUp
      <4>3. Unclassified \in Int
        <5>1. /\ malformed \in Nat /\ IsFiniteSet(DOMAIN by_ethertype)
              /\ \A k \in DOMAIN by_ethertype : by_ethertype[k] \in Nat
          BY DEF CoverInv, CountsTyped
        <5>2. SumFunction(by_ethertype) \in Nat
          BY <5>1, SumTakeOut DEF SumFunction
        <5> QED
          BY <5>1, <5>2 DEF Unclassified
      <4> QED
        BY <4>1, <4>2, <4>3
    <3>2. CASE verdict' = Verdict
      BY <3>1, <3>2 DEF Verdict
    <3> QED
      BY <2>1, <3>1, <3>2
  <2>5. CoverageAddsUp'
    BY <2>1, <2>2, <2>4 DEF CoverInv, CoverageAddsUp
  <2> QED
    BY <1>1, <2>3, <2>5 DEF CoverInv
<1> QED
  BY <1>2, <1>3 DEF TriageNext

\* Both commands count every frame once, agree on every number they both report,
\* and the verdict is one on either's numbers.
THEOREM TriageCoverageAddsUp == TriageSpec => []CoverageAddsUp
<1>1. CoverInv => CoverageAddsUp
  BY DEF CoverInv
<1> QED
  BY CoverInvInit, CoverInvStep, <1>1, PTL DEF TriageSpec

-----------------------------------------------------------------------------
(* Powers of two.                                                          *)

\* The powers up to 2^n.
Powers(f, n) == /\ DOMAIN f = 0 .. n /\ f[0] = 1
                /\ \A k \in 1 .. n : f[k] = 2 * f[k - 1]

LEMMA PowersExist == \A n \in Nat : \E f : Powers(f, n)
<1> DEFINE Missing == {n \in Nat : ~\E f : Powers(f, n)}
<1>1. Missing = {}
  <2> SUFFICES ASSUME Missing # {}  PROVE FALSE
    OBVIOUS
  <2>1. PICK b \in Missing : \A c \in Missing : b <= c
    <3>1. Missing \in SUBSET Nat
      OBVIOUS
    <3> HIDE DEF Missing
    <3> QED
      BY <3>1, LeastPosition
  <2>2. b \in Nat /\ b # 0
    <3>1. Powers([k \in 0 .. 0 |-> 1], 0)
      BY DEF Powers
    <3> QED
      BY <3>1
  <2>3. b - 1 \notin Missing
    <3> HIDE DEF Missing
    <3> QED
      BY <2>1, <2>2
  <2>4. PICK f : Powers(f, b - 1)
    BY <2>2, <2>3
  <2>5. Powers([k \in 0 .. b |-> IF k = b THEN 2 * f[b - 1] ELSE f[k]], b)
    BY <2>2, <2>4 DEF Powers
  <2> QED
    BY <2>5
<1> QED
  BY <1>1

LEMMA PowersAgree ==
  ASSUME NEW m \in Nat, NEW n \in Nat, NEW f, NEW g, Powers(f, m), Powers(g, n), m <= n
  PROVE  \A k \in 0 .. m : f[k] = g[k]
<1> DEFINE Bad == {k \in 0 .. m : f[k] # g[k]}
<1> SUFFICES ASSUME Bad # {}  PROVE FALSE
  OBVIOUS
<1>1. PICK b \in Bad : \A c \in Bad : b <= c
  <2>1. Bad \in SUBSET Nat
    OBVIOUS
  <2> HIDE DEF Bad
  <2> QED
    BY <2>1, LeastPosition
<1>2. b \in 1 .. m /\ b \in 1 .. n
  BY DEF Powers
<1>3. b - 1 \notin Bad
  <2> HIDE DEF Bad
  <2> QED
    BY <1>1, <1>2
<1>4. f[b - 1] = g[b - 1]
  BY <1>2, <1>3
<1> QED
  BY <1>2, <1>4 DEF Powers

LEMMA Pow2Defined == \A n \in Nat : Pow2[n] = IF n = 0 THEN 1 ELSE 2 * Pow2[n - 1]
<1> DEFINE Of(n) == CHOOSE f : Powers(f, n)
           F == [n \in Nat |-> Of(n)[n]]
           Def(P) == P = [n \in Nat |-> IF n = 0 THEN 1 ELSE 2 * P[n - 1]]
<1>1. \A n \in Nat : Powers(Of(n), n)
  BY PowersExist
<1>2. F[0] = 1
  BY <1>1 DEF Powers
<1>3. ASSUME NEW n \in Nat \ {0}  PROVE F[n] = 2 * F[n - 1]
  <2>1. Powers(Of(n), n) /\ Powers(Of(n - 1), n - 1) /\ n - 1 \in Nat
    BY <1>1
  <2> HIDE DEF Of
  <2>2. Of(n)[n - 1] = Of(n - 1)[n - 1]
    BY <2>1, PowersAgree
  <2>3. Of(n)[n] = 2 * Of(n)[n - 1]
    BY <2>1 DEF Powers
  <2> QED
    BY <2>1, <2>2, <2>3
<1>4. Def(F)
  <2>1. F = [n \in Nat |-> F[n]]
    OBVIOUS
  <2> HIDE DEF F
  <2> QED
    BY <1>2, <1>3, <2>1
<1>5. Pow2 = CHOOSE P : Def(P)
  BY DEF Pow2
<1>6. Def(Pow2)
  <2> HIDE DEF Def
  <2> QED
    BY <1>4, <1>5
<1> QED
  BY <1>6

LEMMA Pow2Positive == \A n \in Nat : Pow2[n] \in Nat \ {0}
<1> DEFINE Bad == {n \in Nat : Pow2[n] \notin Nat \ {0}}
<1> SUFFICES ASSUME Bad # {}  PROVE FALSE
  OBVIOUS
<1>1. PICK b \in Bad : \A c \in Bad : b <= c
  <2>1. Bad \in SUBSET Nat
    OBVIOUS
  <2> HIDE DEF Bad
  <2> QED
    BY <2>1, LeastPosition
<1>2. b \in Nat \ {0}
  BY Pow2Defined
<1>3. b - 1 \notin Bad
  <2> HIDE DEF Bad
  <2> QED
    BY <1>1, <1>2
<1>4. Pow2[b - 1] \in Nat \ {0}
  BY <1>2, <1>3
<1> QED
  BY <1>2, <1>4, Pow2Defined

LEMMA Pow2Step == \A n \in Nat : Pow2[n + 1] = 2 * Pow2[n]
  BY Pow2Defined

LEMMA Pow2Sum == \A a, b \in Nat : Pow2[a + b] = Pow2[a] * Pow2[b]
<1> SUFFICES ASSUME NEW a \in Nat PROVE \A b \in Nat : Pow2[a + b] = Pow2[a] * Pow2[b]
  OBVIOUS
<1> DEFINE Bad == {b \in Nat : Pow2[a + b] # Pow2[a] * Pow2[b]}
<1> SUFFICES ASSUME Bad # {}  PROVE FALSE
  OBVIOUS
<1>1. PICK b \in Bad : \A c \in Bad : b <= c
  <2>1. Bad \in SUBSET Nat
    OBVIOUS
  <2> HIDE DEF Bad
  <2> QED
    BY <2>1, LeastPosition
<1>2. b \in Nat \ {0}
  BY Pow2Defined, Pow2Positive
<1>3. b - 1 \notin Bad
  <2> HIDE DEF Bad
  <2> QED
    BY <1>1, <1>2
<1>4. Pow2[a + (b - 1)] = Pow2[a] * Pow2[b - 1]
  BY <1>2, <1>3
<1>5. Pow2[a + b] = 2 * Pow2[a + (b - 1)] /\ Pow2[b] = 2 * Pow2[b - 1]
  <2>1. b - 1 \in Nat /\ a + (b - 1) \in Nat /\ (a + (b - 1)) + 1 = a + b /\ (b - 1) + 1 = b
    BY <1>2
  <2> QED
    BY <2>1, Pow2Step
<1>6. Pow2[a] \in Nat /\ Pow2[b - 1] \in Nat
  BY <1>2, Pow2Positive
<1>7. 2 * (Pow2[a] * Pow2[b - 1]) = Pow2[a] * (2 * Pow2[b - 1])
  BY <1>6
<1> QED
  BY <1>4, <1>5, <1>7

LEMMA Pow2Grows == \A a, b \in Nat : a < b => 2 * Pow2[a] <= Pow2[b]
<1> SUFFICES ASSUME NEW a \in Nat, NEW b \in Nat, a < b  PROVE 2 * Pow2[a] <= Pow2[b]
  OBVIOUS
<1>1. PICK d : d \in Nat /\ b = (a + 1) + d
  <2>1. b - (a + 1) \in Nat /\ b = (a + 1) + (b - (a + 1))
    OBVIOUS
  <2> QED
    BY <2>1
<1>2. Pow2[b] = (2 * Pow2[a]) * Pow2[d]
  BY <1>1, Pow2Sum, Pow2Step
<1>3. Pow2[a] \in Nat /\ Pow2[d] \in Nat \ {0}
  BY <1>1, Pow2Positive
<1>4. \A x \in Nat, y \in Nat \ {0} : x <= x * y
  OBVIOUS
<1> QED
  BY <1>2, <1>3, <1>4

-----------------------------------------------------------------------------
(* The buckets of a histogram.                                             *)

LEMMA MinIs ==
  ASSUME NEW S \in SUBSET Int, NEW m \in S, \A y \in S : m <= y  PROVE Min(S) = m
<1>1. \A n \in S : (\A y \in S : n <= y) => n = m
  OBVIOUS
<1> QED
  BY <1>1 DEF Min

LEMMA MaxIs ==
  ASSUME NEW S \in SUBSET Int, NEW m \in S, \A y \in S : y <= m  PROVE Max(S) = m
<1>1. \A n \in S : (\A y \in S : y <= n) => n = m
  OBVIOUS
<1> QED
  BY <1>1 DEF Max

LEMMA LeastOf ==
  ASSUME NEW S \in SUBSET Nat, S # {}
  PROVE  Min(S) \in S /\ \A y \in S : Min(S) <= y
<1>1. PICK m \in S : \A y \in S : m <= y
  BY LeastPosition
<1>2. S \in SUBSET Int
  OBVIOUS
<1> QED
  BY <1>1, <1>2, MinIs

LEMMA GreatestOf ==
  ASSUME NEW n \in Nat, NEW S \in SUBSET (0 .. n), S # {}
  PROVE  Max(S) \in S /\ \A y \in S : y <= Max(S)
<1> DEFINE M == {n - x : x \in S}
<1>1. M \in SUBSET Nat /\ M # {}
  <2>1. \A x \in S : n - x \in Nat
    OBVIOUS
  <2>2. PICK x : x \in S
    OBVIOUS
  <2> QED
    BY <2>1, <2>2
<1>2. PICK d \in M : \A e \in M : d <= e
  <2> HIDE DEF M
  <2> QED
    BY <1>1, LeastPosition
<1>3. PICK m \in S : d = n - m
  BY <1>2
<1>4. \A y \in S : y <= m
  <2> SUFFICES ASSUME NEW y \in S PROVE y <= m
    OBVIOUS
  <2>1. d <= n - y
    BY <1>2
  <2> QED
    BY <1>3, <2>1
<1>5. S \in SUBSET Int
  OBVIOUS
<1> QED
  BY <1>4, <1>5, MaxIs

LEMMA MinOfTwo == \A a, b \in Int : Min({a, b}) = IF a <= b THEN a ELSE b
<1> SUFFICES ASSUME NEW a \in Int, NEW b \in Int
             PROVE  Min({a, b}) = IF a <= b THEN a ELSE b
  OBVIOUS
<1>1. a <= b => Min({a, b}) = a
  BY MinIs
<1>2. b <= a => Min({a, b}) = b
  BY MinIs
<1> QED
  BY <1>1, <1>2

LEMMA MaxOfTwo == \A a, b \in Int : Max({a, b}) = IF a <= b THEN b ELSE a
<1> SUFFICES ASSUME NEW a \in Int, NEW b \in Int
             PROVE  Max({a, b}) = IF a <= b THEN b ELSE a
  OBVIOUS
<1>1. a <= b => Max({a, b}) = b
  BY MaxIs
<1>2. b <= a => Max({a, b}) = a
  BY MaxIs
<1> QED
  BY <1>1, <1>2

LEMMA Shape == /\ SUB \in Nat \ {0} /\ Width \in Nat \ {0}
               /\ Pow2[Width] \in Nat \ {0}
               /\ \E s \in Nat : SUB = Pow2[s]
<1>1. PICK s \in 0 .. Width : SUB = Pow2[s]
  BY HistogramAssumption
<1>2. Width \in Nat \ {0} /\ s \in Nat
  BY HistogramAssumption
<1> QED
  BY <1>1, <1>2, Pow2Positive

\* The band of a value, and its place inside: band b holds the values from
\* 2^b, in SUB parts.
Part(v, base) == ((v - base) * SUB) \div base

LEMMA BandOf ==
  ASSUME NEW v \in Nat \ {0}, v < Pow2[Width]
  PROVE  /\ Band(v) - 1 \in 0 .. Width - 1
         /\ Pow2[Band(v) - 1] <= v /\ v < 2 * Pow2[Band(v) - 1]
<1> DEFINE Above == {b \in Nat : v < Pow2[b]}
<1>1. Width \in Above
  BY Shape
<1>2. PICK b \in Above : \A c \in Above : b <= c
  <2>1. Above \in SUBSET Nat /\ Above # {}
    BY <1>1
  <2> HIDE DEF Above
  <2> QED
    BY <2>1, LeastPosition
<1>3. b \in 1 .. Width
  BY <1>1, <1>2, Shape, Pow2Defined
<1>4. Pow2[b - 1] <= v
  <2>1. b - 1 \in Nat /\ b - 1 \notin Above
    <3> HIDE DEF Above
    <3> QED
      BY <1>2, <1>3
  <2>2. Pow2[b - 1] \in Nat
    BY <2>1, Pow2Positive
  <2> QED
    BY <2>1, <2>2
<1>5. Band(v) \in 1 .. Width /\ Pow2[Band(v) - 1] <= v /\ v < Pow2[Band(v)]
  BY <1>2, <1>3, <1>4 DEF Band
<1>6. Pow2[Band(v)] = 2 * Pow2[Band(v) - 1]
  BY <1>5, Pow2Defined
<1> QED
  BY <1>5, <1>6, Shape

LEMMA PartBounds ==
  ASSUME NEW base \in Nat \ {0}, NEW v \in Nat, base <= v, v < 2 * base
  PROVE  /\ Part(v, base) \in 0 .. SUB - 1
         /\ base * Part(v, base) <= (v - base) * SUB
         /\ (v - base) * SUB < base * Part(v, base) + base
<1> DEFINE a == (v - base) * SUB
           s == Part(v, base)
<1>1. a \in Nat /\ a < base * SUB
  <2>1. v - base \in Nat /\ v - base < base /\ SUB \in Nat \ {0}
    BY Shape
  <2>2. \A x, y \in Nat, z \in Nat \ {0} : x < y => x * z \in Nat /\ x * z < y * z
    OBVIOUS
  <2> QED
    BY <2>1, <2>2
<1>2. s = a \div base
  BY DEF Part
<1> HIDE DEF a, s
<1>3. s \in Nat /\ base * s <= a /\ a < base * s + base
  BY <1>1, <1>2
<1>4. s < SUB
  <2>1. base * s < base * SUB
    BY <1>1, <1>3, Shape
  <2>2. \A x, y, z \in Nat : z * x < z * y => x < y
    OBVIOUS
  <2> QED
    BY <1>3, <2>1, <2>2, Shape
<1> QED
  BY <1>3, <1>4, Shape DEF a, s

LEMMA IndexOf ==
  ASSUME NEW v \in Nat \ {0}, v < Pow2[Width]
  PROVE  Index(v) = (Band(v) - 1) * SUB + Part(v, Pow2[Band(v) - 1])
<1> DEFINE base == Pow2[Band(v) - 1]
<1>1. base \in Nat \ {0} /\ base <= v /\ v < 2 * base
  BY BandOf, Pow2Positive
<1>2. Part(v, base) \in 0 .. SUB - 1
  BY <1>1, PartBounds
<1>3. Min({Part(v, base), SUB - 1}) = Part(v, base)
  BY <1>2, MinOfTwo, Shape
<1> QED
  BY <1>3 DEF Index, Part

LEMMA IndexTyped == \A v \in Nat : v < Pow2[Width] => Index(v) \in Nat
<1> SUFFICES ASSUME NEW v \in Nat, v < Pow2[Width]  PROVE Index(v) \in Nat
  OBVIOUS
<1>1. CASE v = 0
  BY <1>1 DEF Index
<1>2. CASE v # 0
  <2>1. Band(v) - 1 \in Nat /\ Pow2[Band(v) - 1] <= v /\ v < 2 * Pow2[Band(v) - 1]
    BY <1>2, BandOf
  <2>2. Part(v, Pow2[Band(v) - 1]) \in Nat
    BY <2>1, PartBounds, Pow2Positive
  <2>3. \A x, y \in Nat : x * SUB + y \in Nat
    BY Shape
  <2> QED
    BY <1>2, <2>1, <2>2, <2>3, IndexOf
<1> QED
  BY <1>1, <1>2

\* A larger value is never in a lower bucket.
LEMMA IndexMonotone ==
  ASSUME NEW v \in Nat, NEW w \in Nat, v <= w, w < Pow2[Width]
  PROVE  Index(v) <= Index(w)
<1>1. CASE v = 0
  BY <1>1, IndexTyped DEF Index
<1>2. CASE v # 0
  <2>1. v \in Nat \ {0} /\ w \in Nat \ {0} /\ v < Pow2[Width] /\ Pow2[Width] \in Nat
    BY <1>2, Shape
  <2> DEFINE b == Band(v) - 1
             c == Band(w) - 1
             p == Pow2[b]
             q == Pow2[c]
  <2>2. /\ b \in Nat /\ p \in Nat \ {0} /\ p <= v /\ v < 2 * p
        /\ c \in Nat /\ q \in Nat \ {0} /\ q <= w /\ w < 2 * q
    BY <2>1, BandOf, Pow2Positive
  <2>3. Index(v) = b * SUB + Part(v, p) /\ Index(w) = c * SUB + Part(w, q)
    BY <2>1, IndexOf
  <2>4. b <= c
    <3>1. c < b => 2 * q <= p
      BY <2>2, Pow2Grows
    <3> HIDE DEF b, c, p, q
    <3> QED
      BY <2>2, <3>1
  <2> HIDE DEF b, c
  <2>5. Part(v, p) \in 0 .. SUB - 1 /\ Part(w, q) \in 0 .. SUB - 1
    BY <2>2, PartBounds
  <2>6. CASE b < c
    <3>1. PICK d \in Nat : c = b + 1 + d
      <4>1. c - (b + 1) \in Nat /\ c = b + 1 + (c - (b + 1))
        BY <2>2, <2>6
      <4> QED
        BY <4>1
    <3>2. c * SUB = b * SUB + SUB + d * SUB /\ d * SUB \in Nat /\ b * SUB \in Nat
      BY <2>2, <3>1, Shape
    <3> QED
      BY <2>3, <2>5, <3>2, Shape
  <2>7. CASE b = c
    <3>1. Part(v, p) <= Part(w, p)
      <4>1. /\ p * Part(v, p) <= (v - p) * SUB
            /\ (w - p) * SUB < p * Part(w, p) + p
        BY <2>2, <2>7, PartBounds
      <4>2. (v - p) * SUB <= (w - p) * SUB
        <5>1. v - p \in Nat /\ w - p \in Nat /\ v - p <= w - p
          BY <2>2, <2>7
        <5>2. \A x, y, z \in Nat : x <= y => x * z <= y * z
          OBVIOUS
        <5> QED
          BY <5>1, <5>2, Shape
      <4>3. Part(v, p) \in Nat /\ Part(w, p) \in Nat
        BY <2>5, <2>7
      <4>4. p * Part(v, p) < p * (Part(w, p) + 1)
        <5>1. \A x, y \in Nat : x * y + x = x * (y + 1) /\ x * y \in Nat
          OBVIOUS
        <5>2. (v - p) * SUB \in Int /\ (w - p) * SUB \in Int
          BY <2>2, Shape
        <5> QED
          BY <2>2, <4>1, <4>2, <4>3, <5>1, <5>2
      <4>5. \A x, y, z \in Nat : z * x < z * y => x < y
        OBVIOUS
      <4>6. Part(v, p) < Part(w, p) + 1
        BY <2>2, <4>3, <4>4, <4>5
      <4> QED
        BY <4>3, <4>6
    <3>2. \A x, y, z \in Nat : x <= y => z * SUB + x <= z * SUB + y
      BY Shape
    <3> QED
      BY <2>2, <2>3, <2>5, <2>7, <3>1, <3>2
  <2> QED
    BY <2>2, <2>4, <2>6, <2>7
<1> QED
  BY <1>1, <1>2

\* The lower edge of a value's bucket: not above the value, and close to it.
LEMMA LowerEdge ==
  ASSUME NEW v \in Nat, Fits(v)
  PROVE  LET lower == BucketLower(Index(v))
         IN  /\ lower \in Nat /\ lower <= v
             /\ v > 1 => (v - lower) * SUB < v
<1>0. PICK s \in Nat : SUB = Pow2[s]
  BY Shape
<1>1. /\ SUB \in Nat \ {0} /\ Pow2[Width] \in Nat
      /\ v < Pow2[Width] /\ v * SUB < 2 * Pow2[Width]
  BY Shape DEF Fits
<1>2. CASE v = 0
  BY <1>2 DEF Index, BucketLower
<1> DEFINE b == Band(v) - 1
           base == Pow2[b]
           p == Part(v, base)
<1>3. ASSUME v # 0
      PROVE  /\ b \in Nat /\ base \in Nat \ {0} /\ base <= v /\ v < 2 * base
             /\ p \in 0 .. SUB - 1 /\ Index(v) = b * SUB + p
             /\ base * p <= (v - base) * SUB /\ (v - base) * SUB < base * p + base
  <2>1. b \in Nat /\ base \in Nat \ {0} /\ base <= v /\ v < 2 * base
    BY <1>1, <1>3, BandOf, Pow2Positive
  <2> QED
    BY <1>1, <1>3, <2>1, PartBounds, IndexOf
<1> HIDE DEF b
<1>4. CASE v = 1
  <2>1. base = 1 /\ b = 0
    <3>1. b > 0 => 2 * Pow2[0] <= Pow2[b]
      BY <1>3, <1>4, Pow2Grows
    <3> QED
      BY <1>3, <1>4, <3>1, Pow2Defined
  <2>2. p = 0
    BY <1>1, <2>1, <1>4 DEF Part
  <2> HIDE DEF p
  <2>3. Index(v) = 0
    BY <1>1, <1>3, <1>4, <2>1, <2>2
  <2> QED
    BY <1>4, <2>3 DEF BucketLower
<1>5. CASE v > 1
  <2> HIDE DEF p
  <2>1. b \in Nat \ {0}
    BY <1>3, <1>5, Pow2Defined
  <2> HIDE DEF base
  <2>2. Index(v) # 0 /\ Index(v) \div SUB = b /\ Index(v) % SUB = p
    <3>1. \A x, y \in Nat, z \in Nat \ {0} :
             y < z => (x * z + y) \div z = x /\ (x * z + y) % z = y
      OBVIOUS
    <3>2. \A x \in Nat \ {0}, z \in Nat \ {0}, y \in Nat : x * z + y # 0
      OBVIOUS
    <3>3. p \in Nat /\ p < SUB /\ Index(v) = b * SUB + p
      BY <1>1, <1>3, <1>5
    <3>4. (b * SUB + p) \div SUB = b /\ (b * SUB + p) % SUB = p /\ b * SUB + p # 0
      <4>1. b \in Nat /\ b \in Nat \ {0} /\ p \in Nat /\ SUB \in Nat \ {0}
        BY <1>1, <2>1, <3>3
      <4>2. /\ p < SUB => (b * SUB + p) \div SUB = b /\ (b * SUB + p) % SUB = p
            /\ b * SUB + p # 0
        BY <3>1, <3>2, <4>1, Zenon
      <4> QED
        BY <3>3, <4>2, Zenon
    <3> QED
      BY <3>3, <3>4
  <2>3. p * base \in Nat /\ p * base = base * p /\ p * base < Pow2[Width]
    <3>1. p * base \in Nat /\ p * base = base * p
      BY <1>3, <1>5
    <3>2. base * SUB <= v * SUB /\ v * SUB \in Nat /\ base * SUB \in Nat
      <4>1. \A x, y, z \in Nat : x <= y => x * z <= y * z /\ x * z \in Nat /\ y * z \in Nat
        OBVIOUS
      <4> QED
        BY <1>1, <1>3, <1>5, <4>1
    <3>3. base * SUB <= Pow2[Width]
      <4>1. base * SUB = Pow2[b + s] /\ b + s \in Nat /\ Width \in Nat
        <5>1. Pow2[b + s] = Pow2[b] * Pow2[s] /\ b + s \in Nat
          BY <2>1, Pow2Sum
        <5> QED
          BY <1>0, <5>1, Shape DEF base
      <4>2. ~(Width < b + s)
        BY <1>1, <3>2, <4>1, Pow2Grows
      <4>3. b + s < Width => 2 * Pow2[b + s] <= Pow2[Width]
        BY <4>1, Pow2Grows
      <4> QED
        BY <1>1, <3>2, <4>1, <4>2, <4>3
    <3>4. p * base < base * SUB
      <4>1. \A x, y \in Nat, z \in Nat \ {0} : x < y => x * z < z * y
        OBVIOUS
      <4>2. p \in Nat /\ p < SUB
        BY <1>1, <1>3, <1>5
      <4> QED
        BY <1>1, <1>3, <1>5, <4>1, <4>2
    <3> QED
      BY <1>1, <3>1, <3>2, <3>3, <3>4
  <2>4. (p * base) % Pow2[Width] = p * base
    <3>1. \A x, y \in Nat : x < y => x % y = x
      OBVIOUS
    <3> QED
      BY <1>1, <2>3, <3>1
  <2>5. BucketLower(Index(v)) = base + (p * base) \div SUB
    BY <2>2, <2>4 DEF BucketLower, base
  <2>6. CASE b >= s
    <3>1. PICK e \in Nat \ {0} : base = SUB * e
      <4>1. b - s \in Nat /\ b = s + (b - s)
        BY <2>1, <2>6
      <4>2. Pow2[b] = Pow2[s] * Pow2[b - s]
        BY <4>1, Pow2Sum
      <4> QED
        BY <1>0, <4>1, <4>2, Pow2Positive DEF base
    <3>2. p * base = SUB * (p * e) /\ p * e \in Nat
      BY <1>1, <1>3, <1>5, <3>1
    <3>3. (p * base) \div SUB = p * e
      BY <1>1, <3>2
    <3>4. p * e <= v - base /\ v - base < p * e + e
      <4>1. SUB * (p * e) <= SUB * (v - base) /\ SUB * (v - base) < SUB * (p * e + e)
        <5>1. SUB * (p * e + e) = base * p + base /\ SUB * (v - base) = (v - base) * SUB
          BY <1>1, <1>3, <1>5, <2>3, <3>1, <3>2
        <5> QED
          BY <1>3, <1>5, <2>3, <3>2, <5>1
      <4>2. \A x, y \in Nat, z \in Nat \ {0} :
               (z * x <= z * y => x <= y) /\ (z * x < z * y => x < y)
        OBVIOUS
      <4>3. v - base \in Nat /\ p * e \in Nat /\ p * e + e \in Nat
        BY <1>3, <1>5, <3>1, <3>2
      <4> QED
        BY <1>1, <4>1, <4>2, <4>3
    <3> DEFINE lower == base + p * e
    <3>5. lower \in Nat /\ lower <= v /\ v - lower \in Nat /\ v - lower < e
      BY <1>3, <1>5, <3>1, <3>2, <3>4
    <3>6. (v - lower) * SUB < e * SUB
      <4>1. \A x, y \in Nat, z \in Nat \ {0} : x < y => x * z < y * z
        OBVIOUS
      <4> HIDE DEF lower
      <4> QED
        BY <1>1, <3>1, <3>5, <4>1
    <3>7. e * SUB = base /\ (v - lower) * SUB \in Int
      BY <1>1, <3>1, <3>5
    <3>8. BucketLower(Index(v)) = lower
      BY <2>5, <3>3
    <3> HIDE DEF lower
    <3> QED
      BY <1>3, <1>5, <3>5, <3>6, <3>7, <3>8
  <2>7. CASE b < s
    <3>1. PICK e \in Nat \ {0} : SUB = base * e
      <4>1. s - b \in Nat /\ s = b + (s - b)
        BY <2>1, <2>7
      <4>2. Pow2[s] = Pow2[b] * Pow2[s - b]
        BY <2>1, <4>1, Pow2Sum
      <4> QED
        BY <1>0, <4>1, <4>2, Pow2Positive DEF base
    <3>2. v - base \in Nat /\ (v - base) * e \in Nat
      BY <1>3, <1>5, <3>1
    <3>3. p = (v - base) * e
      <4>1. (v - base) * SUB = base * ((v - base) * e)
        BY <1>3, <1>5, <3>1, <3>2
      <4>2. (base * ((v - base) * e)) \div base = (v - base) * e
        BY <1>3, <1>5, <3>2
      <4> QED
        BY <4>1, <4>2 DEF p, Part
    <3>4. p * base = SUB * (v - base)
      BY <1>3, <1>5, <3>1, <3>2, <3>3
    <3>5. (p * base) \div SUB = v - base
      BY <1>1, <3>2, <3>4
    <3>6. BucketLower(Index(v)) = v
      BY <1>3, <1>5, <2>5, <3>2, <3>5
    <3> QED
      BY <1>1, <1>5, <3>6
  <2> QED
    BY <2>1, <2>6, <2>7
<1> QED
  BY <1>2, <1>4, <1>5

-----------------------------------------------------------------------------
(* What a histogram has recorded.                                          *)

\* The sizes of the classes of a finite set add up.
LEMMA ClassesAddUp ==
  ASSUME NEW U, IsFiniteSet(U), NEW g, NEW h, NEW T, IsFiniteSet(T),
         \A t \in T : h[t] = Cardinality({u \in U : g[u] = t})
  PROVE  SumFunctionOnSet(h, T) = Cardinality({u \in U : g[u] \in T})
<1> DEFINE In(R) == {u \in U : g[u] \in R}
           Bad == {b \in Nat : \E R \in SUBSET T :
                      Cardinality(R) = b /\ SumFunctionOnSet(h, R) # Cardinality(In(R))}
<1>1. \A R \in SUBSET T : /\ IsFiniteSet(R) /\ Cardinality(R) \in Nat
                         /\ IsFiniteSet(In(R)) /\ Cardinality(In(R)) \in Nat
  <2> SUFFICES ASSUME NEW R \in SUBSET T
               PROVE  /\ IsFiniteSet(R) /\ Cardinality(R) \in Nat
                      /\ IsFiniteSet(In(R)) /\ Cardinality(In(R)) \in Nat
    OBVIOUS
  <2>1. In(R) \in SUBSET U
    OBVIOUS
  <2> HIDE DEF In
  <2> QED
    BY <2>1, FS_Subset, FS_CardinalityType
<1>2. \A t \in T : h[t] \in Nat
  <2> SUFFICES ASSUME NEW t \in T PROVE h[t] \in Nat
    OBVIOUS
  <2>1. {u \in U : g[u] = t} \in SUBSET U
    OBVIOUS
  <2> QED
    BY <2>1, FS_Subset, FS_CardinalityType
<1>3. Bad = {}
  <2> SUFFICES ASSUME Bad # {}  PROVE FALSE
    OBVIOUS
  <2>1. PICK b \in Bad : \A c \in Bad : b <= c
    <3>1. Bad \in SUBSET Nat
      OBVIOUS
    <3> HIDE DEF Bad
    <3> QED
      BY <3>1, LeastPosition
  <2>2. PICK R \in SUBSET T :
           Cardinality(R) = b /\ SumFunctionOnSet(h, R) # Cardinality(In(R))
    OBVIOUS
  <2>3. R # {}
    <3>1. In({}) = {}
      OBVIOUS
    <3> HIDE DEF In
    <3> QED
      BY <2>2, <3>1, SumEmpty, FS_EmptySet
  <2>4. PICK x : x \in R
    BY <2>3
  <2>5. R \ {x} \in SUBSET T /\ Cardinality(R \ {x}) = b - 1 /\ b \in Nat \ {0}
    BY <1>1, <2>2, <2>4, OneLess
  <2>6. b - 1 \in Nat /\ b - 1 \notin Bad
    <3>1. b - 1 \in Nat /\ ~(b <= b - 1)
      BY <2>5
    <3> HIDE DEF Bad
    <3> QED
      BY <2>1, <3>1
  <2>7. SumFunctionOnSet(h, R \ {x}) = Cardinality(In(R \ {x}))
    <3> HIDE DEF In
    <3> QED
      BY <2>5, <2>6
  <2>8. SumFunctionOnSet(h, R) = h[x] + SumFunctionOnSet(h, R \ {x})
    BY <1>2, <2>4, SumTakeOut
  <2> DEFINE Of == {u \in U : g[u] = x}
  <2>9. /\ In(R) = Of \cup In(R \ {x}) /\ Of \cap In(R \ {x}) = {}
        /\ h[x] = Cardinality(Of) /\ Of \in SUBSET U
    BY <2>4
  <2>10. IsFiniteSet(Of) /\ IsFiniteSet(In(R \ {x}))
    <3> HIDE DEF In, Of
    <3> QED
      BY <1>1, <2>5, <2>9, FS_Subset
  <2> HIDE DEF In, Of
  <2>11. Cardinality(In(R)) = Cardinality(Of) + Cardinality(In(R \ {x}))
    <3>1. Cardinality(Of) \in Nat /\ Cardinality(In(R \ {x})) \in Nat
      BY <2>10, FS_CardinalityType
    <3>2. Cardinality(Of \cup In(R \ {x}))
             = Cardinality(Of) + Cardinality(In(R \ {x}))
               - Cardinality(Of \cap In(R \ {x}))
      BY <2>10, FS_Union
    <3>3. Cardinality(Of \cap In(R \ {x})) = 0
      BY <2>9, FS_EmptySet
    <3>4. Cardinality(In(R)) = Cardinality(Of \cup In(R \ {x}))
      BY <2>9
    <3> QED
      BY <3>1, <3>2, <3>3, <3>4
  <2> QED
    BY <2>2, <2>7, <2>8, <2>9, <2>11
<1>4. T \in SUBSET T
  OBVIOUS
<1>5. SumFunctionOnSet(h, T) = Cardinality(In(T))
  <2> HIDE DEF In
  <2> QED
    BY <1>1, <1>3, <1>4
<1> QED
  BY <1>5

\* A histogram h records the values of a bag, a function whose values count.
Records(h, bag) ==
    /\ IsFiniteSet(DOMAIN bag)
    /\ \A k \in DOMAIN bag : bag[k] \in Nat /\ Fits(bag[k])
    /\ h.count = Cardinality(DOMAIN bag)
    /\ DOMAIN h.buckets = {Index(bag[k]) : k \in DOMAIN bag}
    /\ \A i \in DOMAIN h.buckets :
          h.buckets[i] = Cardinality({k \in DOMAIN bag : Index(bag[k]) = i})
    /\ h.min \in Nat /\ h.max \in Nat
    /\ \A k \in DOMAIN bag : h.min <= bag[k] /\ bag[k] <= h.max
    /\ IF DOMAIN bag = {} THEN h.min = Pow2[Width] - 1 /\ h.max = 0
       ELSE \E j, k \in DOMAIN bag : bag[j] = h.min /\ bag[k] = h.max

LEMMA EmptyRecords == \A bag : DOMAIN bag = {} => Records(Empty, bag)
<1> SUFFICES ASSUME NEW bag, DOMAIN bag = {}  PROVE Records(Empty, bag)
  OBVIOUS
<1>1. Pow2[Width] - 1 \in Nat
  BY Shape
<1>2. DOMAIN << >> = {}
  OBVIOUS
<1> QED
  BY <1>1, <1>2, FS_EmptySet DEF Records, Empty

LEMMA RecordsOneMore ==
  ASSUME NEW h, NEW bag, Records(h, bag), NEW more, NEW x, x \notin DOMAIN bag,
         DOMAIN more = DOMAIN bag \cup {x}, \A k \in DOMAIN bag : more[k] = bag[k],
         more[x] \in Nat, Fits(more[x])
  PROVE  Records(RecordGap(h, more[x]), more)
<1> DEFINE v == more[x]
           g == RecordGap(h, v)
           Class(i) == {k \in DOMAIN bag : Index(bag[k]) = i}
           Class2(i) == {k \in DOMAIN more : Index(more[k]) = i}
<1>1. IsFiniteSet(DOMAIN more) /\ Cardinality(DOMAIN more) = Cardinality(DOMAIN bag) + 1
  BY FS_AddElement DEF Records
<1>2. \A k \in DOMAIN more : more[k] \in Nat /\ Fits(more[k])
  BY DEF Records
<1>3. g.count = Cardinality(DOMAIN more)
  BY <1>1 DEF RecordGap, Records
<1>4. DOMAIN g.buckets = {Index(more[k]) : k \in DOMAIN more}
  <2>1. DOMAIN g.buckets = DOMAIN h.buckets \cup {Index(v)}
    BY DEF RecordGap
  <2>2. DOMAIN h.buckets = {Index(bag[k]) : k \in DOMAIN bag}
    BY DEF Records
  <2> HIDE DEF g
  <2> QED
    BY <2>1, <2>2
<1>5. ASSUME NEW i \in DOMAIN g.buckets  PROVE g.buckets[i] = Cardinality(Class2(i))
  <2>1. g.buckets[i] = (IF i \in DOMAIN h.buckets THEN h.buckets[i] ELSE 0)
                       + (IF i = Index(v) THEN 1 ELSE 0)
    BY <1>5 DEF RecordGap, Bucket
  <2>2. i \in DOMAIN h.buckets => h.buckets[i] = Cardinality(Class(i))
    BY DEF Records
  <2>3. i \notin DOMAIN h.buckets => Class(i) = {}
    BY DEF Records
  <2>4. IsFiniteSet(Class(i)) /\ Cardinality(Class(i)) \in Nat /\ x \notin Class(i)
    <3>1. Class(i) \in SUBSET DOMAIN bag /\ IsFiniteSet(DOMAIN bag)
      BY DEF Records
    <3> QED
      BY <3>1, FS_Subset, FS_CardinalityType
  <2>5. Class2(i) = IF i = Index(v) THEN Class(i) \cup {x} ELSE Class(i)
    OBVIOUS
  <2> HIDE DEF Class, Class2, g, v
  <2>6. CASE i = Index(v)
    <3>1. Cardinality(Class2(i)) = Cardinality(Class(i)) + 1
      BY <2>4, <2>5, <2>6, FS_AddElement
    <3> QED
      BY <2>1, <2>2, <2>3, <2>4, <2>6, <3>1, FS_EmptySet
  <2>7. CASE i # Index(v)
    BY <2>1, <2>2, <2>3, <2>4, <2>5, <2>7, FS_EmptySet
  <2> QED
    BY <2>6, <2>7
<1>6. h.min \in Nat /\ h.max \in Nat /\ v \in Nat
  BY DEF Records
<1>7. /\ g.min = IF h.min <= v THEN h.min ELSE v
      /\ g.max = IF h.max <= v THEN v ELSE h.max
  BY <1>6, MinOfTwo, MaxOfTwo DEF RecordGap
<1>8. /\ g.min \in Nat /\ g.max \in Nat
      /\ \A k \in DOMAIN more : g.min <= more[k] /\ more[k] <= g.max
  <2>1. \A k \in DOMAIN bag : h.min <= bag[k] /\ bag[k] <= h.max /\ bag[k] \in Nat
    BY DEF Records
  <2> HIDE DEF g
  <2> QED
    BY <1>6, <1>7, <2>1
<1>9. \E j, k \in DOMAIN more : more[j] = g.min /\ more[k] = g.max
  <2>1. CASE DOMAIN bag = {}
    <3>1. h.min = Pow2[Width] - 1 /\ h.max = 0 /\ Pow2[Width] \in Nat
      BY <2>1, Shape DEF Records
    <3>2. g.min = v /\ g.max = v
      <4>1. v < Pow2[Width]
        BY DEF Fits
      <4> HIDE DEF g
      <4> QED
        BY <1>6, <1>7, <3>1, <4>1
    <3> QED
      BY <3>2
  <2>2. CASE DOMAIN bag # {}
    <3>1. PICK j, k \in DOMAIN bag : bag[j] = h.min /\ bag[k] = h.max
      BY <2>2 DEF Records
    <3>2. PICK m \in {j, x} : more[m] = g.min
      <4> HIDE DEF g
      <4> QED
        BY <1>7, <3>1
    <3>3. PICK n \in {k, x} : more[n] = g.max
      <4> HIDE DEF g
      <4> QED
        BY <1>7, <3>1
    <3> QED
      BY <3>1, <3>2, <3>3
  <2> QED
    BY <2>1, <2>2
<1> HIDE DEF g, v
<1>10. DOMAIN more # {}
  OBVIOUS
<1> QED
  BY <1>1, <1>2, <1>3, <1>4, <1>5, <1>8, <1>9, <1>10 DEF Records, g, v

LEMMA RecordsExtremes ==
  ASSUME NEW h, NEW bag, Records(h, bag), h.count > 0
  PROVE  /\ DOMAIN bag # {}
         /\ h.min = Min({bag[k] : k \in DOMAIN bag})
         /\ h.max = Max({bag[k] : k \in DOMAIN bag})
<1>1. DOMAIN bag # {}
  BY FS_EmptySet DEF Records
<1>2. PICK j, k \in DOMAIN bag : bag[j] = h.min /\ bag[k] = h.max
  BY <1>1 DEF Records
<1> DEFINE S == {bag[i] : i \in DOMAIN bag}
<1>3. S \in SUBSET Int /\ h.min \in S /\ h.max \in S
  BY <1>2 DEF Records
<1>4. \A y \in S : h.min <= y /\ y <= h.max
  BY DEF Records
<1> HIDE DEF S
<1>5. Min(S) = h.min /\ Max(S) = h.max
  BY <1>3, <1>4, MinIs, MaxIs
<1> QED
  BY <1>1, <1>5 DEF S

\* The walk over the buckets counts the values below the end of a bucket.
LEMMA UpToCounts ==
  ASSUME NEW h, NEW bag, Records(h, bag), NEW i \in Nat
  PROVE  UpTo(h, i) = Cardinality({k \in DOMAIN bag : Index(bag[k]) <= i})
<1> DEFINE T == {j \in DOMAIN h.buckets : j <= i}
           g == [k \in DOMAIN bag |-> Index(bag[k])]
<1>1. DOMAIN h.buckets \subseteq Nat
  BY IndexTyped DEF Records, Fits
<1>2. T \in SUBSET (0 .. i)
  BY <1>1
<1>3. IsFiniteSet(T)
  <2>1. IsFiniteSet(0 .. i)
    BY FS_Interval
  <2> HIDE DEF T
  <2> QED
    BY <1>2, <2>1, FS_Subset
<1>4. \A t \in T : h.buckets[t] = Cardinality({k \in DOMAIN bag : g[k] = t})
  <2> SUFFICES ASSUME NEW t \in T
               PROVE  h.buckets[t] = Cardinality({k \in DOMAIN bag : g[k] = t})
    OBVIOUS
  <2>1. h.buckets[t] = Cardinality({k \in DOMAIN bag : Index(bag[k]) = t})
    BY DEF Records
  <2>2. {k \in DOMAIN bag : g[k] = t} = {k \in DOMAIN bag : Index(bag[k]) = t}
    OBVIOUS
  <2> QED
    BY <2>1, <2>2
<1>5. {k \in DOMAIN bag : g[k] \in T} = {k \in DOMAIN bag : Index(bag[k]) <= i}
  BY DEF Records
<1>6. IsFiniteSet(DOMAIN bag)
  BY DEF Records
<1>7. SumFunctionOnSet(h.buckets, T) = Cardinality({k \in DOMAIN bag : g[k] \in T})
  <2> HIDE DEF T, g
  <2> QED
    BY <1>3, <1>4, <1>6, ClassesAddUp
<1> QED
  BY <1>5, <1>7 DEF UpTo

LEMMA RankWithin ==
  ASSUME NEW h, h.count \in Nat \ {0}, NEW num \in Nat \ {0}, NEW den \in Nat \ {0}
  PROVE  Rank(h, num, den) \in 1 .. h.count
<1> DEFINE raw == (num * h.count + den - 1) \div den
<1>1. raw \in Nat
  <2>1. num * h.count + den - 1 \in Nat
    <3>1. num * h.count \in Nat
      OBVIOUS
    <3> QED
      BY <3>1
  <2> QED
    BY <2>1
<1> HIDE DEF raw
<1>2. Max({1, raw}) \in Nat \ {0}
  BY <1>1, MaxOfTwo
<1>3. Min({Max({1, raw}), h.count}) \in 1 .. h.count
  BY <1>2, MinOfTwo
<1> QED
  BY <1>3 DEF Rank, raw

\* The least value with enough values not above it is in the first bucket with
\* enough values up to its end.
LEMMA RankInBucket ==
  ASSUME NEW h, NEW bag, Records(h, bag), NEW r \in 1 .. h.count,
         h.count \in Nat \ {0}
  PROVE  LET reached == {i \in DOMAIN h.buckets : UpTo(h, i) >= r}
         IN  /\ \E k \in DOMAIN bag : bag[k] = Exact(bag, r)
             /\ Min(reached) = Index(Exact(bag, r))
<1> DEFINE D == DOMAIN bag
           upTo(i) == {k \in D : Index(bag[k]) <= i}
           notAbove(v) == {k \in D : bag[k] <= v}
           reached == {i \in DOMAIN h.buckets : UpTo(h, i) >= r}
           enough == {k \in D : Cardinality(notAbove(bag[k])) >= r}
           values == {bag[k] : k \in enough}
           top == Pow2[Width] - 1
<1>1. /\ IsFiniteSet(D) /\ h.count = Cardinality(D)
      /\ \A k \in D : bag[k] \in Nat /\ bag[k] < Pow2[Width] /\ Index(bag[k]) \in Nat
      /\ DOMAIN h.buckets = {Index(bag[k]) : k \in D}
  BY IndexTyped DEF Records, Fits
<1>2. Pow2[Width] \in Nat /\ top \in Nat
  BY Shape
<1>3. D # {}
  BY <1>1, FS_EmptySet
<1>4. \A S \in SUBSET D : IsFiniteSet(S) /\ Cardinality(S) \in Nat
  BY <1>1, FS_Subset, FS_CardinalityType
<1>5. \A A, B \in SUBSET D : A \subseteq B => Cardinality(A) <= Cardinality(B)
  BY <1>4, FS_Subset
<1>6. \A i \in DOMAIN h.buckets : UpTo(h, i) = Cardinality(upTo(i)) /\ i \in Nat
  <2>1. \A i \in DOMAIN h.buckets : i \in Nat
    BY <1>1
  <2> QED
    BY <2>1, UpToCounts
<1>7. \A j, k \in D : bag[j] <= bag[k] => Index(bag[j]) <= Index(bag[k])
  BY <1>1, IndexMonotone
<1> HIDE DEF D
\* A non-empty set of the bag has a greatest value.
<1>8. \A S \in SUBSET D : S # {} => \E k \in S : \A j \in S : bag[j] <= bag[k]
  <2> SUFFICES ASSUME NEW S \in SUBSET D, S # {}
               PROVE  \E k \in S : \A j \in S : bag[j] <= bag[k]
    OBVIOUS
  <2> DEFINE V == {bag[k] : k \in S}
  <2>1. V \in SUBSET (0 .. top) /\ V # {}
    <3>1. \A k \in S : bag[k] \in 0 .. top
      BY <1>1, <1>2
    <3> HIDE DEF top
    <3> QED
      BY <3>1
  <2>2. Max(V) \in V /\ \A y \in V : y <= Max(V)
    <3> HIDE DEF V, top
    <3> QED
      BY <1>2, <2>1, GreatestOf
  <2> QED
    BY <2>2
<1>9. values # {} /\ values \in SUBSET Nat
  <2>1. PICK k \in D : \A j \in D : bag[j] <= bag[k]
    BY <1>3, <1>8
  <2>2. notAbove(bag[k]) = D
    BY <2>1
  <2>3. k \in enough
    <3> HIDE DEF notAbove
    <3> QED
      BY <1>1, <2>2 
  <2> QED
    BY <1>1, <2>3
<1>10. Exact(bag, r) = Min(values)
  BY DEF Exact, D
<1> DEFINE x == Min(values)
<1>11. x \in values /\ \A y \in values : x <= y
  <2> HIDE DEF values
  <2> QED
    BY <1>9, LeastOf
<1> HIDE DEF x
<1>12. PICK k \in D : bag[k] = x /\ Cardinality(notAbove(x)) >= r
  BY <1>11
<1>13. Index(x) \in reached
  <2>1. Index(x) \in DOMAIN h.buckets
    BY <1>1, <1>12
  <2>2. notAbove(x) \subseteq upTo(Index(x))
    BY <1>7, <1>12
  <2>3. Cardinality(notAbove(x)) <= Cardinality(upTo(Index(x)))
    <3>1. notAbove(x) \in SUBSET D /\ upTo(Index(x)) \in SUBSET D
      OBVIOUS
    <3> HIDE DEF notAbove, upTo
    <3> QED
      BY <1>5, <2>2, <3>1
  <2>4. /\ Cardinality(notAbove(x)) \in Nat /\ Cardinality(upTo(Index(x))) \in Nat
    <3>1. notAbove(x) \in SUBSET D /\ upTo(Index(x)) \in SUBSET D
      OBVIOUS
    <3> HIDE DEF notAbove, upTo
    <3> QED
      BY <1>4, <3>1
  <2> HIDE DEF notAbove, upTo
  <2> QED
    BY <1>6, <1>12, <2>1, <2>3, <2>4
<1>14. ASSUME NEW i \in reached  PROVE Index(x) <= i
  <2>1. /\ i \in DOMAIN h.buckets /\ i \in Nat /\ Cardinality(upTo(i)) >= r
        /\ upTo(i) \in SUBSET D
    BY <1>6
  <2>2. upTo(i) # {}
    <3> HIDE DEF upTo
    <3> QED
      BY <2>1, FS_EmptySet
  <2>3. PICK j \in upTo(i) : \A m \in upTo(i) : bag[m] <= bag[j]
    <3> HIDE DEF upTo
    <3> QED
      BY <1>8, <2>1, <2>2
  <2>4. j \in D /\ Index(bag[j]) <= i /\ upTo(i) \subseteq notAbove(bag[j])
    BY <2>3
  <2>5. j \in enough
    <3>1. notAbove(bag[j]) \in SUBSET D
      OBVIOUS
    <3> HIDE DEF notAbove, upTo
    <3>2. Cardinality(upTo(i)) <= Cardinality(notAbove(bag[j]))
      BY <1>5, <2>1, <2>4, <3>1
    <3>3. Cardinality(upTo(i)) \in Nat /\ Cardinality(notAbove(bag[j])) \in Nat
      BY <1>4, <2>1, <3>1
    <3> QED
      BY <2>1, <2>4, <3>2, <3>3
  <2>6. x <= bag[j]
    BY <1>11, <2>5
  <2>7. Index(x) <= Index(bag[j])
    BY <1>7, <1>12, <2>4, <2>6
  <2>8. Index(x) \in Nat /\ Index(bag[j]) \in Nat
    BY <1>1, <1>12, <2>4
  <2> QED
    BY <2>1, <2>4, <2>7, <2>8
<1>15. Min(reached) = Index(x)
  <2>1. reached \in SUBSET Int
    <3>1. \A i \in reached : i \in DOMAIN h.buckets
      OBVIOUS
    <3>2. \A i \in DOMAIN h.buckets : i \in Nat
      BY <1>6
    <3> HIDE DEF reached
    <3> QED
      BY <3>1, <3>2
  <2>2. PICK b : b = Index(x)
    OBVIOUS
  <2>3. b \in reached /\ \A i \in reached : b <= i
    BY <1>13, <1>14, <2>2, Zenon
  <2> HIDE DEF reached
  <2>4. Min(reached) = b
    BY <2>1, <2>3, MinIs
  <2> QED
    BY <2>2, <2>4
<1> QED
  BY <1>10, <1>12, <1>15 DEF D, x

\* The estimate of a quantile against the exact one.
LEMMA QuantileNear ==
  ASSUME NEW h, NEW bag, Records(h, bag), h.count > 0,
         NEW num \in Nat \ {0}, NEW den \in Nat \ {0}
  PROVE  LET x   == Exact(bag, Rank(h, num, den))
             est == Quantile(h, num, den)
         IN  est <= x /\ (x > 1 => (x - est) * SUB < x)
<1>1. h.count \in Nat \ {0}
  BY FS_CardinalityType DEF Records
<1>2. PICK r \in 1 .. h.count : r = Rank(h, num, den)
  BY <1>1, RankWithin
<1>3. PICK x : x = Exact(bag, r)
  OBVIOUS
<1> DEFINE reached == {i \in DOMAIN h.buckets : UpTo(h, i) >= r}
<1>4. (\E k \in DOMAIN bag : bag[k] = x) /\ Min(reached) = Index(x)
  BY <1>1, <1>3, RankInBucket
<1>5. PICK k \in DOMAIN bag : bag[k] = x
  BY <1>4
<1>6. /\ x \in Nat /\ h.min \in Nat /\ h.max \in Nat /\ h.min <= x /\ x <= h.max
      /\ Fits(x)
  BY <1>5 DEF Records
<1>7. PICK lower : lower = BucketLower(Index(x))
  OBVIOUS
<1>8. lower \in Nat /\ lower <= x /\ (x > 1 => (x - lower) * SUB < x)
  BY <1>6, <1>7, LowerEdge
<1>9. Quantile(h, num, den) = Clamp(lower, h.min, h.max)
  BY <1>1, <1>2, <1>4, <1>7 DEF Quantile
<1>10. PICK est : est = IF h.min <= lower THEN lower ELSE h.min
  OBVIOUS
<1>11. est \in Nat /\ est <= x /\ lower <= est
  BY <1>6, <1>8, <1>10
<1>12. Clamp(lower, h.min, h.max) = est
  <2>1. Max({lower, h.min}) = est
    BY <1>6, <1>8, <1>10, MaxOfTwo
  <2>2. Min({est, h.max}) = est
    BY <1>6, <1>11, MinOfTwo
  <2> QED
    BY <2>1, <2>2 DEF Clamp
<1>13. (x - est) * SUB <= (x - lower) * SUB
  <2>1. x - est \in Nat /\ x - lower \in Nat /\ x - est <= x - lower
    BY <1>6, <1>8, <1>11
  <2>2. \A a, b, c \in Nat : a <= b => a * c <= b * c
    OBVIOUS
  <2> QED
    BY <2>1, <2>2, Shape
<1>14. (x - est) * SUB \in Int /\ (x - lower) * SUB \in Int
  BY <1>6, <1>8, <1>11, Shape
<1>15. x > 1 => (x - est) * SUB < x
  BY <1>6, <1>8, <1>13, <1>14
<1> QED
  BY <1>2, <1>3, <1>9, <1>11, <1>12, <1>15

-----------------------------------------------------------------------------
(* Discovery: the inter-arrival times of a stream.                         *)

Stamp(i) == capture.frames[i].ts

\* A stream has a frame, remembers the stamp of its last one, and its histogram
\* has recorded the gaps between its frames.
GapsInv ==
    \A key \in DOMAIN streams :
        /\ FramesOf(key) # {}
        /\ streams[key].last = Stamp(Max(FramesOf(key)))
        /\ Records(streams[key].gaps, GapsOf(key))

LEMMA StampsFit ==
  ASSUME ReaderInv, NEW i \in DOMAIN capture.frames
  PROVE  Stamp(i) \in Nat /\ Fits(Stamp(i))
  BY CapturesAssumption DEF ReaderInv, Stamp

\* What is no larger than a value that fits does too.
LEMMA SmallerFits ==
  ASSUME NEW v \in Nat, NEW w \in Nat, w <= v, Fits(v)
  PROVE  Fits(w)
<1>1. \A x, y \in Nat, z \in Nat \ {0} :
         x <= y => x * z <= y * z /\ x * z \in Nat /\ y * z \in Nat
  OBVIOUS
<1>2. w * SUB <= v * SUB /\ w * SUB \in Nat /\ v * SUB \in Nat
  BY <1>1, Shape
<1> QED
  BY <1>2, Shape DEF Fits

LEMMA GapBounds ==
  ASSUME NEW prev \in Nat, NEW ts \in Nat
  PROVE  Gap(prev, ts) \in Nat /\ Gap(prev, ts) <= ts
  BY DEF Gap

LEMMA FramesInOrder ==
  ASSUME ReaderInv, NEW key
  PROVE  /\ FramesOf(key) \in SUBSET (0 .. next - 1) /\ next - 1 \in Nat
         /\ FramesOf(key) \subseteq DOMAIN capture.frames
  BY DEF FramesOf, Taken, ReaderInv

LEMMA GapsInvInit == TriageInit => GapsInv
  BY DEF TriageInit, DiscoveryInit, GapsInv

\* A stream without a new frame.
LEMMA SameGaps ==
  ASSUME NEW key, capture' = capture, FramesOf(key)' = FramesOf(key)
  PROVE  /\ GapsOf(key)' = GapsOf(key)
         /\ Stamp(Max(FramesOf(key)))' = Stamp(Max(FramesOf(key)))
  BY DEF GapsOf, GapAt, Stamp

\* The stream of a new frame.
LEMMA OneMoreGap ==
  ASSUME TriageInv, GapsInv, ReaderInv', NEW key,
         NEW n, n = next, next' = next + 1, capture' = capture,
         FramesOf(key)' = FramesOf(key) \cup {n},
         NEW profile, profile.last = Stamp(n),
         profile.gaps = Timed(ProfileOf(key), Stamp(n)).gaps
  PROVE  /\ profile.last = Stamp(Max(FramesOf(key)))'
         /\ Records(profile.gaps, GapsOf(key)')
<1> DEFINE F == FramesOf(key)
<1>1. n \in Nat \ {0} /\ F \in SUBSET (0 .. n - 1) /\ F \subseteq DOMAIN capture.frames
  BY FramesInOrder DEF TriageInv, ReaderInv
<1>2. n \in DOMAIN capture.frames
  <2>1. n \in 1 .. next' - 1
    BY <1>1
  <2> QED
    BY <2>1 DEF ReaderInv, Taken
<1>3. PICK frames : frames = F \cup {n}
  OBVIOUS
<1>4. Max(frames) = n
  BY <1>1, <1>3, MaxIs
<1>5. profile.last = Stamp(Max(FramesOf(key)))'
  <2>1. FramesOf(key)' = frames
    BY <1>3
  <2>2. Stamp(Max(FramesOf(key)))' = Stamp(n)
    BY <1>4, <2>1 DEF Stamp
  <2> QED
    BY <2>2
<1>6. PICK bag, more : bag = GapsOf(key) /\ more = GapsOf(key)'
  OBVIOUS
<1> DEFINE before(S, i) == {j \in S : j < i}
<1>7. /\ bag = [i \in {i \in F : \E j \in F : j < i} |->
                   Gap(Stamp(Max(before(F, i))), Stamp(i))]
      /\ more = [i \in {i \in frames : \E j \in frames : j < i} |->
                   Gap(Stamp(Max(before(frames, i))), Stamp(i))]
  BY <1>3, <1>6 DEF GapsOf, GapAt, Stamp
<1>8. ASSUME F = {}  PROVE Records(profile.gaps, more)
  <2>1. DOMAIN more = {}
    BY <1>1, <1>3, <1>7, <1>8
  <2>2. key \notin DOMAIN streams
    BY <1>8 DEF GapsInv
  <2>3. profile.gaps = Empty
    BY <2>2 DEF Timed, ProfileOf, NewProfile
  <2> QED
    BY <2>1, <2>3, EmptyRecords
<1>9. ASSUME F # {}  PROVE Records(profile.gaps, more)
  <2>1. key \in DOMAIN streams
    BY <1>9 DEF FramesOf, TriageInv, GroupedInv
  <2>2. PICK h : h = streams[key].gaps /\ Records(h, bag)
    BY <1>6, <2>1 DEF GapsInv
  <2>3. Max(F) \in F
    <3>1. n - 1 \in Nat
      BY <1>1
    <3> HIDE DEF F
    <3> QED
      BY <1>1, <1>9, <3>1, GreatestOf
  <2>4. Stamp(Max(F)) \in Nat
    BY <1>1, <2>3, StampsFit DEF TriageInv
  <2>5. profile.gaps = RecordGap(h, Gap(Stamp(Max(F)), Stamp(n)))
    <3>1. ProfileOf(key) = streams[key] /\ streams[key].last = Stamp(Max(F))
      BY <2>1 DEF ProfileOf, GapsInv
    <3>2. DOMAIN streams[key] = {"last", "gaps", "first", "mask"}
      BY <2>1 DEF TriageInv, GroupedInv
    <3>3. streams[key].last # None
      BY <2>4, <3>1, NoValueAssumption
    <3> QED
      BY <2>2, <3>1, <3>2, <3>3 DEF Timed
  <2> HIDE DEF F
  <2>6. \A i \in F : before(frames, i) = before(F, i) /\ i < n
    BY <1>1, <1>3
  <2>7. before(frames, n) = F
    BY <1>1, <1>3
  <2>8. \A i \in F : (\E j \in frames : j < i) <=> (\E j \in F : j < i)
    BY <2>6
  <2>9. \E j \in frames : j < n
    BY <1>9, <2>7
  <2>10. DOMAIN more = DOMAIN bag \cup {n} /\ n \notin DOMAIN bag
    <3>1. DOMAIN bag = {i \in F : \E j \in F : j < i}
      BY <1>7
    <3>2. DOMAIN more = {i \in frames : \E j \in frames : j < i}
      BY <1>7
    <3>3. n \notin F
      BY <1>1, <2>6
    <3> HIDE DEF before
    <3> QED
      BY <1>3, <2>8, <2>9, <3>1, <3>2, <3>3
  <2>11. \A i \in DOMAIN bag : more[i] = bag[i]
    <3> SUFFICES ASSUME NEW i \in DOMAIN bag  PROVE more[i] = bag[i]
      OBVIOUS
    <3>1. i \in F /\ i \in DOMAIN more
      BY <1>7, <2>10
    <3>2. before(frames, i) = before(F, i)
      BY <2>6, <3>1
    <3> HIDE DEF before
    <3> QED
      BY <1>7, <3>1, <3>2
  <2>12. more[n] = Gap(Stamp(Max(F)), Stamp(n))
    <3>1. n \in DOMAIN more
      BY <2>10
    <3> HIDE DEF before
    <3> QED
      BY <1>7, <2>7, <3>1
  <2>13. more[n] \in Nat /\ Fits(more[n])
    <3>1. Stamp(n) \in Nat /\ Fits(Stamp(n))
      BY <1>2, StampsFit DEF TriageInv
    <3>2. PICK g \in Nat : g = Gap(Stamp(Max(F)), Stamp(n)) /\ g <= Stamp(n)
      BY <2>4, <3>1, GapBounds
    <3> QED
      BY <2>12, <3>1, <3>2, SmallerFits
  <2> QED
    BY <2>2, <2>5, <2>10, <2>11, <2>12, <2>13, RecordsOneMore
<1> QED
  BY <1>5, <1>6, <1>8, <1>9

LEMMA TakeFrameGaps ==
  ASSUME TriageInv, GapsInv, TakeFrame  PROVE GapsInv'
<1>1. PICK n, f, ts : /\ n = next /\ f = capture.frames[n].frame
                      /\ ts = capture.frames[n].ts
  OBVIOUS
<1>2. /\ next' = next + 1 /\ capture' = capture /\ Discover(ts, f)
      /\ f = FrameAt(n) /\ ts = Stamp(n) /\ ReaderInv /\ ReaderInv'
  BY <1>1, TakeFrameKeeps DEF TakeFrame, TriageInv, FrameAt, Stamp
<1>3. \A key : FramesOf(key)' =
         FramesOf(key) \cup
             {i \in {n} : ParsedAt(i).ok /\ StreamKey(FrameAt(i), Proto(i)) = key}
  BY <1>1, <1>2, FramesOfGrows
<1>4. ASSUME NEW k \in DOMAIN streams, streams'[k] = streams[k],
             FramesOf(k)' = FramesOf(k)
      PROVE  /\ FramesOf(k)' # {}
             /\ streams'[k].last = Stamp(Max(FramesOf(k)))'
             /\ Records(streams'[k].gaps, GapsOf(k)')
  BY <1>2, <1>4, SameGaps DEF GapsInv
<1>5. CASE ~Parse(f).ok
  <2>1. streams' = streams
    BY <1>2, <1>5 DEF Discover, ObserveUnclassified
  <2>2. \A key : FramesOf(key)' = FramesOf(key)
    BY <1>2, <1>3, <1>5 DEF ParsedAt
  <2> QED
    BY <1>4, <2>1, <2>2 DEF GapsInv, Records
<1>6. CASE Parse(f).ok
  <2>1. PICK proto, key, io : /\ proto = Parse(f).proto /\ key = StreamKey(f, proto)
                              /\ io = IoPayload(f)
    OBVIOUS
  <2>2. PICK timed : timed = Timed(ProfileOf(key), ts)
    OBVIOUS
  <2>3. PICK profile :
           /\ profile = IF proto.kind = "profinet" THEN Touched(timed, io) ELSE timed
           /\ streams' = [k \in DOMAIN streams \cup {key} |->
                             IF k = key THEN profile ELSE streams[k]]
    BY <1>2, <1>6, <2>1, <2>2 DEF Discover, Observe
  <2>4. profile.last = Stamp(n) /\ profile.gaps = timed.gaps
    <3>1. DOMAIN ProfileOf(key) = {"last", "gaps", "first", "mask"}
      BY DEF ProfileOf, NewProfile, TriageInv, GroupedInv
    <3>2. DOMAIN timed = {"last", "gaps", "first", "mask"} /\ timed.last = ts
      BY <2>2, <3>1 DEF Timed
    <3>3. Touched(timed, io).last = timed.last /\ Touched(timed, io).gaps = timed.gaps
      BY <3>2 DEF Touched
    <3> QED
      BY <1>2, <2>3, <3>2, <3>3
  <2>5. FramesOf(key)' = FramesOf(key) \cup {n}
    BY <1>2, <1>3, <1>6, <2>1 DEF Proto, ParsedAt
  <2>6. /\ profile.last = Stamp(Max(FramesOf(key)))'
        /\ Records(profile.gaps, GapsOf(key)')
    BY <1>1, <1>2, <2>2, <2>4, <2>5, OneMoreGap
  <2>7. ASSUME NEW k \in DOMAIN streams'
        PROVE  /\ FramesOf(k)' # {}
               /\ streams'[k].last = Stamp(Max(FramesOf(k)))'
               /\ Records(streams'[k].gaps, GapsOf(k)')
    <3>1. CASE k = key
      <4>1. streams'[k] = profile
        BY <2>3, <3>1
      <4> QED
        BY <2>5, <2>6, <3>1, <4>1
    <3>2. CASE k # key
      <4>1. k \in DOMAIN streams /\ streams'[k] = streams[k]
        BY <2>3, <2>7, <3>2
      <4>2. FramesOf(k)' = FramesOf(k)
        BY <1>2, <1>3, <2>1, <3>2 DEF Proto, ParsedAt
      <4> QED
        BY <1>4, <4>1, <4>2
    <3> QED
      BY <3>1, <3>2
  <2> QED
    BY <2>7 DEF GapsInv, Records
<1> QED
  BY <1>5, <1>6

LEMMA GapsInvStep ==
  ASSUME TriageInv, GapsInv, [TriageNext]_triageVars  PROVE GapsInv'
<1>1. CASE TakeFrame
  BY <1>1, TakeFrameGaps
<1>2. CASE RejectFormat \/ Conclude \/ UNCHANGED triageVars
  <2>1. capture' = capture /\ next' = next /\ streams' = streams
    BY <1>2 DEF RejectFormat, Conclude, triageVars, discoveryVars
  <2>2. \A key : FramesOf(key)' = FramesOf(key)
    BY <2>1 DEF FramesOf, Taken, ParsedAt, Proto, FrameAt
  <2>3. \A key : /\ GapsOf(key)' = GapsOf(key)
                 /\ Stamp(Max(FramesOf(key)))' = Stamp(Max(FramesOf(key)))
    BY <2>1, <2>2, SameGaps
  <2> QED
    BY <2>1, <2>2, <2>3 DEF GapsInv, Records, Fits
<1> QED
  BY <1>1, <1>2 DEF TriageNext

\* Count, minimum and maximum are exact; the estimate of a quantile never exceeds
\* the exact one and falls short of it by less than one part in SUB.
THEOREM TriageQuantileBrackets == TriageSpec => []QuantileBrackets
<1>1. TriageInit => TriageInv /\ GapsInv
  BY TriageInvInit, GapsInvInit
<1>2. TriageInv /\ GapsInv /\ [TriageNext]_triageVars => (TriageInv /\ GapsInv)'
  BY TriageInvStep, GapsInvStep
<1>3. TriageInv /\ GapsInv => QuantileBrackets
  <2> SUFFICES ASSUME TriageInv, GapsInv, NEW key \in DOMAIN streams
               PROVE  LET gaps == GapsOf(key)
                          h    == streams[key].gaps
                      IN  /\ h.count = Cardinality(DOMAIN gaps)
                          /\ h.count > 0 =>
                                /\ h.min = Min({gaps[i] : i \in DOMAIN gaps})
                                /\ h.max = Max({gaps[i] : i \in DOMAIN gaps})
                                /\ \A q \in Quantiles :
                                      LET x   == Exact(gaps, Rank(h, q[1], q[2]))
                                          est == Quantile(h, q[1], q[2])
                                      IN  est <= x /\ (x > 1 => (x - est) * SUB < x)
    BY DEF QuantileBrackets
  <2>1. PICK h, gaps : h = streams[key].gaps /\ gaps = GapsOf(key)
    OBVIOUS
  <2>2. Records(h, gaps)
    BY <2>1 DEF GapsInv
  <2>4. \A q \in Quantiles : q[1] \in Nat \ {0} /\ q[2] \in Nat \ {0}
    BY DEF Quantiles
  <2>5. ASSUME h.count > 0
        PROVE  \A q \in Quantiles :
                  LET x   == Exact(gaps, Rank(h, q[1], q[2]))
                      est == Quantile(h, q[1], q[2])
                  IN  est <= x /\ (x > 1 => (x - est) * SUB < x)
    BY <2>2, <2>4, <2>5, QuantileNear
  <2>6. h.count = Cardinality(DOMAIN gaps)
    BY <2>2 DEF Records
  <2> QED
    BY <2>1, <2>2, <2>5, <2>6, RecordsExtremes
<1> QED
  BY <1>1, <1>2, <1>3, PTL DEF TriageSpec
=============================================================================
