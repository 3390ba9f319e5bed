--------------------------- MODULE AttributionRun ---------------------------
(***************************************************************************)
(* The harness's attribution loop, `run' on the demo cell and              *)
(* `run-manifest' on any built manifest: a frame is parsed (ParseFrame),   *)
(* observed (CausalEngine), and when observe returns a trip the evidence   *)
(* record is built (CausalTrace::build) and put in an InMemorySink under   *)
(* (trip_ts, trace_id).                                                    *)
(*                                                                         *)
(* A trace id is the appliance, the trip's stamp and the trip's sequence   *)
(* number; its place in the byte order is taken for the latter (there are  *)
(* fewer than ten transitions).  `run' keeps an event log of its own that  *)
(* becomes the record's event window; `run-manifest' puts only the trip    *)
(* there.                                                                  *)
(***************************************************************************)
EXTENDS CausalEngine, ParseFrame

CONSTANTS Frames,          \* the frames a capture may hold
          MaxFrames,       \* bound on the frames explored
          AmrBudget,       \* demo_manifest's budgets: 3 ms and 4 ms
          FanucBudget,
          ResponseBudget   \* the configured response budget: 50 ms

ASSUME FramesAssumption ==
    \A f \in Frames : Parse(f).ok => Parse(f).proto \in Payload

VARIABLES command,     \* "run" or "run-manifest"
          turn,        \* "reading", "analysing" (inside observe and the put),
                       \* "done", "failed" (put returned an error)
          current,     \* the decoded frame of the turn
          tally,       \* the counters of the summary
          event_log,   \* run's log of the frames it has observed
          rows, answer \* the sink

runVars == <<command, turn, current, tally, event_log, rows, answer>>
allVars == <<vars, runVars>>

\* Row and Instant are of no use here: the rows are those the loop builds.
Sink == INSTANCE InMemorySink WITH Row <- {}, Instant <- {}

N_AMR    == 1
N_FANUC  == 2
N_PLC    == 3
AMR_PORT == 7400

DemoManifest ==
    [nodes |-> [n \in {N_AMR, N_FANUC, N_PLC} |->
                   CASE n = N_AMR   -> [kind |-> "ros2", topic_port |-> AMR_PORT]
                     [] n = N_FANUC -> [kind |-> "fanuc"]
                     [] n = N_PLC   -> [kind |-> "profinet", frame_id |-> 2,
                                        bit_index |-> 0]],
     edges |-> <<[from |-> N_AMR, to |-> N_FANUC, wcet |-> AmrBudget],
                 [from |-> N_FANUC, to |-> N_PLC, wcet |-> FanucBudget]>>,
     trip_node |-> N_PLC]

-----------------------------------------------------------------------------
(* The harness's own log.                                                  *)

Event(s, n, ts, level) == [seq |-> s, node |-> n, ts |-> ts, interlock |-> level]

\* push_event: the node is derived again from the protocol, with the demo cell's
\* constants, and the log counts on its own.
PushEvent(log, p, ts) ==
    IF p.kind = "profinet" /\ p.frame_id = 2
    THEN Append(log, Event(Len(log), N_PLC, ts,
                           IF 0 \in p.status THEN "high" ELSE "low"))
    ELSE IF p.kind = "ros2" /\ p.topic_port = AMR_PORT
    THEN Append(log, Event(Len(log), N_AMR, ts, "none"))
    ELSE IF p.kind = "fanuc"
    THEN Append(log, Event(Len(log), N_FANUC, ts, "none"))
    ELSE log

\* Mutant: only the trip node's samples are logged.
LoggedPlcOnly(p, ts) ==
    IF command = "run" /\ p.kind = "profinet" THEN PushEvent(event_log, p, ts)
    ELSE event_log

Logged(p, ts) ==
    IF command = "run" THEN PushEvent(event_log, p, ts) ELSE event_log

-----------------------------------------------------------------------------
(* The evidence record.                                                    *)

TraceCatalyst(c) ==
    [edge_from |-> c.edge.from, edge_to |-> c.edge.to, dt |-> c.dt,
     wcet |-> c.edge.wcet, trigger_seq |-> c.trigger.seq,
     effect_seq |-> c.effect.seq]

WithOffset(e) == [event |-> e, offset |-> e.ts - trip.ts]

\* The log so far and the trip (trip_event_to_trace), relative to the trip.
EventSequence ==
    LET events == Append(event_log,
                         Event(trip.seq, trip.node, trip.ts, trip.interlock))
    IN  [i \in DOMAIN events |-> WithOffset(events[i])]

\* Mutant: the interval of the root's edge alone.
ResponseOfEffect ==
    IF ranked = << >> THEN 0 ELSE trip.ts - ranked[1].effect.ts

\* From the root catalyst's trigger to the trip, saturating.
ObservedResponse ==
    IF ranked = << >> \/ trip.ts < ranked[1].trigger.ts THEN 0
    ELSE trip.ts - ranked[1].trigger.ts

\* CausalTrace::build.
Trace ==
    [trip_ts |-> trip.ts,
     ranked_catalysts |-> [i \in DOMAIN ranked |-> TraceCatalyst(ranked[i])],
     event_sequence |-> EventSequence,
     observed_response |-> ObservedResponse,
     response_within_budget |-> /\ ObservedResponse <= ResponseBudget
                                /\ ranked # << >>,
     finding |-> IF ranked # << >> THEN "AttributableNuisanceTrip"
                 ELSE "UnattributedTrip"]

\* TraceRow::from_trace.
TraceRow(trace, id) ==
    [ts |-> trace.trip_ts, id |-> id,
     attributed |-> trace.finding = "AttributableNuisanceTrip",
     evidence |-> trace]

-----------------------------------------------------------------------------
(* The loop.                                                               *)

Bump(fields) == [k \in DOMAIN tally |-> tally[k] + (IF k \in fields THEN 1 ELSE 0)]

More == turn = "reading" /\ tally.frames < MaxFrames

\* parse_frame refuses the frame: "count and continue", engine untouched.
DropFrame(f) ==
    /\ More /\ ~Parse(f).ok
    /\ tally' = Bump({"frames", "dropped"})
    /\ UNCHANGED <<vars, command, turn, current, event_log, rows, answer>>

\* observe returns None.
TakeQuiet(f, ts) ==
    /\ More /\ Parse(f).ok
    /\ Ignore(Parse(f).proto) \/ ObserveQuiet(Parse(f).proto, ts)
    /\ event_log' = Logged(Parse(f).proto, ts)
    /\ tally' = Bump({"frames", "parsed"})
    /\ UNCHANGED <<command, turn, current, rows, answer>>

TakeTrip(f, ts) ==
    /\ More /\ Parse(f).ok
    /\ ObserveTrip(Parse(f).proto, ts)
    /\ turn' = "analysing"
    /\ current' = [proto |-> Parse(f).proto, ts |-> ts]
    /\ tally' = Bump({"frames", "parsed", "trips"})
    /\ UNCHANGED <<command, event_log, rows, answer>>

Analyse == /\ turn = "analysing"
           /\ Backtrack
           /\ UNCHANGED runVars

\* Mutant: unattributed trips are not kept.
StoreAttributed ==
    /\ turn = "analysing" /\ phase = "ranked"
    /\ IF ranked # << >> THEN Sink!Put(TraceRow(Trace, trip.seq))
       ELSE UNCHANGED rows /\ answer' = "Ok"
    /\ tally' = Bump(IF ranked # << >> THEN {"attributed"} ELSE {})
    /\ turn' = IF answer' = "Ok" THEN "reading" ELSE "failed"
    /\ event_log' = Logged(current.proto, current.ts)
    /\ UNCHANGED <<vars, command, current>>

\* observe returned an analysis: build the record, put the row, and only then
\* log the frame.  A refused put ends the command.
Store ==
    /\ turn = "analysing" /\ phase = "ranked"
    /\ Sink!Put(TraceRow(Trace, trip.seq))
    /\ tally' = Bump(IF ranked # << >> THEN {"attributed"} ELSE {})
    /\ turn' = IF answer' = "Ok" THEN "reading" ELSE "failed"
    /\ event_log' = Logged(current.proto, current.ts)
    /\ UNCHANGED <<vars, command, current>>

\* The end of the capture, or an error of the reader.
End == /\ turn = "reading"
       /\ turn' = "done"
       /\ UNCHANGED <<vars, command, current, tally, event_log, rows, answer>>

RunInit ==
    /\ Init
    /\ command \in {"run", "run-manifest"}
    /\ command = "run" => manifest = DemoManifest
    /\ turn = "reading"
    /\ current = [proto |-> None, ts |-> 0]
    /\ tally = [frames |-> 0, parsed |-> 0, dropped |-> 0, trips |-> 0,
                attributed |-> 0]
    /\ event_log = << >>
    /\ Sink!Init

RunNext == \/ \E f \in Frames : DropFrame(f)
           \/ \E f \in Frames, ts \in Time : TakeQuiet(f, ts)
           \/ \E f \in Frames, ts \in Time : TakeTrip(f, ts)
           \/ Analyse \/ Store \/ End

\* The loop's body runs to its end; that another frame comes is not assumed.
RunSpec == /\ RunInit /\ [][RunNext]_allVars
           /\ WF_allVars(Analyse) /\ WF_allVars(Store)

-----------------------------------------------------------------------------
(* Properties.                                                             *)

Trips == {k \in DOMAIN pushed :
             FallingEdge(SubSeq(pushed, 1, k), manifest.trip_node)}
Kept  == Sink!Held

\* Between two frames the sink holds exactly one row for every falling edge of
\* the trip node since the start, dropped and untracked frames in between or
\* not; no put is ever refused, and the summary's counters add up.
OneRecordPerTrip ==
    /\ turn # "failed"
    /\ turn \in {"reading", "done"} =>
          /\ DOMAIN rows = {<<pushed[k].ts, pushed[k].seq>> : k \in Trips}
          /\ tally.trips = Cardinality(Trips)
          /\ tally.attributed = Cardinality({r \in Kept : r.attributed})
          /\ tally.frames = tally.parsed + tally.dropped

\* Catalyst c of row r names two transitions of the whole history: recorded no
\* later than the trip, the trigger stamped before the effect and the effect no
\* later than the trip, at the nodes and the distance c states.
NamesRealEvents(r, c) ==
    LET before == pushed[c.trigger_seq + 1]
        after  == pushed[c.effect_seq + 1]
    IN  /\ c.trigger_seq \in 0 .. r.id /\ c.effect_seq \in 0 .. r.id
        /\ before.node = c.edge_from /\ after.node = c.edge_to
        /\ before.ts < after.ts /\ after.ts <= r.ts
        /\ after.ts - before.ts = c.dt

\* What a stored record says of its causes stays true of the history, for both
\* commands.  The record of `run' can moreover be read on its own: its window
\* ends with the trip and holds the trigger and the effect of every catalyst,
\* under the numbers, at the nodes and the distance the catalyst gives.  (The
\* log and the engine number their transitions apart.)
RecordPointsIntoItsWindow ==
    \A r \in Kept :
        LET w == r.evidence.event_sequence
            catalysts == r.evidence.ranked_catalysts
            found(s, n) == {i \in DOMAIN w : w[i].event.seq = s
                                              /\ w[i].event.node = n}
        IN  /\ \A k \in DOMAIN catalysts : NamesRealEvents(r, catalysts[k])
            /\ command = "run" =>
                  /\ w[Len(w)].offset = 0 /\ w[Len(w)].event.seq = r.id
                  /\ \A k \in DOMAIN catalysts :
                        LET c == catalysts[k]
                        IN  \E i \in found(c.trigger_seq, c.edge_from),
                               j \in found(c.effect_seq, c.edge_to) :
                                  w[j].offset - w[i].offset = c.dt

\* An attributed record never understates: the observed response covers the
\* root's whole overrun interval, even with ties and stamps that run backward.
\* (The subtraction saturates at zero, which would read as a response within
\* any budget, were the root's trigger ever stamped after the trip.)
ResponseCoversOverrun ==
    \A r \in Kept :
        LET catalysts == r.evidence.ranked_catalysts
        IN  /\ r.attributed <=> catalysts # << >>
            /\ r.attributed =>
                  /\ r.evidence.observed_response >= catalysts[1].dt
                  /\ catalysts[1].dt > catalysts[1].wcet
            /\ ~r.attributed => ~r.evidence.response_within_budget

\* A trip is analysed, its record stored, and the next frame taken.
EveryTripStored ==
    turn = "analysing" ~> turn = "reading" /\ \E r \in Kept : r.id = trip.seq
=============================================================================
