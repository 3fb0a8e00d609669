------------------------------- MODULE Archive -------------------------------
(***************************************************************************)
(* The archive tool: the archiver's loop over its subscription, the files  *)
(* it writes and rotates (archiver.rs), the reader (read.rs) and the two   *)
(* programs that read archives back, the replayer and stats.               *)
(*                                                                         *)
(* A file is the sequence of units handed to its writer, of which some     *)
(* have left the encoder and the buffers: one unit for the header, and for *)
(* a record one of length prefix and one of payload.  A unit is its record *)
(* and its place in it.  A crash leaves what is on disk.                   *)
(***************************************************************************)
EXTENDS ArchiveStats

CONSTANTS
  Configs,        \* the settings tried: [network, compressed, filter]; the empty filter takes all
  max_file_size,
  MaxRuns,        \* bound: runs of the archiver
  MaxFaults       \* bound: failing writes, crashes and lost servers

ASSUME ArchiveAssumption ==
  /\ max_file_size \in Nat \ {0}
  /\ \A c \in Configs : c.compressed \in BOOLEAN
  /\ MaxRuns \in Nat /\ MaxFaults \in Nat

VARIABLES
  args,      \* the settings of every run
  at,        \* messages published so far
  sub,       \* messages the subscription holds
  reachable, \* whether NATS answers
  stage,     \* "create", "open", "finalize", "stopped", "failed", "down"
  shutdown, draining,
  files,     \* [units, out, state], in the order they were created
  taken,     \* history: messages of each run the archiver has taken, filtered
  runs, faults

avars == <<args, at, sub, reachable, stage, shutdown, draining, files, taken, runs, faults>>

Header == <<0, 1>>
Units(m) == <<<<m, 1>>, <<m, 2>>>>
Current == Len(files)

----------------------------------------------------------------------------
(* Reading back *)

\* Filter::matches: with no filter everything that decodes, an unset event included.
matches(m) == args.filter = {} \/ Published[m].kind \in args.filter

\* ArchiveReader over what is on disk: the events it yields and how it ends.  A record
\* cut in its payload is an error.  An end of input between records is the end, and so is
\* the one a decoder reports there for a frame that was never finished: with no byte of a
\* length prefix read, UnexpectedEof is taken for the end whatever raised it.
Read(disk) ==
  IF disk = <<>> THEN [events |-> <<>>, end |-> "missing header"]
  ELSE LET body   == Tail(disk)
           whole  == Len(body) \div 2
           intact == \A i \in 1..whole : body[2*i - 1] = <<body[2*i][1], 1>> /\ body[2*i][2] = 2
       IN  IF disk[1] # Header \/ ~intact THEN [events |-> <<>>, end |-> "error"]
           ELSE [events |-> [i \in 1..whole |-> body[2*i][1]],
                 end    |-> IF Len(body) % 2 = 0 THEN "clean" ELSE "error"]

ReadBack(f) == Read(SubSeq(f.units, 1, f.out))

\* replayer: every file, whatever became of the others.
replay(fs) ==
  [events    |-> FlattenSeq([i \in DOMAIN fs |-> ReadBack(fs[i]).events]),
   had_error |-> \E i \in DOMAIN fs : ReadBack(fs[i]).end # "clean"]

\* stats over the files in the order given: one stream, named after the network in the
\* header of the first, which every run writes there from its settings, and no report at
\* all when a file does not read to its end.
StatsOf(fs) ==
  LET r == replay(fs)
  IN  IF r.had_error THEN {}
      ELSE {FoldLeft(observe, [NoStats EXCEPT !.network = args.network], r.events)}

----------------------------------------------------------------------------
(* NATS *)

PublishNext ==
  /\ at < Len(Published)
  /\ at' = at + 1
  /\ sub' = IF stage \in {"create", "open", "finalize"} /\ reachable /\ ~draining
              THEN Append(sub, at') ELSE sub
  /\ UNCHANGED <<reachable, stage, shutdown, draining, files, taken, runs, faults>>

LoseNats ==
  /\ reachable /\ faults < MaxFaults
  /\ reachable' = FALSE /\ faults' = faults + 1
  /\ UNCHANGED <<at, sub, stage, shutdown, draining, files, taken, runs>>

RequestShutdown ==
  /\ ~shutdown /\ stage \in {"create", "open", "finalize"} /\ shutdown' = TRUE
  /\ UNCHANGED <<at, sub, reachable, stage, draining, files, taken, runs, faults>>

----------------------------------------------------------------------------
(* The archiver *)

NewFile == [units |-> <<>>, out |-> 0, state |-> "open"]

\* run up to its loop: subscribed, and the first file about to be created.
StartRun ==
  /\ stage \in {"stopped", "failed", "down"} /\ runs < MaxRuns
  /\ stage' = "create" /\ runs' = runs + 1
  /\ sub' = <<>> /\ shutdown' = FALSE /\ draining' = FALSE /\ reachable' = TRUE
  /\ files' = Append(files, NewFile)
  /\ taken' = Append(taken, <<>>)
  /\ UNCHANGED <<at, faults>>

\* create_new, which never takes a file that is there, then the header, flushed.  A
\* failure anywhere ends the run, with or without the header on disk.
create ==
  /\ \/ /\ stage = "create" /\ stage' = "open" /\ UNCHANGED faults
        /\ files' = [files EXCEPT ![Current].units = <<Header>>, ![Current].out = 1]
     \/ /\ stage = "create" /\ stage' = "failed"
        /\ faults < MaxFaults /\ faults' = faults + 1
        /\ \E n \in 0..1 :
             files' = [files EXCEPT ![Current].units = <<Header>>, ![Current].out = n]
  /\ UNCHANGED <<at, sub, reachable, shutdown, draining, taken, runs>>

\* Encoders and buffers pass units on when they like.
Emit ==
  /\ stage = "open"
  /\ \E n \in files[Current].out + 1..Len(files[Current].units) :
       files' = [files EXCEPT ![Current].out = n]
  /\ UNCHANGED <<at, sub, reachable, stage, shutdown, draining, taken, runs, faults>>

\* The size on disk: what left the encoder of a compressed file, everything handed
\* to the writer of a plain one.
needs_rotation(f) ==
  (IF args.compressed THEN f.out ELSE Len(f.units)) >= max_file_size

rotate(fs) ==
  Append([fs EXCEPT ![Len(fs)].state = "rotated", ![Len(fs)].out = Len(fs[Len(fs)].units)], NewFile)

\* One message of the subscription: skipped, or written whole, and the rotation that
\* may follow.  Compressed data may leave the encoder with the write.
Next1 ==
  /\ stage = "open" /\ sub # <<>>
  /\ sub' = Tail(sub)
  /\ LET m == Head(sub) IN
     IF Published[m].kind = "garbage" \/ ~matches(m)
       THEN UNCHANGED <<stage, files, taken>>
       ELSE LET f == [files[Current] EXCEPT !.units = @ \o Units(m)] IN
            \E n \in f.out..Len(f.units) :
              LET g == [f EXCEPT !.out = n] IN
              /\ taken' = [taken EXCEPT ![runs] = Append(@, m)]
              /\ IF needs_rotation(g)
                   THEN files' = rotate([files EXCEPT ![Current] = g]) /\ stage' = "create"
                   ELSE files' = [files EXCEPT ![Current] = g] /\ stage' = "open"
  /\ UNCHANGED <<at, reachable, shutdown, draining, runs, faults>>

\* finalize fails in a rotation: the record was written, no further file is created and
\* the error ends the run, with any part of the rest of the file on disk.
RotationFails ==
  /\ stage = "open" /\ sub # <<>> /\ faults < MaxFaults
  /\ Published[Head(sub)].kind # "garbage" /\ matches(Head(sub))
  /\ LET f == [files[Current] EXCEPT !.units = @ \o Units(Head(sub))] IN
     \E n \in f.out..Len(f.units) :
       /\ needs_rotation([f EXCEPT !.out = n])
       /\ files' = [files EXCEPT ![Current] = [f EXCEPT !.out = n]]
  /\ taken' = [taken EXCEPT ![runs] = Append(@, Head(sub))]
  /\ sub' = Tail(sub) /\ faults' = faults + 1 /\ stage' = "failed"
  /\ UNCHANGED <<at, reachable, shutdown, draining, runs>>

\* mutant: the archiver carries on past a write error.
WriteFailsAndGoesOn ==
  /\ stage = "open" /\ sub # <<>> /\ faults < MaxFaults
  /\ Published[Head(sub)].kind # "garbage" /\ matches(Head(sub))
  /\ \E k \in 0..1 :
       files' = [files EXCEPT ![Current].units = @ \o SubSeq(Units(Head(sub)), 1, k)]
  /\ sub' = Tail(sub) /\ faults' = faults + 1 /\ stage' = "open"
  /\ UNCHANGED <<at, reachable, shutdown, draining, taken, runs>>

\* write_record fails part way: the loop ends, and the file is closed with whatever of
\* the record the writer has taken.
WriteFails ==
  /\ stage = "open" /\ sub # <<>> /\ faults < MaxFaults
  /\ Published[Head(sub)].kind # "garbage" /\ matches(Head(sub))
  /\ \E k \in 0..1 :
       files' = [files EXCEPT ![Current].units = @ \o SubSeq(Units(Head(sub)), 1, k)]
  /\ sub' = Tail(sub) /\ faults' = faults + 1 /\ stage' = "finalize"
  /\ UNCHANGED <<at, reachable, shutdown, draining, taken, runs>>

\* The shutdown branch: unsubscribe, and from here on only what is in flight.  An
\* unsubscribe that fails ends the loop.
StartDraining ==
  /\ stage = "open" /\ shutdown /\ ~draining
  /\ draining' = TRUE
  /\ stage' = "open" \/ (~reachable /\ stage' = "finalize")
  /\ UNCHANGED <<at, sub, reachable, shutdown, files, taken, runs, faults>>

\* The subscription is over: None, which an unreachable server never gives.
Drained ==
  /\ stage = "open" /\ draining /\ sub = <<>> /\ reachable
  /\ stage' = "finalize"
  /\ UNCHANGED <<at, sub, reachable, shutdown, draining, files, taken, runs, faults>>

\* The subscription ends though nobody asked for it: the client is closed.  The loop ends
\* as after a drain.
SubscriptionEnds ==
  /\ stage = "open" /\ ~draining /\ sub = <<>> /\ faults < MaxFaults
  /\ stage' = "finalize" /\ faults' = faults + 1
  /\ UNCHANGED <<at, sub, reachable, shutdown, draining, files, taken, runs>>

\* mutant: no deadline.
DrainForever ==
  /\ FALSE
  /\ UNCHANGED avars

DrainTimeout ==
  /\ stage = "open" /\ draining
  /\ stage' = "finalize"
  /\ UNCHANGED <<at, sub, reachable, shutdown, draining, files, taken, runs, faults>>

finalize ==
  /\ stage = "finalize"
  /\ \/ /\ stage' = "stopped"
        /\ files' = [files EXCEPT ![Current].state = "final", ![Current].out = Len(files[Current].units)]
     \/ /\ stage' = "failed"
        /\ \E n \in files[Current].out..Len(files[Current].units) :
             files' = [files EXCEPT ![Current].out = n]
  /\ UNCHANGED <<at, sub, reachable, shutdown, draining, taken, runs, faults>>

\* What is in the buffers is lost; the header was flushed when the file was created.
Crash ==
  /\ stage \in {"create", "open", "finalize"} /\ faults < MaxFaults
  /\ stage' = "down" /\ faults' = faults + 1
  /\ \E n \in Min({1, files[Current].out})..files[Current].out :
       files' = [files EXCEPT ![Current].out = n]
  /\ UNCHANGED <<at, sub, reachable, shutdown, draining, taken, runs>>

----------------------------------------------------------------------------

ArchiveInit ==
  /\ args \in Configs
  /\ at = 0 /\ sub = <<>> /\ reachable = TRUE
  /\ stage = "stopped" /\ shutdown = FALSE /\ draining = FALSE
  /\ files = <<>> /\ taken = <<>> /\ runs = 0 /\ faults = 0

Loop == Next1 \/ StartDraining \/ Drained \/ DrainTimeout

ArchiveSteps ==
  \/ PublishNext \/ LoseNats \/ RequestShutdown \/ StartRun \/ create \/ Emit
  \/ Loop \/ SubscriptionEnds \/ WriteFails \/ RotationFails \/ finalize \/ Crash

ArchiveNext == ArchiveSteps /\ UNCHANGED args

\* The runtime runs the loop's ready branches; the deadline is absolute, so it passes.
ArchiveSpec ==
  /\ ArchiveInit /\ [][ArchiveNext]_avars
  /\ WF_avars(create /\ UNCHANGED args)
  /\ WF_avars(Loop /\ UNCHANGED args)
  /\ WF_avars(StartDraining /\ UNCHANGED args)
  /\ WF_avars(DrainTimeout /\ UNCHANGED args)
  /\ WF_avars(finalize /\ UNCHANGED args)

----------------------------------------------------------------------------
(* Properties *)

All(f) == Read(f.units).events

\* ArchiveFile, ArchiveReader and the replayer: the files in order are the filtered
\* stream, each record once and whole in one file, over rotations, failing writes,
\* crashes and further runs.  What a file reads back as is a prefix of what was
\* written to it, never a record that was not, and all of it once it was closed.
ArchiveIsTheStream ==
  /\ FlattenSeq([i \in DOMAIN files |-> All(files[i])]) = FlattenSeq(taken)
  /\ \A i \in DOMAIN files :
       /\ IsPrefix(ReadBack(files[i]).events, All(files[i]))
       /\ files[i].state # "open" => ReadBack(files[i]).events = All(files[i])

\* needs_rotation and rotate: only the last file of a run can be torn or short.  A
\* rotation leaves a file that reads to a clean end and has reached the limit ("a
\* floor on file size"), however late the encoder passes its input on.
RotatedAreWholeAndFull ==
  \A i \in DOMAIN files :
    files[i].state = "rotated" =>
      ReadBack(files[i]).end = "clean" /\ files[i].out >= max_file_size

\* What the archiver leaves behind is the stream: nothing is missing within it, repeated
\* or made up, and only the end of a run can be torn.
ArchiveIsWhole == ArchiveIsTheStream /\ RotatedAreWholeAndFull

\* stats::run reads "in the order given, as one stream", and the files of several runs
\* of the observer interleave: the statistics are the same whatever the order of the files,
\* which are those of one network.
OrderOfFilesIrrelevant ==
  \A p \in Permutations(DOMAIN files) :
    StatsOf([i \in DOMAIN files |-> files[p[i]]]) = StatsOf(files)

\* Stats::report: archives that read to their end have one report, although hosts, user
\* agents and blocks come out of the maps in any order and a table is cut at its top rows.
OneReport == \A s \in StatsOf(files) : Cardinality(report(s)) = 1

\* What is reported of archives depends on the events in them and on nothing else.
StatsOfEventsAlone == OrderOfFilesIrrelevant /\ OneReport

\* DRAIN_TIMEOUT: a requested shutdown ends the run, though NATS be unreachable and
\* the unsubscribe never answered.
ShutdownEnds == shutdown ~> (stage \in {"stopped", "failed", "down"})
=============================================================================
