----------------------------- MODULE LiveDispatch -----------------------------
(***************************************************************************)
(* The single-use live diagnostic: scripts/w6c_dispatch.py (the guarded    *)
(* HTTP transport and its journal) driven by execute() of w6c_v3.py, the   *)
(* current version. The script may be started again and again, several at  *)
(* once; it may die, its writes may fail, the machine may lose power.      *)
(*                                                                         *)
(* The file system is external: a write is lost by a power failure until   *)
(* fsync of the file, a new name until fsync of the directory holding it.  *)
(* What is sent to the provider is sent for good.                          *)
(***************************************************************************)
EXTENDS Integers, Sequences, FiniteSetsExt, SequencesExt

CONSTANTS Processes,       \* starts of the script by the operator
          N,               \* DispatchGuard.max_calls
          PowerFailures,   \* how often the machine may lose power
          None

Cases == 1 .. N

VARIABLES proc,       \* the processes: execute() and its DispatchGuard
          directory,  \* "none", "new" (its name may be lost), "used" (new, and a start
                      \* other than the one that made it went on in it), "durable"
          journal,    \* None, or the file
          sent,       \* times each question reached the provider
          changed,    \* something the manifest fingerprints has changed
          failures,   \* power failures so far
          lost        \* history: a power failure took a "used" directory and its journal

vars == <<proc, directory, journal, sent, changed, failures, lost>>

\* The journal's records; physical is the number of dispatches a record counts.
Record(event, case, ok, physical) ==
    [event |-> event, case |-> case, ok |-> ok, physical |-> physical]

Event == {"started", "logical_call", "dispatch_reserved", "dispatch_result", "case_result",
          "stopped", "sequence_failed", "sequence_completed", "torn"}
Line == [event : Event, case : Nat, ok : BOOLEAN, physical : Nat]
File == [log : Seq(Line), synced : Nat, named : BOOLEAN]

Setting == N \in Nat /\ PowerFailures \in Nat /\ None \notin File

\* A process: where it is, the record being written and where that leads, and
\* the fields of its guard. One retry above the boundary is allowed per run.
Ended == {"done", "failed", "refused", "dead"}
Idle == [pc |-> "off", io |-> "none", rec |-> None, then |-> None, logical |-> 0,
         physical |-> 0, active |-> 0, dispatched |-> FALSE, stopped |-> FALSE,
         ok |-> FALSE, repeated |-> FALSE]

\* What no power failure can take away any more: the lines forced to the disk
\* of a file whose name is, in a directory whose name is.
Durable == IF journal = None \/ directory # "durable" THEN {}
           ELSE IF ~journal.named THEN {}
           ELSE ToSet(SubSeq(journal.log, 1, journal.synced))

\* The machine never ran the script, or has the directory from an earlier day.
Init ==
    /\ proc = [p \in Processes |-> Idle]
    /\ directory \in {"none", "durable"}
    /\ journal = None
    /\ sent = [c \in Cases |-> 0]
    /\ changed = FALSE
    /\ failures = 0
    /\ lost = FALSE

-----------------------------------------------------------------------------
(* Writing the journal: os.write and os.fsync may each fail                *)

\* The state of p about to write record r in step pc, going on to `then`.
Writing(q, pc, r, then) == [q EXCEPT !.pc = pc, !.io = "write", !.rec = r, !.then = then]

\* Mutant: the record is not forced to the disk.
_write_unsynced(p) ==
    /\ proc[p].io = "write"
    /\ journal' = [journal EXCEPT !.log = Append(@, proc[p].rec)]
    /\ proc' = [proc EXCEPT ![p].io = "none", ![p].pc = proc[p].then]
    /\ UNCHANGED <<directory, sent, changed, failures, lost>>

_write(p) ==
    /\ proc[p].io = "write"
    /\ journal' = [journal EXCEPT !.log = Append(@, proc[p].rec)]
    /\ proc' = [proc EXCEPT ![p].io = "sync"]
    /\ UNCHANGED <<directory, sent, changed, failures, lost>>

_write_fsync(p) ==
    /\ proc[p].io = "sync"
    /\ journal' = [journal EXCEPT !.synced = Len(journal.log)]
    /\ proc' = [proc EXCEPT ![p].io = "none", ![p].pc = proc[p].then]
    /\ UNCHANGED <<directory, sent, changed, failures, lost>>

\* Where a failed write leaves the guard. The reservation's failure still has
\* its dispatch_result written; a start that fails is outside execute's try.
AfterFailedWrite(q) ==
    CASE q.pc = "starting"  -> [q EXCEPT !.io = "none", !.pc = "refused"]
      [] q.pc = "failing"   -> [q EXCEPT !.io = "none", !.pc = "failed"]
      [] q.pc = "reserving" ->
            Writing([q EXCEPT !.stopped = TRUE, !.ok = FALSE], "result",
                    Record("dispatch_result", q.active, FALSE, q.physical), "raised")
      [] q.pc = "result"    -> [q EXCEPT !.io = "none", !.stopped = TRUE, !.pc = "raised"]
      [] q.pc = "refusing"  -> [q EXCEPT !.io = "none", !.pc = q.then]
      [] OTHER              -> [q EXCEPT !.io = "none", !.stopped = TRUE, !.pc = "error"]

\* A short write leaves an unreadable line behind.
_write_fails(p) ==
    /\ proc[p].io \in {"write", "sync"}
    /\ \/ journal' = journal
       \/ /\ proc[p].io = "write"
          /\ journal' = [journal EXCEPT !.log = Append(@, Record("torn", 0, FALSE, 0))]
    /\ proc' = [proc EXCEPT ![p] = AfterFailedWrite(proc[p])]
    /\ UNCHANGED <<directory, sent, changed, failures, lost>>

-----------------------------------------------------------------------------
(* Starting                                                                *)

\* prepare() computes the manifest again: source, settings, frozen inputs, data,
\* policies and every case's request body.
PreparedAsManifest == ~changed

\* the check at the transport boundary, over the same facts
before_dispatch == ~changed

\* execute: the preflight recomputed now is the manifest's, and approved.
Launch(p) ==
    /\ proc[p].pc = "off"
    /\ proc' = [proc EXCEPT ![p].pc = IF PreparedAsManifest THEN "directory" ELSE "refused"]
    /\ UNCHANGED <<directory, journal, sent, changed, failures, lost>>

\* live_journal: only the process that makes the directory forces its name to
\* the disk; one that finds it goes on. (One that finds none and then loses the
\* race for mkdir ends there, as a killed one does.)
MakeDirectory(p) ==
    /\ proc[p].pc = "directory"
    /\ directory' = CASE directory = "none" -> "new"
                      [] directory = "new"  -> "used"
                      [] OTHER              -> directory
    /\ proc' = [proc EXCEPT ![p].pc = IF directory = "none" THEN "fsync" ELSE "open"]
    /\ UNCHANGED <<journal, sent, changed, failures, lost>>

\* Mutant: the parent of a directory just made is not synced.
SyncDirectorySkipped(p, ok) ==
    /\ proc[p].pc = "fsync" /\ ok
    /\ proc' = [proc EXCEPT ![p].pc = "open"]
    /\ UNCHANGED <<directory, journal, sent, changed, failures, lost>>

SyncDirectory(p, ok) ==
    /\ proc[p].pc = "fsync"
    /\ directory' = IF ok THEN "durable" ELSE directory
    /\ proc' = [proc EXCEPT ![p].pc = IF ok THEN "open" ELSE "refused"]
    /\ UNCHANGED <<journal, sent, changed, failures, lost>>

\* DispatchGuard.__init__: os.open with O_CREAT | O_EXCL
Open(p) ==
    /\ proc[p].pc = "open"
    /\ IF journal # None
       THEN proc' = [proc EXCEPT ![p].pc = "refused"] /\ UNCHANGED journal
       ELSE /\ journal' = [log |-> <<>>, synced |-> 0, named |-> FALSE]
            /\ proc' = [proc EXCEPT ![p] = Writing(proc[p], "starting",
                                             Record("started", 0, TRUE, 0), "started")]
    /\ UNCHANGED <<directory, sent, changed, failures, lost>>

\* ... and fsync of journal.parent
SyncName(p, ok) ==
    /\ proc[p].pc = "started"
    /\ journal' = [journal EXCEPT !.named = @ \/ ok]
    /\ proc' = [proc EXCEPT ![p].pc = IF ok THEN "case" ELSE "refused"]
    /\ UNCHANGED <<directory, sent, changed, failures, lost>>

-----------------------------------------------------------------------------
(* The guard                                                               *)

\* DispatchGuard.stop: write, then raise towards `then`
Stop(q, then) ==
    Writing([q EXCEPT !.stopped = TRUE], "refusing", Record("stopped", q.active, FALSE, q.physical), then)

\* The next question: the context is rebuilt and must hash as in the manifest,
\* then DispatchGuard.begin.
BeginCase(p) ==
    LET q == proc[p] IN
    /\ q.pc = "case" /\ q.logical < N
    /\ proc' = [proc EXCEPT ![p] =
           IF changed THEN [q EXCEPT !.pc = "error"]
           ELSE IF q.stopped \/ q.active # 0 THEN Stop(q, "error")
           ELSE Writing([q EXCEPT !.active = q.logical + 1, !.logical = @ + 1, !.dispatched = FALSE],
                        "begun", Record("logical_call", q.logical + 1, TRUE, q.physical), "sdk")]
    /\ UNCHANGED <<directory, journal, sent, changed, failures, lost>>

\* the first test of handle_request
MayDispatch(q) == ~q.stopped /\ q.active # 0 /\ ~q.dispatched /\ q.physical < N

\* DispatchGuard.handle_request up to the reservation. `same`: the request is
\* the approved one. before_dispatch checks the whole manifest once more.
HandleRequest(p, same) ==
    LET q == proc[p] IN
    /\ \/ q.pc = "sdk"
       \/ q.pc \in {"answered", "raised"} /\ ~q.repeated    \* a retry above the boundary
    /\ proc' = [proc EXCEPT ![p] =
           LET r == [q EXCEPT !.repeated = q.pc # "sdk"] IN
           IF ~MayDispatch(q) \/ ~same THEN Stop(r, "raised")
           ELSE IF ~before_dispatch THEN [r EXCEPT !.stopped = TRUE, !.pc = "raised"]
           ELSE Writing([r EXCEPT !.dispatched = TRUE, !.physical = @ + 1], "reserving",
                        Record("dispatch_reserved", q.active, TRUE, q.physical + 1), "reserved")]
    /\ UNCHANGED <<directory, journal, sent, changed, failures, lost>>

\* transport.handle_request: the bytes leave, or the connection fails first.
Send(p) ==
    /\ proc[p].pc = "reserved"
    /\ sent' = [sent EXCEPT ![proc[p].active] = @ + 1]
    /\ proc' = [proc EXCEPT ![p].pc = "waiting"]
    /\ UNCHANGED <<directory, journal, changed, failures, lost>>

\* What handle_request writes when the transport returned or raised; ok is a
\* completed response of the model asked for, with a complete usage.
Answered(q, ok) ==
    Writing([q EXCEPT !.ok = ok, !.stopped = q.stopped \/ ~ok], "result",
            Record("dispatch_result", q.active, ok, q.physical), IF ok THEN "answered" ELSE "raised")

Answer(p, ok) ==
    /\ proc[p].pc = "waiting" \/ (proc[p].pc = "reserved" /\ ~ok)
    /\ proc' = [proc EXCEPT ![p] = Answered(proc[p], ok)]
    /\ UNCHANGED <<directory, journal, sent, changed, failures, lost>>

\* DispatchGuard.finish: the case's evidence, then no active question
Finished(q, valid) ==
    IF q.stopped \/ q.active = 0 \/ ~q.dispatched \/ ~valid THEN Stop(q, "error")
    ELSE Writing(q, "evidence", Record("case_result", q.active, TRUE, q.physical), "finished")

\* generate_plan returned (after the dispatch, or without one when nothing is
\* authorized); plan, SQL and oracle were checked.
Finish(p, valid) ==
    /\ proc[p].pc \in {"sdk", "answered"}
    /\ proc' = [proc EXCEPT ![p] = Finished(proc[p], valid)]
    /\ UNCHANGED <<directory, journal, sent, changed, failures, lost>>

NextCase(p) ==
    /\ proc[p].pc = "finished"
    /\ proc' = [proc EXCEPT ![p].active = 0, ![p].pc = "case"]
    /\ UNCHANGED <<directory, journal, sent, changed, failures, lost>>

\* Mutant: the exception of a failed dispatch is swallowed above the boundary.
RaiseSwallowed(p) ==
    /\ proc[p].pc \in {"sdk", "answered"}
    /\ proc' = [proc EXCEPT ![p].pc = "error"]
    /\ UNCHANGED <<directory, journal, sent, changed, failures, lost>>

\* The SDK, the plan's checks, the oracle or the operator (ctrl-C) raise.
Raise(p) ==
    /\ proc[p].pc \in {"sdk", "answered", "raised"}
    /\ proc' = [proc EXCEPT ![p].pc = "error"]
    /\ UNCHANGED <<directory, journal, sent, changed, failures, lost>>

\* except BaseException of execute
Fail(p) ==
    LET q == proc[p] IN
    /\ q.pc = "error"
    /\ proc' = [proc EXCEPT ![p] = Writing([q EXCEPT !.stopped = TRUE], "failing",
                                      Record("sequence_failed", 0, FALSE, q.physical), "failed")]
    /\ UNCHANGED <<directory, journal, sent, changed, failures, lost>>

\* After the last question
Complete(p) ==
    LET q == proc[p] IN
    /\ q.pc = "case" /\ q.logical = N
    /\ proc' = [proc EXCEPT ![p] =
           IF q.physical # N THEN [q EXCEPT !.pc = "error"]
           ELSE Writing(q, "completing", Record("sequence_completed", 0, TRUE, N), "done")]
    /\ UNCHANGED <<directory, journal, sent, changed, failures, lost>>

-----------------------------------------------------------------------------
(* The world                                                               *)

\* Source, settings, data or policy change under the run.
Drift ==
    /\ ~changed
    /\ changed' = TRUE
    /\ UNCHANGED <<proc, directory, journal, sent, failures, lost>>

\* A process is killed: what it wrote stays in the file.
Crash(p) ==
    /\ proc[p].pc \notin Ended \cup {"off"}
    /\ proc' = [proc EXCEPT ![p].pc = "dead", ![p].io = "none"]
    /\ UNCHANGED <<directory, journal, sent, changed, failures, lost>>

\* What the disk may hold after a power failure: the directory, when its name is
\* not on the disk, goes or stays, and so does a journal in it.
SurvivingDirectories ==
    IF directory \in {"new", "used"} THEN {"none", "durable"} ELSE {directory}

Survivors ==
    IF journal = None THEN {None}
    ELSE {[journal EXCEPT !.log = SubSeq(@, 1, k), !.named = TRUE] : k \in journal.synced .. Len(journal.log)}
         \cup (IF journal.named THEN {} ELSE {None})

PowerFailure ==
    /\ failures < PowerFailures
    /\ failures' = failures + 1
    /\ proc' = [p \in Processes |->
                  IF proc[p].pc \in Ended \cup {"off"} THEN proc[p]
                  ELSE [proc[p] EXCEPT !.pc = "dead", !.io = "none"]]
    /\ directory' \in SurvivingDirectories
    /\ journal' \in (IF directory' = "none" THEN {None} ELSE Survivors)
    /\ lost' = (lost \/ (directory = "used" /\ directory' = "none" /\ journal # None))
    /\ UNCHANGED <<sent, changed>>

Step(p) ==
    \/ _write(p) \/ _write_fsync(p) \/ _write_fails(p)
    \/ MakeDirectory(p) \/ Open(p) \/ BeginCase(p)
    \/ \E ok \in BOOLEAN : SyncDirectory(p, ok) \/ SyncName(p, ok)
    \/ \E same \in BOOLEAN : HandleRequest(p, same)
    \/ Send(p)
    \/ \E ok \in BOOLEAN : Answer(p, ok)
    \/ \E valid \in BOOLEAN : Finish(p, valid)
    \/ NextCase(p) \/ Raise(p) \/ Fail(p) \/ Complete(p)

Next ==
    \/ \E p \in Processes : Launch(p) \/ Step(p) \/ Crash(p)
    \/ Drift
    \/ PowerFailure

Spec == Init /\ [][Next]_vars

-----------------------------------------------------------------------------
(* Properties                                                              *)

\* No question reaches the provider twice ("one dispatch per question ... no
\* retry/resume"), whoever is started, killed or repeated, whatever fails and
\* however often the machine loses power, with one case left out: a power failure
\* took the directory that one start had made and another went on in before its
\* name was on the disk (live_journal does not sync the name of a directory it
\* finds, w6c_v3.py:89), and with it a journal. In that case the code does not
\* keep what w6c_dispatch.py:61 says, that O_EXCL rejects "every restart": with
\* the journal gone, the next start sends its questions again.
OncePerQuestion == lost \/ \A c \in Cases : sent[c] <= 1

\* The journal leads: no crash can make a spent attempt look unspent, because a
\* question that reached the provider has its reservation on the disk - in a
\* file and a directory whose names are there too - and the evidence of all the
\* earlier ones ("A later fatal failure cannot erase earlier non-repeatable
\* work"); and a run that reports success has a good result and the evidence of
\* every question there. Left out: after the loss that OncePerQuestion leaves
\* out, and while it threatens, which is until a "used" directory is synced.
JournalLeads ==
    LET kept(event, c) == \E r \in Durable : r.event = event /\ r.case = c /\ r.ok
    IN  lost \/ directory = "used" \/
        /\ \A c \in Cases : sent[c] > 0 =>
              /\ kept("dispatch_reserved", c)
              /\ \A b \in 1 .. c - 1 : kept("case_result", b)
        /\ \A p \in Processes : proc[p].pc = "done" =>
              \A c \in Cases : /\ sent[c] = 1
                               /\ kept("dispatch_result", c) /\ kept("case_result", c)

\* A started run ends: completed, failed, refused or killed.
EveryRunEnds ==
    \A p \in Processes : proc[p].pc = "directory" ~> proc[p].pc \in Ended
=============================================================================
