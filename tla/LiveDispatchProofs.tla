-------------------------- MODULE LiveDispatchProofs --------------------------
(***************************************************************************)
(* Machine-checked proofs about LiveDispatch, for every number of starts,  *)
(* of questions and of power failures.                                     *)
(***************************************************************************)
EXTENDS LiveDispatch, TLAPS

-----------------------------------------------------------------------------
(* The inductive invariant                                                 *)

\* Where a process is before it has opened the journal, and in between
Early == {"off", "directory", "fsync", "open"}
Running == {"starting", "started", "case", "begun", "sdk", "reserving", "reserved",
            "waiting", "result", "answered", "raised", "refusing", "evidence",
            "finished", "error", "failing", "completing"}
Places == Early \cup Running \cup Ended

Process == [pc : Places, io : {"none", "write", "sync"}, rec : Line \cup {None},
            then : Places \cup {None}, logical : Nat, physical : Nat, active : Nat,
            dispatched : BOOLEAN, stopped : BOOLEAN, ok : BOOLEAN, repeated : BOOLEAN]

\* Every variable has its type, and no more is on the disk than was written.
DispatchTypeOK ==
    /\ proc \in [Processes -> Process]
    /\ directory \in {"none", "new", "used", "durable"}
    /\ journal \in File \cup {None}
    /\ journal # None => journal.synced <= Len(journal.log)
    /\ sent \in [Cases -> Nat]
    /\ failures \in Nat
    /\ lost \in BOOLEAN

\* A record of the event about question c is on the disk and says it went well.
Kept(event, c) ==
    /\ journal # None
    /\ \E i \in 1 .. journal.synced :
          /\ journal.log[i].event = event /\ journal.log[i].case = c
          /\ journal.log[i].ok

\* Question c was sent, answered and evaluated, and the disk says so.
Settled(c) == sent[c] = 1 /\ Kept("dispatch_result", c) /\ Kept("case_result", c)
AllSettled == lost \/ \A c \in Cases : Settled(c)

\* The record a process in step q.pc is writing, and where that leads
Recording(q) ==
    CASE q.pc = "starting"   -> q.then = "started"
      [] q.pc = "begun"      -> q.then = "sdk"
      [] q.pc = "reserving"  -> /\ q.then = "reserved"
                                /\ q.rec = Record("dispatch_reserved", q.active, TRUE, q.physical)
      [] q.pc = "result"     -> \/ q.then = "raised"
                                \/ /\ q.then = "answered"
                                   /\ q.rec = Record("dispatch_result", q.active, TRUE, q.physical)
      [] q.pc = "refusing"   -> q.then \in {"raised", "error"}
      [] q.pc = "evidence"   -> /\ q.then = "finished"
                                /\ q.rec = Record("case_result", q.active, TRUE, q.physical)
      [] q.pc = "failing"    -> q.then = "failed"
      [] q.pc = "completing" -> q.then = "done"
      [] OTHER               -> FALSE

\* A process writes in these steps and in no other, one record at a time.
Writes(q) ==
    /\ q.io = "none" <=> q.pc \in {"started", "case", "sdk", "reserved", "waiting",
                                   "answered", "raised", "finished", "error"}
    /\ q.io # "none" => Recording(q) /\ q.rec \in Line
    /\ q.io = "sync" => \E i \in 1 .. Len(journal.log) : journal.log[i] = q.rec

\* The question a process is about is the last one it began.
Numbers(q) ==
    /\ q.logical <= N /\ q.active \in {0, q.logical}
    /\ q.pc \in {"starting", "started"} => q.logical = 0
    /\ q.pc \in {"case", "completing"} => q.active = 0
    /\ q.pc = "completing" => q.logical = N
    /\ q.pc \in {"begun", "sdk", "reserving", "reserved", "waiting", "answered", "evidence",
                 "finished"} => q.active # 0
    /\ q.pc = "result" /\ q.then = "answered" => q.active # 0
    /\ q.pc \in {"begun", "sdk"} => ~ q.dispatched
    /\ q.pc \in {"reserving", "reserved"} => q.dispatched

\* What a running process may rely on: nothing beyond its question was sent,
\* its own only after the reservation, and everything before is settled; unless
\* a power failure took an earlier journal.
Progress(q) == lost \/
    /\ \A c \in Cases : c > q.logical => sent[c] = 0
    /\ \A b \in Cases : b <= q.logical /\ b # q.active => Settled(b)
    /\ q.active # 0 /\ (~ q.dispatched \/ q.pc \in {"reserving", "reserved"}) =>
          sent[q.active] = 0
    /\ q.pc = "reserved" => Kept("dispatch_reserved", q.active)
    /\ q.pc = "waiting" \/ (q.pc = "result" /\ q.then = "answered") => sent[q.active] = 1
    /\ q.pc \in {"answered", "evidence", "finished"} =>
          sent[q.active] = 1 /\ Kept("dispatch_result", q.active)
    /\ q.pc = "finished" => Kept("case_result", q.active)

RunOK(q) ==
    /\ journal # None
    /\ q.pc \notin {"starting", "started"} => journal.named
    /\ Writes(q) /\ Numbers(q) /\ Progress(q)

InRun(p) == proc[p].pc \in Running

\* A journal is opened in a directory that is on the disk, or that a start found
\* made by another.
Placed == directory \in {"used", "durable"}

\* What was sent cannot be lost any more, unless it was lost with the directory.
SentIsKept == lost \/
    \A c \in Cases :
        /\ sent[c] \in {0, 1}
        /\ sent[c] = 1 => /\ journal # None /\ journal.named
                          /\ Kept("dispatch_reserved", c)
                          /\ \A b \in 1 .. c - 1 : Kept("case_result", b)

DispatchInv ==
    /\ DispatchTypeOK
    /\ journal # None => Placed
    /\ \A p \in Processes : proc[p].pc = "open" => Placed
    /\ \A p \in Processes : proc[p].pc \notin Running => proc[p].io = "none"
    /\ \A p \in Processes : proc[p].pc \in Early => proc[p].logical = 0 /\ proc[p].active = 0
    /\ \A p \in Processes : InRun(p) => RunOK(proc[p])
    /\ \A p, q \in Processes : InRun(p) /\ InRun(q) => p = q
    /\ SentIsKept
    /\ \A p \in Processes : proc[p].pc = "done" => AllSettled

-----------------------------------------------------------------------------
(* The journal                                                             *)

\* What is on the disk stays there.
Grows ==
    /\ journal # None /\ journal' # None
    /\ journal.synced <= journal'.synced
    /\ \A i \in 1 .. journal.synced : journal'.log[i] = journal.log[i]
    /\ journal.named => journal'.named

\* What the disk keeps stays kept while the journal grows.
LEMMA KeptStable ==
    ASSUME DispatchTypeOK, DispatchTypeOK', Grows, NEW event, NEW c, Kept(event, c)
    PROVE  Kept(event, c)'
<1>1. PICK i \in 1 .. journal.synced : /\ journal.log[i].event = event
                                       /\ journal.log[i].case = c /\ journal.log[i].ok
  BY DEF Kept
<1>2. journal.synced \in Nat /\ journal'.synced \in Nat
  BY DEF DispatchTypeOK, File, Grows
<1>3. i \in 1 .. journal'.synced /\ journal'.log[i] = journal.log[i]
  BY <1>1, <1>2 DEF Grows
<1> QED
  BY <1>1, <1>3 DEF Kept, Grows

\* Appending a line changes none of those that were there.
LEMMA AppendLine ==
    ASSUME Setting, DispatchTypeOK, journal # None, NEW r \in Line,
           journal' = [journal EXCEPT !.log = Append(@, r)]
    PROVE  /\ journal' \in File /\ journal'.synced <= Len(journal'.log)
           /\ Grows
           /\ \E i \in 1 .. Len(journal'.log) : journal'.log[i] = r
<1>1. journal \in File /\ journal.log \in Seq(Line) /\ journal.synced \in Nat
      /\ journal.synced <= Len(journal.log)
  BY DEF DispatchTypeOK, File
<1>2. /\ journal' \in File /\ journal'.log = Append(journal.log, r)
      /\ journal'.synced = journal.synced /\ journal'.named = journal.named
  <2>1. PICK log \in Seq(Line) : log = Append(journal.log, r)
    <3>1. PICK old \in Seq(Line) : old = journal.log
      BY <1>1
    <3>2. Append(old, r) \in Seq(Line)
      OBVIOUS
    <3> QED
      BY <3>1, <3>2, Zenon
  <2>2. journal' = [journal EXCEPT !.log = log]
    BY <2>1
  <2> QED
    BY <1>1, <2>1, <2>2 DEF File
<1>3. /\ Len(journal'.log) = Len(journal.log) + 1
      /\ journal'.log[Len(journal.log) + 1] = r
      /\ \A i \in 1 .. Len(journal.log) : journal'.log[i] = journal.log[i]
  BY <1>1, <1>2
<1>4. journal' # None
  BY <1>2 DEF Setting
<1> QED
  BY <1>1, <1>2, <1>3, <1>4 DEF Grows

\* Neither fsync nor doing nothing loses anything.
LEMMA SyncLines ==
    ASSUME Setting, DispatchTypeOK, journal # None,
           journal' = [journal EXCEPT !.synced = Len(journal.log)]
    PROVE  /\ journal' \in File /\ journal'.synced <= Len(journal'.log)
           /\ Grows
           /\ journal'.synced = Len(journal.log) /\ journal'.log = journal.log
<1>1. journal \in File /\ journal.log \in Seq(Line) /\ journal.synced \in Nat
      /\ journal.synced <= Len(journal.log) /\ Len(journal.log) \in Nat
  BY DEF DispatchTypeOK, File
<1>2. /\ journal' \in File /\ journal'.log = journal.log
      /\ journal'.synced = Len(journal.log) /\ journal'.named = journal.named
  BY <1>1 DEF File
<1>3. journal' # None
  BY <1>2 DEF Setting
<1> QED
  BY <1>1, <1>2, <1>3 DEF Grows

\* A journal that is not touched grows by nothing.
LEMMA SameJournal ==
    ASSUME DispatchTypeOK, journal # None, journal' = journal
    PROVE  Grows
BY DEF Grows, DispatchTypeOK, File

-----------------------------------------------------------------------------
(* One process moves                                                       *)

\* A running process moves and the journal does not shrink: what has to be
\* shown is about the new state of that process.
LEMMA RunningStep ==
    ASSUME Setting, DispatchInv, NEW p \in Processes, NEW x \in Process, InRun(p),
           proc' = [proc EXCEPT ![p] = x],
           journal' \in File, journal'.synced <= Len(journal'.log), Grows,
           UNCHANGED <<sent, directory, failures, lost>>,
           x.pc \notin Early, x.pc \notin Running => x.io = "none",
           x.pc \in Running => RunOK(x)',
           x.pc = "done" => AllSettled'
    PROVE  DispatchInv'
<1>1. DispatchTypeOK'
  BY DEF DispatchInv, DispatchTypeOK, Setting
<1>2. \A c \in Cases : \A e : Kept(e, c) => Kept(e, c)'
  BY <1>1, KeptStable DEF DispatchInv
<1>3. \A c \in Cases : Settled(c) => Settled(c)'
  BY <1>2 DEF Settled
<1>4. proc'[p] = x /\ \A q \in Processes \ {p} : proc'[q] = proc[q] /\ ~ InRun(q)
  BY DEF DispatchInv, DispatchTypeOK
<1>5. \A q \in Processes : InRun(q)' => q = p /\ x.pc \in Running
  BY <1>4 DEF InRun
<1>6. \A q \in Processes : InRun(q)' => RunOK(proc[q])'
  BY <1>4, <1>5
<1>7. SentIsKept'
  <2> SUFFICES ASSUME ~ lost, NEW c \in Cases
               PROVE  /\ sent[c] \in {0, 1}
                      /\ sent[c] = 1 => /\ journal' # None /\ journal'.named
                                        /\ Kept("dispatch_reserved", c)'
                                        /\ \A b \in 1 .. c - 1 : Kept("case_result", b)'
    BY DEF SentIsKept
  <2>1. \A b \in 1 .. c - 1 : b \in Cases
    BY DEF Cases, Setting
  <2> QED BY <1>2, <2>1 DEF DispatchInv, SentIsKept, Grows
<1>8. \A q \in Processes : proc'[q].pc = "done" => AllSettled'
  <2>1. AllSettled => AllSettled'
    BY <1>3 DEF AllSettled
  <2> QED BY <1>4, <2>1 DEF DispatchInv
<1>9. \A q \in Processes : proc'[q].pc \notin Running => proc'[q].io = "none"
  BY <1>4 DEF DispatchInv
<1>10. \A a, b \in Processes : InRun(a)' /\ InRun(b)' => a = b
  BY <1>5
<1>11. \A q \in Processes : proc'[q].pc \in Early => proc'[q].logical = 0 /\ proc'[q].active = 0
  BY <1>4 DEF DispatchInv
<1>12. /\ journal' # None => Placed'
       /\ \A q \in Processes : proc'[q].pc = "open" => Placed'
  BY <1>4 DEF DispatchInv, Grows, Placed, Early
<1> QED
  BY <1>11, <1>12, <1>1, <1>6, <1>7, <1>8, <1>9, <1>10 DEF DispatchInv

\* What a running process relies on is not taken away by the journal's growth.
LEMMA StillKept ==
    ASSUME Setting, DispatchInv, Grows, sent' = sent,
           journal' \in File, journal'.synced <= Len(journal'.log),
           proc' \in [Processes -> Process], UNCHANGED <<directory, failures, lost>>
    PROVE  /\ \A e, c : Kept(e, c) => Kept(e, c)'
           /\ \A c : Settled(c) => Settled(c)'
<1>1. DispatchTypeOK'
  BY DEF DispatchInv, DispatchTypeOK
<1>2. \A e, c : Kept(e, c) => Kept(e, c)'
  BY <1>1, KeptStable DEF DispatchInv
<1> QED
  BY <1>2 DEF Settled

\* A process that writes is running, and its record is a line of the journal.
LEMMA Writer ==
    ASSUME DispatchInv, NEW p \in Processes, proc[p].io # "none"
    PROVE  /\ InRun(p) /\ RunOK(proc[p]) /\ proc[p] \in Process /\ proc[p].rec \in Line
           /\ journal # None /\ Recording(proc[p])
<1>1. InRun(p)
  BY DEF DispatchInv, InRun
<1> QED
  BY <1>1 DEF DispatchInv, DispatchTypeOK, RunOK, Writes

\* A line is written, and not yet kept.
LEMMA WriteInv ==
    ASSUME Setting, DispatchInv, NEW p \in Processes, _write(p)
    PROVE  DispatchInv'
<1>1. PICK q \in Process : q = proc[p] /\ q.io = "write" /\ RunOK(q) /\ InRun(p)
                           /\ q.rec \in Line /\ journal # None /\ q.pc \in Running
  BY Writer DEF _write, InRun
<1> DEFINE x == [q EXCEPT !.io = "sync"]
<1>2. x \in Process /\ proc' = [proc EXCEPT ![p] = x]
  BY <1>1 DEF _write, Process
<1>3. /\ journal' \in File /\ journal'.synced <= Len(journal'.log) /\ Grows
      /\ \E i \in 1 .. Len(journal'.log) : journal'.log[i] = q.rec
      /\ UNCHANGED <<sent, directory, failures, lost>>
  <2>1. journal' = [journal EXCEPT !.log = Append(@, q.rec)]
        /\ UNCHANGED <<sent, directory, failures, lost>>
    BY <1>1 DEF _write
  <2> QED BY <2>1, <1>1, AppendLine DEF DispatchInv
<1>4. /\ \A e, c : Kept(e, c) => Kept(e, c)'
      /\ \A c : Settled(c) => Settled(c)'
  BY <1>2, <1>3, StillKept DEF DispatchInv, DispatchTypeOK
<1>5. RunOK(x)'
  <2>1. /\ x.pc = q.pc /\ x.then = q.then /\ x.rec = q.rec /\ x.io = "sync"
        /\ x.logical = q.logical /\ x.active = q.active /\ x.dispatched = q.dispatched
        /\ x.physical = q.physical
    BY DEF Process
  <2> HIDE DEF x
  <2>2. Writes(x)'
    BY ZenonT(60), <1>1, <1>3, <2>1 DEF RunOK, Writes, Recording
  <2>3. Numbers(x)'
    BY <1>1, <2>1 DEF RunOK, Numbers
  <2>4. Progress(x)'
    BY <1>1, <1>3, <1>4, <2>1 DEF RunOK, Progress
  <2> QED BY <1>1, <1>3, <2>1, <2>2, <2>3, <2>4 DEF RunOK, Grows
<1>6. x.pc = q.pc /\ q.pc \notin Early /\ q.pc # "done"
  BY <1>1 DEF Process, Running, Early
<1> HIDE DEF x
<1> QED
  BY <1>1, <1>2, <1>3, <1>5, <1>6, RunningStep

\* The line is kept, and the process goes on.
LEMMA WriteFsyncInv ==
    ASSUME Setting, DispatchInv, NEW p \in Processes, _write_fsync(p)
    PROVE  DispatchInv'
<1>1. PICK q \in Process : q = proc[p] /\ q.io = "sync" /\ RunOK(q) /\ InRun(p)
                           /\ q.rec \in Line /\ journal # None /\ q.pc \in Running
                           /\ Recording(q)
  BY Writer DEF _write_fsync, InRun
<1> DEFINE x == [q EXCEPT !.io = "none", !.pc = q.then]
<1>2. q.then \in {"started", "sdk", "reserved", "raised", "answered", "error", "finished",
                  "failed", "done"}
  BY <1>1 DEF Recording
<1>3. x \in Process /\ proc' = [proc EXCEPT ![p] = x]
  BY ZenonT(60), <1>1, <1>2 DEF _write_fsync, Process, Places, Running, Ended
<1>4. /\ journal' \in File /\ journal'.synced <= Len(journal'.log) /\ Grows
      /\ journal'.synced = Len(journal.log) /\ journal'.log = journal.log
      /\ UNCHANGED <<sent, directory, failures, lost>>
  <2>1. journal' = [journal EXCEPT !.synced = Len(journal.log)]
        /\ UNCHANGED <<sent, directory, failures, lost>>
    BY <1>1 DEF _write_fsync
  <2> QED BY <2>1, <1>1, SyncLines DEF DispatchInv
<1>5. /\ \A e, c : Kept(e, c) => Kept(e, c)'
      /\ \A c : Settled(c) => Settled(c)'
  BY <1>3, <1>4, StillKept DEF DispatchInv, DispatchTypeOK
<1>6. q.rec.ok => Kept(q.rec.event, q.rec.case)'
  <2>1. PICK i \in 1 .. Len(journal.log) : journal.log[i] = q.rec
    BY <1>1 DEF RunOK, Writes
  <2> QED BY <2>1, <1>4 DEF Kept, Grows
<1>7. /\ x.pc = q.then /\ x.then = q.then /\ x.rec = q.rec /\ x.io = "none"
      /\ x.logical = q.logical /\ x.active = q.active /\ x.dispatched = q.dispatched
      /\ x.physical = q.physical
  BY DEF Process
<1> HIDE DEF x
<1>8. /\ q.pc = "reserving" => Kept("dispatch_reserved", q.active)'
      /\ q.pc = "result" /\ q.then = "answered" => Kept("dispatch_result", q.active)'
      /\ q.pc = "evidence" => Kept("case_result", q.active)'
  BY <1>1, <1>6 DEF Recording, Record
<1>9. x.pc \in Running => RunOK(x)'
  <2> SUFFICES ASSUME q.then \in Running PROVE RunOK(x)'
    BY <1>7
  <2>1. Writes(x)'
    BY <1>2, <1>7 DEF Writes, Running
  <2>2. Numbers(x)'
    BY <1>1, <1>2, <1>7 DEF RunOK, Numbers, Recording
  <2>3. Progress(x)'
    BY <1>1, <1>2, <1>4, <1>5, <1>7, <1>8 DEF RunOK, Progress, Recording
  <2> QED BY <1>1, <1>2, <1>4, <1>7, <2>1, <2>2, <2>3 DEF RunOK, Grows, Recording
<1>10. x.pc = "done" => AllSettled'
  <2> SUFFICES ASSUME q.then = "done", ~ lost PROVE \A c \in Cases : Settled(c)
    BY <1>4, <1>5, <1>7 DEF AllSettled
  <2>1. q.pc = "completing"
    BY <1>1 DEF Recording
  <2>2. q.active = 0 /\ q.logical = N
    BY <1>1, <2>1 DEF RunOK, Numbers
  <2> QED BY <1>1, <2>2 DEF RunOK, Progress, Cases, Setting
<1>11. x.pc \notin Early /\ (x.pc \notin Running => x.io = "none")
  BY <1>2, <1>7 DEF Early
<1> QED
  BY <1>1, <1>3, <1>4, <1>9, <1>10, <1>11, RunningStep

\* A running process goes on without having forced a record to the disk.
LEMMA QuietStep ==
    ASSUME Setting, DispatchInv, NEW p \in Processes, NEW x \in Process, InRun(p),
           proc' = [proc EXCEPT ![p] = x],
           \/ journal' = journal
           \/ \E r \in Line : journal' = [journal EXCEPT !.log = Append(@, r)],
           UNCHANGED <<sent, directory, failures, lost>>,
           x.io # "sync",
           \/ x.pc \in Running /\ RunOK(x)
           \/ x.pc \in {"failed", "refused", "dead"} /\ x.io = "none"
    PROVE  DispatchInv'
<1>1. journal # None
  BY DEF DispatchInv, RunOK
<1>2. journal' \in File /\ journal'.synced <= Len(journal'.log) /\ Grows
  <2>1. CASE journal' = journal
    BY <1>1, <2>1, SameJournal DEF DispatchInv, DispatchTypeOK
  <2>2. CASE \E r \in Line : journal' = [journal EXCEPT !.log = Append(@, r)]
    <3>1. PICK r \in Line : journal' = [journal EXCEPT !.log = Append(@, r)]
      BY <2>2
    <3> QED BY <1>1, <3>1, AppendLine DEF DispatchInv
  <2> QED BY <2>1, <2>2
<1>3. /\ \A e, c : Kept(e, c) => Kept(e, c)'
      /\ \A c : Settled(c) => Settled(c)'
  BY <1>2, StillKept DEF DispatchInv, DispatchTypeOK
<1>4. x.pc \in Running => RunOK(x)'
  <2> SUFFICES ASSUME x.pc \in Running PROVE RunOK(x)'
    OBVIOUS
  <2>1. RunOK(x)
    BY DEF Running
  <2>2. Writes(x)' /\ Numbers(x)'
    BY <2>1 DEF RunOK, Writes, Recording, Numbers
  <2>3. Progress(x)'
    BY <2>1, <1>3 DEF RunOK, Progress
  <2> QED BY <2>1, <2>2, <2>3, <1>2 DEF RunOK, Grows
<1>5. x.pc \notin Early /\ (x.pc \notin Running => x.io = "none") /\ x.pc # "done"
  BY DEF Early, Running
<1> QED
  BY <1>2, <1>4, <1>5, RunningStep

\* The fields of a process that begins to write
LEMMA WritingFields ==
    ASSUME NEW q \in Process, NEW pc \in Places, NEW r \in Line, NEW then \in Places
    PROVE  LET x == Writing(q, pc, r, then)
           IN  /\ x \in Process /\ x.pc = pc /\ x.io = "write" /\ x.rec = r /\ x.then = then
               /\ x.logical = q.logical /\ x.physical = q.physical /\ x.active = q.active
               /\ x.dispatched = q.dispatched
BY DEF Writing, Process

\* A line of the journal has the fields of one.
LEMMA RecordType ==
    ASSUME NEW event \in Event, NEW c \in Nat, NEW ok \in BOOLEAN, NEW n \in Nat
    PROVE  /\ Record(event, c, ok, n) \in Line
           /\ Record(event, c, ok, n).event = event
BY DEF Record, Line

\* The guard stops: a refusal is written, nothing is sent.
LEMMA StopOK ==
    ASSUME Setting, NEW q \in Process, RunOK(q), q.pc \in Running \ {"starting", "started",
               "reserving", "reserved"},
           NEW then \in {"raised", "error"}
    PROVE  LET x == Stop(q, then)
           IN  x \in Process /\ x.io # "sync" /\ x.pc \in Running /\ RunOK(x)
<1> DEFINE y == [q EXCEPT !.stopped = TRUE]
           r == Record("stopped", q.active, FALSE, q.physical)
           x == Writing(y, "refusing", r, then)
<1>1. /\ y \in Process /\ y.active = q.active /\ y.logical = q.logical
      /\ y.dispatched = q.dispatched /\ y.physical = q.physical
  BY DEF Process
<1>2. r \in Line
  BY RecordType DEF Process, Event
<1> HIDE DEF y, r
<1>3. /\ x \in Process /\ x.pc = "refusing" /\ x.io = "write" /\ x.rec = r /\ x.then = then
      /\ x.logical = q.logical /\ x.active = q.active /\ x.dispatched = q.dispatched
  BY <1>1, <1>2, WritingFields DEF Places, Running
<1> HIDE DEF x
<1>4. Writes(x)
  BY <1>2, <1>3 DEF Writes, Recording
<1>5. Numbers(x)
  BY <1>3 DEF RunOK, Numbers
<1>6. Progress(x)
  BY <1>3 DEF RunOK, Progress
<1>7. RunOK(x) /\ x \in Process /\ x.io # "sync" /\ x.pc \in Running
  BY <1>3, <1>4, <1>5, <1>6 DEF RunOK, Running
<1> QED
  BY <1>7 DEF Stop, x, y, r

\* Raising out of the guard leaves what was sent and what is kept alone.
LEMMA RaiseOK ==
    ASSUME NEW q \in Process, RunOK(q), q.pc \in Running \ {"starting", "started",
               "reserving", "reserved"},
           NEW x \in Process, x.pc \in {"raised", "error"}, x.io = "none",
           x.logical = q.logical, x.active = q.active, x.dispatched = q.dispatched
    PROVE  x.io # "sync" /\ x.pc \in Running /\ RunOK(x)
<1>1. Writes(x)
  BY DEF Writes
<1>2. Numbers(x)
  BY DEF RunOK, Numbers
<1>3. Progress(x)
  BY DEF RunOK, Progress
<1> QED
  BY <1>1, <1>2, <1>3 DEF RunOK, Running

\* A write or an fsync that fails
LEMMA FailedWriteOK ==
    ASSUME Setting, NEW q \in Process, RunOK(q), q.pc \in Running, q.io # "none"
    PROVE  LET x == AfterFailedWrite(q)
           IN  /\ x \in Process /\ x.io # "sync"
               /\ \/ x.pc \in Running /\ RunOK(x)
                  \/ x.pc \in {"failed", "refused", "dead"} /\ x.io = "none"
<1>1. Recording(q)
  BY DEF RunOK, Writes
<1>2. CASE q.pc = "starting"
  BY <1>2 DEF AfterFailedWrite, Process, Places, Ended
<1>3. CASE q.pc = "failing"
  BY <1>3 DEF AfterFailedWrite, Process, Places, Ended
<1>4. CASE q.pc = "reserving"
  <2> DEFINE y == [q EXCEPT !.stopped = TRUE, !.ok = FALSE]
             r == Record("dispatch_result", q.active, FALSE, q.physical)
             x == Writing(y, "result", r, "raised")
  <2>1. /\ y \in Process /\ y.active = q.active /\ y.logical = q.logical
        /\ y.dispatched = q.dispatched
    BY DEF Process
  <2>2. r \in Line
    BY RecordType DEF Process, Event
  <2> HIDE DEF y, r
  <2>3. /\ x \in Process /\ x.pc = "result" /\ x.io = "write" /\ x.rec = r /\ x.then = "raised"
        /\ x.logical = q.logical /\ x.active = q.active /\ x.dispatched = q.dispatched
    <3>1. "result" \in Places /\ "raised" \in Places
      BY DEF Places, Running
    <3> QED BY <2>1, <2>2, <3>1, WritingFields
  <2> HIDE DEF x
  <2>4. Writes(x) /\ Numbers(x)
    BY <1>4, <2>2, <2>3 DEF RunOK, Writes, Recording, Numbers
  <2>5. Progress(x)
    BY <1>4, <2>3 DEF RunOK, Progress
  <2>6. x = AfterFailedWrite(q)
    BY <1>4 DEF AfterFailedWrite, x, y, r
  <2> QED BY <1>4, <2>3, <2>4, <2>5, <2>6 DEF RunOK, Running
<1>5. CASE q.pc \in {"result", "refusing", "begun", "evidence", "completing"}
  <2>1. PICK x : x = AfterFailedWrite(q)
    OBVIOUS
  <2>2. /\ x \in Process /\ x.pc \in {"raised", "error"} /\ x.io = "none"
        /\ x.logical = q.logical /\ x.active = q.active /\ x.dispatched = q.dispatched
    <3>1. CASE q.pc = "refusing"
      BY <1>1, <3>1, <2>1 DEF AfterFailedWrite, Process, Recording, Places, Running
    <3>2. CASE q.pc = "result"
      BY <3>2, <2>1 DEF AfterFailedWrite, Process, Places, Running
    <3>3. CASE q.pc \in {"begun", "evidence", "completing"}
      BY ZenonT(60), <3>3, <2>1 DEF AfterFailedWrite, Process, Places, Running
    <3> QED BY <1>5, <3>1, <3>2, <3>3
  <2>3. q.pc \in Running \ {"starting", "started", "reserving", "reserved"}
    BY <1>5
  <2> QED BY <2>1, <2>2, <2>3, RaiseOK
<1>6. q.pc \in {"starting", "failing", "reserving", "result", "refusing", "begun", "evidence",
                "completing"}
  BY DEF RunOK, Writes, Running
<1> QED
  BY <1>2, <1>3, <1>4, <1>5, <1>6

\* A write that fails leaves the run where nothing more is sent.
LEMMA WriteFailsInv ==
    ASSUME Setting, DispatchInv, NEW p \in Processes, _write_fails(p)
    PROVE  DispatchInv'
<1>1. PICK q \in Process : q = proc[p] /\ q.io # "none" /\ RunOK(q) /\ InRun(p)
                           /\ q.pc \in Running
  BY Writer DEF _write_fails, InRun
<1>2. PICK x : x = AfterFailedWrite(q)
  OBVIOUS
<1>3. /\ x \in Process /\ x.io # "sync"
      /\ \/ x.pc \in Running /\ RunOK(x)
         \/ x.pc \in {"failed", "refused", "dead"} /\ x.io = "none"
  BY <1>1, <1>2, FailedWriteOK
<1>4. /\ proc' = [proc EXCEPT ![p] = x] /\ UNCHANGED <<sent, directory, failures, lost>>
      /\ \/ journal' = journal
         \/ journal' = [journal EXCEPT !.log = Append(@, Record("torn", 0, FALSE, 0))]
  BY <1>1, <1>2 DEF _write_fails
<1>5. Record("torn", 0, FALSE, 0) \in Line
  BY RecordType DEF Event
<1>6. \/ journal' = journal
      \/ \E r \in Line : journal' = [journal EXCEPT !.log = Append(@, r)]
  BY <1>4, <1>5
<1> QED
  BY <1>1, <1>3, <1>4, <1>6, QuietStep

\* A process that is running, its new state sound, everything else as it was
LEMMA LocalStep ==
    ASSUME Setting, DispatchInv, NEW p \in Processes, NEW x \in Process, InRun(p),
           proc' = [proc EXCEPT ![p] = x],
           UNCHANGED <<directory, journal, sent, changed, failures, lost>>,
           x.io # "sync", x.pc \in Running, RunOK(x)
    PROVE  DispatchInv'
BY QuietStep

\* The state of a running process
LEMMA RunningState ==
    ASSUME DispatchInv, NEW p \in Processes, proc[p].pc \in Running
    PROVE  InRun(p) /\ RunOK(proc[p]) /\ proc[p] \in Process /\ journal # None
BY DEF DispatchInv, DispatchTypeOK, InRun, RunOK

\* The next question gets its number, and nothing is on the way.
LEMMA BeginCaseInv ==
    ASSUME Setting, DispatchInv, NEW p \in Processes, BeginCase(p)
    PROVE  DispatchInv'
<1>1. PICK q \in Process : q = proc[p] /\ q.pc = "case" /\ q.logical < N /\ RunOK(q) /\ InRun(p)
  BY RunningState DEF BeginCase, Running
<1>2. q.active = 0 /\ q.pc \in Running \ {"starting", "started", "reserving", "reserved"}
  BY <1>1 DEF RunOK, Numbers, Running
<1>3. UNCHANGED <<directory, journal, sent, changed, failures, lost>>
  BY DEF BeginCase
<1>4. CASE changed
  <2>1. PICK x : x = [q EXCEPT !.pc = "error"]
    OBVIOUS
  <2>2. /\ x \in Process /\ x.pc \in {"raised", "error"} /\ x.io = "none"
        /\ x.logical = q.logical /\ x.active = q.active /\ x.dispatched = q.dispatched
    BY <1>1, <2>1 DEF Process, Places, Running, RunOK, Writes
  <2>3. proc' = [proc EXCEPT ![p] = x]
    BY <1>1, <1>4, <2>1 DEF BeginCase
  <2>4. x.io # "sync" /\ x.pc \in Running /\ RunOK(x)
    BY <1>1, <1>2, <2>2, RaiseOK
  <2> QED BY <1>1, <1>3, <2>2, <2>3, <2>4, LocalStep
<1>5. CASE ~ changed /\ q.stopped
  <2>1. PICK x : x = Stop(q, "error")
    OBVIOUS
  <2>2. x \in Process /\ x.io # "sync" /\ x.pc \in Running /\ RunOK(x)
    BY <1>1, <1>2, <2>1, StopOK
  <2>3. proc' = [proc EXCEPT ![p] = x]
    BY <1>1, <1>5, <2>1 DEF BeginCase
  <2> QED BY <1>1, <1>3, <2>2, <2>3, LocalStep
<1>6. CASE ~ changed /\ ~ q.stopped
  <2> DEFINE y == [q EXCEPT !.active = q.logical + 1, !.logical = @ + 1, !.dispatched = FALSE]
             r == Record("logical_call", q.logical + 1, TRUE, q.physical)
             x == Writing(y, "begun", r, "sdk")
  <2>1. proc' = [proc EXCEPT ![p] = x]
    BY <1>1, <1>2, <1>6 DEF BeginCase
  <2>5. q.logical \in Nat /\ q.physical \in Nat /\ q.logical + 1 \in Nat
    BY DEF Process
  <2>2. /\ y \in Process /\ y.active = q.logical + 1 /\ y.logical = q.logical + 1
        /\ y.dispatched = FALSE
    BY <2>5 DEF Process
  <2>3. r \in Line
    BY <2>5, RecordType DEF Event
  <2> HIDE DEF y, r
  <2>4. /\ x \in Process /\ x.pc = "begun" /\ x.io = "write" /\ x.rec = r /\ x.then = "sdk"
        /\ x.logical = q.logical + 1 /\ x.active = q.logical + 1 /\ x.dispatched = FALSE
    BY <2>2, <2>3, WritingFields DEF Places, Running
  <2> HIDE DEF x
  <2>6. Writes(x) /\ Numbers(x)
    <3>1. Writes(x)
      BY <2>3, <2>4 DEF Writes, Recording
    <3>2. x.logical <= N /\ x.active # 0
      BY <1>1, <2>4, <2>5 DEF Setting
    <3> QED BY <2>4, <3>1, <3>2 DEF Numbers
  <2>7. Progress(x)
    <3> SUFFICES ASSUME ~ lost PROVE Progress(x)
      BY DEF Progress
    <3>1. \A c \in Cases : c > x.logical => sent[c] = 0
      BY <1>1, <2>4, <2>5 DEF RunOK, Progress, Cases, Setting
    <3>2. \A b \in Cases : b <= x.logical /\ b # x.active => Settled(b)
      <4>1. \A b \in Cases : b <= x.logical /\ b # x.active => b <= q.logical /\ b # q.active
        BY <1>2, <2>4, <2>5 DEF Cases, Setting
      <4> QED BY <1>1, <4>1 DEF RunOK, Progress
    <3>3. sent[x.active] = 0
      BY <1>1, <2>4, <2>5 DEF RunOK, Progress, Cases, Setting
    <3> QED BY <2>4, <3>1, <3>2, <3>3 DEF Progress
  <2>8. RunOK(x) /\ x.pc \in Running /\ x.io # "sync"
    BY <1>1, <2>4, <2>6, <2>7 DEF RunOK, Running
  <2> QED BY <1>1, <1>3, <2>1, <2>4, <2>8, LocalStep
<1> QED
  BY <1>4, <1>5, <1>6

\* What a running process relies on does not depend on the other fields.
LEMMA SameOK ==
    ASSUME NEW q \in Process, RunOK(q), NEW x \in Process, x.pc = q.pc, x.io = q.io,
           x.rec = q.rec, x.then = q.then, x.logical = q.logical, x.physical = q.physical,
           x.active = q.active, x.dispatched = q.dispatched
    PROVE  RunOK(x)
<1>1. Writes(x) /\ Numbers(x)
  BY ZenonT(60) DEF RunOK, Writes, Recording, Numbers
<1>2. Progress(x)
  BY DEF RunOK, Progress
<1> QED
  BY <1>1, <1>2 DEF RunOK

\* The transport asks the guard: it refuses, raises or reserves the dispatch.
LEMMA HandleRequestInv ==
    ASSUME Setting, DispatchInv, NEW p \in Processes, NEW same \in BOOLEAN,
           HandleRequest(p, same)
    PROVE  DispatchInv'
<1>1. PICK q \in Process : q = proc[p] /\ q.pc \in {"sdk", "answered", "raised"}
                           /\ RunOK(q) /\ InRun(p)
  BY RunningState DEF HandleRequest, Running
<1>2. q.io = "none" /\ q.active \in Nat /\ q.physical \in Nat /\ q.physical + 1 \in Nat
  BY <1>1 DEF RunOK, Writes, Process
<1>3. UNCHANGED <<directory, journal, sent, changed, failures, lost>>
  BY DEF HandleRequest
<1>4. PICK r : r = [q EXCEPT !.repeated = q.pc # "sdk"]
  OBVIOUS
<1>5. /\ r \in Process /\ r.pc = q.pc /\ r.io = q.io /\ r.rec = q.rec /\ r.then = q.then
      /\ r.logical = q.logical /\ r.physical = q.physical /\ r.active = q.active
      /\ r.dispatched = q.dispatched
  BY <1>4 DEF Process
<1>6. RunOK(r) /\ r.pc \in Running \ {"starting", "started", "reserving", "reserved"}
  BY <1>1, <1>5, SameOK DEF Running
<1>7. CASE ~ MayDispatch(q) \/ ~ same
  <2>1. PICK x : x = Stop(r, "raised")
    OBVIOUS
  <2>2. x \in Process /\ x.io # "sync" /\ x.pc \in Running /\ RunOK(x)
    BY <1>5, <1>6, <2>1, StopOK
  <2>3. proc' = [proc EXCEPT ![p] = x]
    BY <1>1, <1>4, <1>7, <2>1 DEF HandleRequest
  <2> QED BY <1>1, <1>3, <2>2, <2>3, LocalStep
<1>8. CASE MayDispatch(q) /\ same /\ changed
  <2>1. PICK x : x = [r EXCEPT !.stopped = TRUE, !.pc = "raised"]
    OBVIOUS
  <2>2. /\ x \in Process /\ x.pc \in {"raised", "error"} /\ x.io = "none"
        /\ x.logical = r.logical /\ x.active = r.active /\ x.dispatched = r.dispatched
    BY <1>2, <1>5, <2>1 DEF Process, Places, Running
  <2>3. proc' = [proc EXCEPT ![p] = x]
    BY <1>1, <1>4, <1>8, <2>1 DEF HandleRequest, before_dispatch
  <2>4. x.io # "sync" /\ x.pc \in Running /\ RunOK(x)
    BY <1>5, <1>6, <2>2, RaiseOK
  <2> QED BY <1>1, <1>3, <2>2, <2>3, <2>4, LocalStep
<1>9. CASE MayDispatch(q) /\ same /\ ~ changed
  <2>1. PICK y : y = [r EXCEPT !.dispatched = TRUE, !.physical = r.physical + 1]
    OBVIOUS
  <2>2. PICK w : w = Record("dispatch_reserved", q.active, TRUE, q.physical + 1)
    OBVIOUS
  <2>3. PICK x : x = Writing(y, "reserving", w, "reserved")
    OBVIOUS
  <2>4. proc' = [proc EXCEPT ![p] = x]
    BY <1>1, <1>4, <1>9, <2>1, <2>2, <2>3 DEF HandleRequest, before_dispatch
  <2>5. /\ y \in Process /\ y.active = q.active /\ y.logical = q.logical
        /\ y.dispatched = TRUE /\ y.physical = q.physical + 1
    BY <1>2, <1>5, <2>1 DEF Process
  <2>6. w \in Line
    BY <1>2, <2>2 DEF Record, Line, Event
  <2>7. "reserving" \in Places /\ "reserved" \in Places
    BY DEF Places, Running
  <2>8. /\ x \in Process /\ x.pc = "reserving" /\ x.io = "write" /\ x.rec = w
        /\ x.then = "reserved" /\ x.logical = q.logical /\ x.active = q.active
        /\ x.dispatched = TRUE /\ x.physical = q.physical + 1
    BY <2>3, <2>5, <2>6, <2>7, WritingFields
  <2>9. q.active # 0 /\ ~ q.dispatched
    BY <1>9 DEF MayDispatch
  <2>10. Writes(x)
    BY <2>2, <2>6, <2>8 DEF Writes, Recording
  <2>11. Numbers(x)
    BY <1>1, <2>8, <2>9 DEF RunOK, Numbers
  <2>12. Progress(x)
    BY <1>1, <2>8, <2>9 DEF RunOK, Progress
  <2>13. RunOK(x) /\ x.pc \in Running /\ x.io # "sync"
    BY <1>1, <2>8, <2>10, <2>11, <2>12 DEF RunOK, Running
  <2> QED BY <1>1, <1>3, <2>4, <2>8, <2>13, LocalStep
<1> QED
  BY <1>7, <1>8, <1>9

\* The bytes leave: the reservation is on the disk, the question was not sent
\* before, and no other process runs or has completed.
LEMMA SendInv ==
    ASSUME Setting, DispatchInv, NEW p \in Processes, Send(p)
    PROVE  DispatchInv'
<1>1. PICK q \in Process : q = proc[p] /\ q.pc = "reserved" /\ RunOK(q) /\ InRun(p)
  BY RunningState DEF Send, Running
<1>2. PICK a : a = q.active
  OBVIOUS
<1>3. /\ a \in Cases /\ a = q.logical /\ q.io = "none" /\ journal # None /\ journal.named
      /\ ~ lost => sent[a] = 0 /\ Kept("dispatch_reserved", a)
  <2>1. q.active # 0 /\ q.active = q.logical /\ q.logical <= N /\ q.logical \in Nat
    BY <1>1 DEF RunOK, Numbers, Process
  <2>2. ~ lost => sent[q.active] = 0 /\ Kept("dispatch_reserved", q.active)
    BY <1>1, <2>1 DEF RunOK, Progress
  <2> QED BY <1>1, <1>2, <2>1, <2>2 DEF RunOK, Writes, Cases, Setting
<1>4. PICK x : x = [q EXCEPT !.pc = "waiting"]
  OBVIOUS
<1>5. /\ x \in Process /\ x.pc = "waiting" /\ x.io = "none" /\ x.logical = q.logical
      /\ x.active = q.active /\ x.dispatched = q.dispatched
  BY <1>3, <1>4 DEF Process, Places, Running
<1>6. /\ proc' = [proc EXCEPT ![p] = x] /\ UNCHANGED <<directory, journal, failures, lost>>
      /\ sent' = [sent EXCEPT ![a] = sent[a] + 1]
  <2>1. sent' = [sent EXCEPT ![a] = sent[a] + 1]
    BY <1>1, <1>2 DEF Send
  <2>2. proc' = [proc EXCEPT ![p] = x] /\ UNCHANGED <<directory, journal, failures, lost>>
    BY <1>1, <1>4 DEF Send
  <2> QED BY <1>3, <2>1, <2>2
<1>7. /\ ~ lost => sent'[a] = 1
      /\ \A c \in Cases \ {a} : sent'[c] = sent[c]
      /\ sent' \in [Cases -> Nat]
  BY <1>3, <1>6 DEF DispatchInv, DispatchTypeOK
<1>8. proc'[p] = x /\ \A o \in Processes \ {p} : proc'[o] = proc[o] /\ ~ InRun(o)
  BY <1>1, <1>6 DEF DispatchInv, DispatchTypeOK
<1>9. \A e, c : Kept(e, c)' <=> Kept(e, c)
  BY <1>6 DEF Kept
<1>10. DispatchTypeOK'
  BY <1>5, <1>6, <1>7 DEF DispatchInv, DispatchTypeOK
<1>11. ~ lost => \A b \in Cases : b < a => Settled(b)
  BY <1>1, <1>2, <1>3 DEF RunOK, Progress, Cases, Setting
<1>12. ~ lost => \A o \in Processes : proc[o].pc # "done"
  BY <1>3 DEF DispatchInv, AllSettled, Settled
<1>13. SentIsKept'
  <2> SUFFICES ASSUME ~ lost PROVE SentIsKept'
    BY <1>6 DEF SentIsKept
  <2>1. \A b \in 1 .. a - 1 : Kept("case_result", b)
    BY <1>3, <1>11 DEF Settled, Cases, Setting
  <2>2. /\ sent'[a] \in {0, 1} /\ journal' # None /\ journal'.named
        /\ Kept("dispatch_reserved", a)' /\ \A b \in 1 .. a - 1 : Kept("case_result", b)'
    BY <1>3, <1>6, <1>7, <1>9, <2>1
  <2>3. \A c \in Cases \ {a} :
           /\ sent'[c] \in {0, 1}
           /\ sent'[c] = 1 => /\ journal' # None /\ journal'.named
                              /\ Kept("dispatch_reserved", c)'
                              /\ \A b \in 1 .. c - 1 : Kept("case_result", b)'
    BY <1>6, <1>7, <1>9 DEF DispatchInv, SentIsKept
  <2> QED BY <2>2, <2>3 DEF SentIsKept
<1>14. RunOK(x)'
  <2>1. Writes(x)' /\ Numbers(x)'
    BY <1>1, <1>5 DEF RunOK, Writes, Numbers
  <2>2. ~ lost => \A c \in Cases : c > x.logical => sent'[c] = 0
    BY <1>1, <1>3, <1>5, <1>7 DEF RunOK, Progress, Cases, Setting
  <2>3. ~ lost => \A b \in Cases : b <= x.logical /\ b # x.active => Settled(b)'
    BY <1>1, <1>2, <1>5, <1>7, <1>9 DEF RunOK, Progress, Settled
  <2>4. q.dispatched
    BY <1>1 DEF RunOK, Numbers
  <2>5. Progress(x)'
    BY <1>2, <1>5, <1>6, <1>7, <2>2, <2>3, <2>4 DEF Progress
  <2> QED BY <1>1, <1>3, <1>6, <2>1, <2>5 DEF RunOK
<1>15. \A o \in Processes : InRun(o)' => o = p
  BY <1>8 DEF InRun
<1>16. \A o \in Processes : InRun(o)' => RunOK(proc[o])'
  BY <1>8, <1>14, <1>15
<1>17. \A o \in Processes : proc'[o].pc = "done" => AllSettled'
  BY <1>5, <1>6, <1>8, <1>12 DEF AllSettled
<1>18. /\ \A o \in Processes : proc'[o].pc \notin Running => proc'[o].io = "none"
       /\ \A o \in Processes : proc'[o].pc \in Early => proc'[o].logical = 0 /\ proc'[o].active = 0
  BY <1>5, <1>8 DEF DispatchInv, Early
<1>19. /\ journal' # None => Placed'
       /\ \A o \in Processes : proc'[o].pc = "open" => Placed'
  BY <1>5, <1>6, <1>8 DEF DispatchInv, Placed
<1> QED
  BY <1>6, <1>19, <1>10, <1>13, <1>15, <1>16, <1>17, <1>18 DEF DispatchInv

\* The transport returned or raised.
LEMMA AnswerInv ==
    ASSUME Setting, DispatchInv, NEW p \in Processes, NEW ok \in BOOLEAN, Answer(p, ok)
    PROVE  DispatchInv'
<1>1. PICK q \in Process : /\ q = proc[p] /\ RunOK(q) /\ InRun(p)
                           /\ q.pc = "waiting" \/ (q.pc = "reserved" /\ ~ ok)
  BY RunningState DEF Answer, Running
<1>2. q.active # 0 /\ q.active \in Nat /\ q.physical \in Nat
  BY <1>1 DEF RunOK, Numbers, Process
<1>3. PICK then : then = IF ok THEN "answered" ELSE "raised"
  OBVIOUS
<1>4. PICK y : y = [q EXCEPT !.ok = ok, !.stopped = q.stopped \/ ~ ok]
  OBVIOUS
<1>5. PICK w : w = Record("dispatch_result", q.active, ok, q.physical)
  OBVIOUS
<1>6. PICK x : x = Writing(y, "result", w, then)
  OBVIOUS
<1>7. /\ proc' = [proc EXCEPT ![p] = x]
      /\ UNCHANGED <<directory, journal, sent, changed, failures, lost>>
  BY <1>1, <1>3, <1>4, <1>5, <1>6 DEF Answer, Answered
<1>8. /\ y \in Process /\ y.active = q.active /\ y.logical = q.logical
      /\ y.dispatched = q.dispatched /\ y.physical = q.physical
  <2>1. (q.stopped \/ ~ ok) \in BOOLEAN
    OBVIOUS
  <2> QED BY <1>4, <2>1 DEF Process
<1>9. w \in Line /\ (ok => w = Record("dispatch_result", q.active, TRUE, q.physical))
  BY <1>2, <1>5 DEF Record, Line, Event
<1>10. "result" \in Places /\ then \in Places
  BY <1>3 DEF Places, Running
<1>11. /\ x \in Process /\ x.pc = "result" /\ x.io = "write" /\ x.rec = w /\ x.then = then
       /\ x.logical = q.logical /\ x.active = q.active /\ x.dispatched = q.dispatched
       /\ x.physical = q.physical
  BY <1>6, <1>8, <1>9, <1>10, WritingFields
<1>12. Writes(x)
  BY <1>3, <1>9, <1>11 DEF Writes, Recording
<1>13. Numbers(x)
  BY <1>1, <1>2, <1>11 DEF RunOK, Numbers
<1>14. Progress(x)
  BY <1>1, <1>3, <1>11 DEF RunOK, Progress
<1>15. RunOK(x) /\ x.pc \in Running /\ x.io # "sync"
  BY <1>1, <1>11, <1>12, <1>13, <1>14 DEF RunOK, Running
<1> QED
  BY <1>1, <1>7, <1>11, <1>15, LocalStep

\* The case's evidence is written only for a question that was dispatched.
LEMMA FinishInv ==
    ASSUME Setting, DispatchInv, NEW p \in Processes, NEW valid \in BOOLEAN, Finish(p, valid)
    PROVE  DispatchInv'
<1>1. PICK q \in Process : q = proc[p] /\ RunOK(q) /\ InRun(p) /\ q.pc \in {"sdk", "answered"}
  BY RunningState DEF Finish, Running
<1>2. q.active \in Nat /\ q.physical \in Nat /\ (q.pc = "sdk" => ~ q.dispatched) /\ q.active # 0
  BY <1>1 DEF RunOK, Numbers, Process
<1>3. PICK x : x = Finished(q, valid)
  OBVIOUS
<1>4. /\ proc' = [proc EXCEPT ![p] = x]
      /\ UNCHANGED <<directory, journal, sent, changed, failures, lost>>
  BY <1>1, <1>3 DEF Finish
<1>5. CASE q.stopped \/ q.active = 0 \/ ~ q.dispatched \/ ~ valid
  <2>1. x = Stop(q, "error")
    BY <1>3, <1>5 DEF Finished
  <2>2. q.pc \in Running \ {"starting", "started", "reserving", "reserved"}
    BY <1>1 DEF Running
  <2>3. x \in Process /\ x.io # "sync" /\ x.pc \in Running /\ RunOK(x)
    BY <1>1, <2>1, <2>2, StopOK
  <2> QED BY <1>1, <1>4, <2>3, LocalStep
<1>6. CASE ~ (q.stopped \/ q.active = 0 \/ ~ q.dispatched \/ ~ valid)
  <2>1. PICK w : w = Record("case_result", q.active, TRUE, q.physical)
    OBVIOUS
  <2>2. x = Writing(q, "evidence", w, "finished")
    BY <1>3, <1>6, <2>1 DEF Finished
  <2>3. w \in Line
    BY <1>2, <2>1 DEF Record, Line, Event
  <2>4. "evidence" \in Places /\ "finished" \in Places
    BY DEF Places, Running
  <2>5. /\ x \in Process /\ x.pc = "evidence" /\ x.io = "write" /\ x.rec = w
        /\ x.then = "finished" /\ x.logical = q.logical /\ x.active = q.active
        /\ x.dispatched = q.dispatched /\ x.physical = q.physical
    BY <2>2, <2>3, <2>4, WritingFields
  <2>6. q.pc = "answered"
    BY <1>1, <1>2, <1>6
  <2>7. Writes(x)
    BY <2>1, <2>3, <2>5 DEF Writes, Recording
  <2>8. Numbers(x)
    BY <1>1, <1>2, <2>5 DEF RunOK, Numbers
  <2>9. Progress(x)
    BY <1>1, <2>5, <2>6 DEF RunOK, Progress
  <2>10. RunOK(x) /\ x.pc \in Running /\ x.io # "sync"
    BY <1>1, <2>5, <2>7, <2>8, <2>9 DEF RunOK, Running
  <2> QED BY <1>1, <1>4, <2>5, <2>10, LocalStep
<1> QED
  BY <1>5, <1>6

\* The question is settled before the guard forgets it.
LEMMA NextCaseInv ==
    ASSUME Setting, DispatchInv, NEW p \in Processes, NextCase(p)
    PROVE  DispatchInv'
<1>1. PICK q \in Process : q = proc[p] /\ RunOK(q) /\ InRun(p) /\ q.pc = "finished"
  BY RunningState DEF NextCase, Running
<1>2. PICK x : x = [q EXCEPT !.active = 0, !.pc = "case"]
  OBVIOUS
<1>3. /\ proc' = [proc EXCEPT ![p] = x]
      /\ UNCHANGED <<directory, journal, sent, changed, failures, lost>>
  BY <1>1, <1>2 DEF NextCase
<1>4. /\ x \in Process /\ x.pc = "case" /\ x.io = q.io /\ x.logical = q.logical
      /\ x.active = 0 /\ x.dispatched = q.dispatched
  BY <1>2 DEF Process, Places, Running
<1>5. Writes(x) /\ Numbers(x)
  BY <1>1, <1>4 DEF RunOK, Writes, Numbers
<1>6. ~ lost => Settled(q.active)
  BY <1>1 DEF RunOK, Progress, Settled
<1>7. Progress(x)
  BY <1>1, <1>4, <1>6 DEF RunOK, Progress
<1>8. RunOK(x) /\ x.pc \in Running /\ x.io # "sync"
  BY <1>1, <1>4, <1>5, <1>7 DEF RunOK, Running, Writes
<1> QED
  BY <1>1, <1>3, <1>4, <1>8, LocalStep

\* An exception on its way to execute
LEMMA RaiseInv ==
    ASSUME Setting, DispatchInv, NEW p \in Processes, Raise(p)
    PROVE  DispatchInv'
<1>1. PICK q \in Process : q = proc[p] /\ RunOK(q) /\ InRun(p)
                           /\ q.pc \in {"sdk", "answered", "raised"}
  BY RunningState DEF Raise, Running
<1>2. PICK x : x = [q EXCEPT !.pc = "error"]
  OBVIOUS
<1>3. /\ proc' = [proc EXCEPT ![p] = x]
      /\ UNCHANGED <<directory, journal, sent, changed, failures, lost>>
  BY <1>1, <1>2 DEF Raise
<1>4. /\ x \in Process /\ x.pc \in {"raised", "error"} /\ x.io = "none"
      /\ x.logical = q.logical /\ x.active = q.active /\ x.dispatched = q.dispatched
  BY <1>1, <1>2 DEF Process, Places, Running, RunOK, Writes
<1>5. q.pc \in Running \ {"starting", "started", "reserving", "reserved"}
  BY <1>1 DEF Running
<1>6. x.io # "sync" /\ x.pc \in Running /\ RunOK(x)
  BY <1>1, <1>4, <1>5, RaiseOK
<1> QED
  BY <1>1, <1>3, <1>4, <1>6, LocalStep

\* execute records that the sequence failed.
LEMMA FailInv ==
    ASSUME Setting, DispatchInv, NEW p \in Processes, Fail(p)
    PROVE  DispatchInv'
<1>1. PICK q \in Process : q = proc[p] /\ RunOK(q) /\ InRun(p) /\ q.pc = "error"
  BY RunningState DEF Fail, Running
<1>2. PICK y : y = [q EXCEPT !.stopped = TRUE]
  OBVIOUS
<1>3. PICK w : w = Record("sequence_failed", 0, FALSE, q.physical)
  OBVIOUS
<1>4. PICK x : x = Writing(y, "failing", w, "failed")
  OBVIOUS
<1>5. /\ proc' = [proc EXCEPT ![p] = x]
      /\ UNCHANGED <<directory, journal, sent, changed, failures, lost>>
  BY <1>1, <1>2, <1>3, <1>4 DEF Fail
<1>6. /\ y \in Process /\ y.active = q.active /\ y.logical = q.logical
      /\ y.dispatched = q.dispatched
  BY <1>2 DEF Process
<1>7. w \in Line
  BY <1>3 DEF Record, Line, Event, Process
<1>8. "failing" \in Places /\ "failed" \in Places
  BY DEF Places, Running, Ended
<1>9. /\ x \in Process /\ x.pc = "failing" /\ x.io = "write" /\ x.rec = w /\ x.then = "failed"
      /\ x.logical = q.logical /\ x.active = q.active /\ x.dispatched = q.dispatched
  BY <1>4, <1>6, <1>7, <1>8, WritingFields
<1>10. Writes(x) /\ Numbers(x)
  BY <1>1, <1>7, <1>9 DEF RunOK, Writes, Recording, Numbers
<1>11. Progress(x)
  BY <1>1, <1>9 DEF RunOK, Progress
<1>12. RunOK(x) /\ x.pc \in Running /\ x.io # "sync"
  BY <1>1, <1>9, <1>10, <1>11 DEF RunOK, Running
<1> QED
  BY <1>1, <1>5, <1>9, <1>12, LocalStep

\* The sequence is complete only after the last question.
LEMMA CompleteInv ==
    ASSUME Setting, DispatchInv, NEW p \in Processes, Complete(p)
    PROVE  DispatchInv'
<1>1. PICK q \in Process : q = proc[p] /\ RunOK(q) /\ InRun(p) /\ q.pc = "case" /\ q.logical = N
  BY RunningState DEF Complete, Running
<1>2. UNCHANGED <<directory, journal, sent, changed, failures, lost>>
  BY DEF Complete
<1>3. CASE q.physical # N
  <2>1. PICK x : x = [q EXCEPT !.pc = "error"]
    OBVIOUS
  <2>2. proc' = [proc EXCEPT ![p] = x]
    BY <1>1, <1>3, <2>1 DEF Complete
  <2>3. /\ x \in Process /\ x.pc \in {"raised", "error"} /\ x.io = "none"
        /\ x.logical = q.logical /\ x.active = q.active /\ x.dispatched = q.dispatched
    BY <1>1, <2>1 DEF Process, Places, Running, RunOK, Writes
  <2>4. q.pc \in Running \ {"starting", "started", "reserving", "reserved"}
    BY <1>1 DEF Running
  <2>5. x.io # "sync" /\ x.pc \in Running /\ RunOK(x)
    BY <1>1, <2>3, <2>4, RaiseOK
  <2> QED BY <1>1, <1>2, <2>2, <2>3, <2>5, LocalStep
<1>4. CASE q.physical = N
  <2>1. PICK w : w = Record("sequence_completed", 0, TRUE, N)
    OBVIOUS
  <2>2. PICK x : x = Writing(q, "completing", w, "done")
    OBVIOUS
  <2>3. proc' = [proc EXCEPT ![p] = x]
    BY <1>1, <1>4, <2>1, <2>2 DEF Complete
  <2>4. w \in Line
    BY <2>1 DEF Record, Line, Event, Setting
  <2>5. "completing" \in Places /\ "done" \in Places
    BY DEF Places, Running, Ended
  <2>6. /\ x \in Process /\ x.pc = "completing" /\ x.io = "write" /\ x.rec = w
        /\ x.then = "done" /\ x.logical = q.logical /\ x.active = q.active
        /\ x.dispatched = q.dispatched
    BY <2>2, <2>4, <2>5, WritingFields
  <2>7. Writes(x)
    BY <2>4, <2>6 DEF Writes, Recording
  <2>8. Numbers(x)
    BY <1>1, <2>6 DEF RunOK, Numbers
  <2>9. Progress(x)
    BY <1>1, <2>6 DEF RunOK, Progress
  <2>10. RunOK(x) /\ x.pc \in Running /\ x.io # "sync"
    BY <1>1, <2>6, <2>7, <2>8, <2>9 DEF RunOK, Running
  <2> QED BY <1>1, <1>2, <2>3, <2>6, <2>10, LocalStep
<1> QED
  BY <1>3, <1>4

\* The name of the journal is on the disk before the first question.
LEMMA SyncNameInv ==
    ASSUME Setting, DispatchInv, NEW p \in Processes, NEW ok \in BOOLEAN, SyncName(p, ok)
    PROVE  DispatchInv'
<1>1. PICK q \in Process : q = proc[p] /\ RunOK(q) /\ InRun(p) /\ q.pc = "started"
  BY RunningState DEF SyncName, Running
<1>2. PICK x : x = [q EXCEPT !.pc = IF ok THEN "case" ELSE "refused"]
  OBVIOUS
<1>3. proc' = [proc EXCEPT ![p] = x] /\ UNCHANGED <<directory, sent, failures, lost>>
  BY <1>1, <1>2 DEF SyncName
<1>4. /\ x \in Process /\ x.pc = IF ok THEN "case" ELSE "refused"
      /\ x.io = "none" /\ x.logical = q.logical /\ x.active = q.active
      /\ x.dispatched = q.dispatched
  BY <1>1, <1>2 DEF Process, Places, Running, Ended, RunOK, Writes
<1>5. PICK b \in BOOLEAN : b = (journal.named \/ ok)
  OBVIOUS
<1>6. journal \in File /\ journal # None /\ journal.synced \in Nat
  BY <1>1 DEF DispatchInv, DispatchTypeOK, RunOK, File
<1>7. journal' = [journal EXCEPT !.named = b]
  BY <1>5 DEF SyncName
<1>8. /\ journal' \in File /\ journal'.log = journal.log /\ journal'.synced = journal.synced
      /\ journal'.named = b
  BY <1>6, <1>7 DEF File
<1>9. journal' # None
  BY <1>8 DEF Setting
<1>10. journal'.synced <= Len(journal'.log) /\ Grows
  <2>1. journal.synced <= Len(journal.log) /\ journal.synced <= journal.synced
    BY <1>6 DEF DispatchInv, DispatchTypeOK
  <2>2. journal.named => b
    BY <1>5, Zenon
  <2> QED BY <1>6, <1>8, <1>9, <2>1, <2>2 DEF Grows
<1>11. /\ \A e, c : Kept(e, c) => Kept(e, c)'
       /\ \A c : Settled(c) => Settled(c)'
  BY <1>3, <1>4, <1>8, <1>10, StillKept DEF DispatchInv, DispatchTypeOK
<1>12. x.pc \in Running => RunOK(x)'
  <2> SUFFICES ASSUME x.pc = "case" PROVE RunOK(x)'
    BY <1>4 DEF Running
  <2>1. b
    BY <1>4, <1>5
  <2>2. Writes(x)' /\ Numbers(x)'
    BY <1>1, <1>4 DEF RunOK, Writes, Numbers
  <2>3. Progress(x)'
    BY <1>1, <1>3, <1>4, <1>11 DEF RunOK, Progress
  <2> QED BY <1>8, <1>9, <2>1, <2>2, <2>3 DEF RunOK
<1>13. x.pc \notin Early /\ x.pc # "done"
  BY <1>4 DEF Early
<1> QED
  BY <1>1, <1>3, <1>4, <1>8, <1>10, <1>12, <1>13, RunningStep

-----------------------------------------------------------------------------
(* Before the journal is open, and the end of a process                    *)

\* A process that has not opened the journal disturbs nobody.
LEMMA EarlyStep ==
    ASSUME Setting, DispatchInv, NEW p \in Processes, proc[p].pc \in Early,
           NEW x \in Process, x.pc \in Early \cup {"refused", "dead"}, x.io = "none",
           x.logical = 0, x.active = 0,
           proc' = [proc EXCEPT ![p] = x],
           UNCHANGED <<journal, sent, failures, lost>>,
           directory' \in {"none", "new", "used", "durable"},
           Placed => Placed', x.pc = "open" => Placed'
    PROVE  DispatchInv'
<1>1. DispatchTypeOK'
  BY DEF DispatchInv, DispatchTypeOK
<1>2. proc'[p] = x /\ \A o \in Processes \ {p} : proc'[o] = proc[o]
  BY DEF DispatchInv, DispatchTypeOK
<1>3. x.pc \notin Running /\ x.pc # "done"
  BY DEF Early, Running
<1>4. \A o \in Processes : InRun(o)' => o # p /\ InRun(o) /\ proc'[o] = proc[o]
  BY <1>2, <1>3 DEF InRun
<1>5. \A e, c : Kept(e, c)' <=> Kept(e, c)
  BY DEF Kept
<1>6. \A c : Settled(c)' <=> Settled(c)
  BY <1>5 DEF Settled
<1>7. SentIsKept'
  BY <1>5 DEF DispatchInv, SentIsKept
<1>8. ASSUME NEW o \in Processes, InRun(o)' PROVE RunOK(proc[o])'
  <2>1. PICK y \in Process : y = proc[o] /\ y = proc'[o] /\ RunOK(y)
    BY <1>4, <1>8 DEF DispatchInv, DispatchTypeOK
  <2>2. Writes(y)' /\ Numbers(y)'
    BY <2>1 DEF RunOK, Writes, Numbers
  <2>3. Progress(y)'
    BY <2>1, <1>5, <1>6 DEF RunOK, Progress
  <2> QED BY <2>1, <2>2, <2>3 DEF RunOK
<1>9. \A a, b \in Processes : InRun(a)' /\ InRun(b)' => a = b
  BY <1>4 DEF DispatchInv
<1>10. \A o \in Processes : proc'[o].pc = "done" => AllSettled'
  <2>1. AllSettled => AllSettled'
    BY <1>6 DEF AllSettled
  <2> QED BY <1>2, <1>3, <2>1 DEF DispatchInv
<1>11. /\ \A o \in Processes : proc'[o].pc \notin Running => proc'[o].io = "none"
       /\ \A o \in Processes : proc'[o].pc \in Early => proc'[o].logical = 0 /\ proc'[o].active = 0
  BY <1>2 DEF DispatchInv
<1>12. /\ journal' # None => Placed'
       /\ \A o \in Processes : proc'[o].pc = "open" => Placed'
  BY <1>2 DEF DispatchInv
<1> QED
  BY <1>1, <1>7, <1>8, <1>9, <1>10, <1>11, <1>12 DEF DispatchInv

\* The fields of a process that has not opened the journal
LEMMA EarlyState ==
    ASSUME DispatchInv, NEW p \in Processes, proc[p].pc \in Early
    PROVE  /\ proc[p] \in Process /\ proc[p].io = "none"
           /\ proc[p].logical = 0 /\ proc[p].active = 0
BY DEF DispatchInv, DispatchTypeOK, Early, Running

\* ... when it moves on to another such place, or gives up.
LEMMA EarlyMove ==
    ASSUME Setting, DispatchInv, NEW p \in Processes, proc[p].pc \in Early,
           NEW pc \in Early \cup {"refused", "dead"},
           proc' = [proc EXCEPT ![p].pc = pc],
           UNCHANGED <<journal, sent, failures, lost>>,
           directory' \in {"none", "new", "used", "durable"},
           Placed => Placed', pc = "open" => Placed'
    PROVE  DispatchInv'
<1>1. PICK q \in Process : q = proc[p] /\ q.io = "none" /\ q.logical = 0 /\ q.active = 0
  BY EarlyState
<1>2. PICK x : x = [q EXCEPT !.pc = pc]
  OBVIOUS
<1>3. proc' = [proc EXCEPT ![p] = x]
  BY <1>1, <1>2
<1>4. pc \in Places
  BY DEF Places, Ended
<1>5. /\ x \in Process /\ x.pc = pc /\ x.io = "none" /\ x.logical = 0 /\ x.active = 0
  BY <1>1, <1>2, <1>4 DEF Process
<1> QED
  BY <1>3, <1>5, EarlyStep

\* The start, the journal's directory
LEMMA LaunchInv ==
    ASSUME Setting, DispatchInv, NEW p \in Processes,
           Launch(p) \/ MakeDirectory(p) \/ \E ok \in BOOLEAN : SyncDirectory(p, ok)
    PROVE  DispatchInv'
<1>1. directory \in {"none", "new", "used", "durable"}
  BY DEF DispatchInv, DispatchTypeOK
<1>2. CASE Launch(p)
  <2>1. PICK pc \in {"directory", "refused"} : proc' = [proc EXCEPT ![p].pc = pc]
    BY <1>2 DEF Launch
  <2>2. proc[p].pc \in Early /\ pc \in Early \cup {"refused", "dead"}
    BY <1>2, <2>1 DEF Launch, Early
  <2>3. UNCHANGED <<directory, journal, sent, failures, lost>>
    BY <1>2 DEF Launch
  <2>4. (Placed => Placed') /\ (pc = "open" => Placed')
    BY <2>1, <2>3 DEF Placed
  <2> QED BY <1>1, <2>1, <2>2, <2>3, <2>4, EarlyMove
<1>3. CASE MakeDirectory(p)
  <2>1. PICK pc \in {"fsync", "open"} : pc = IF directory = "none" THEN "fsync" ELSE "open"
    OBVIOUS
  <2>2. proc' = [proc EXCEPT ![p].pc = pc]
    BY <1>3, <2>1 DEF MakeDirectory
  <2>3. proc[p].pc \in Early /\ pc \in Early \cup {"refused", "dead"}
    BY <1>3, <2>1 DEF MakeDirectory, Early
  <2>4. UNCHANGED <<journal, sent, failures, lost>>
    BY <1>3 DEF MakeDirectory
  <2>5. directory' = CASE directory = "none" -> "new"
                       [] directory = "new"  -> "used"
                       [] OTHER              -> directory
    BY <1>3 DEF MakeDirectory
  <2>6. /\ directory' \in {"none", "new", "used", "durable"}
        /\ Placed => Placed'
        /\ pc = "open" => Placed'
    BY <1>1, <2>1, <2>5 DEF Placed
  <2> QED BY <2>2, <2>3, <2>4, <2>6, EarlyMove
<1>4. CASE \E ok \in BOOLEAN : SyncDirectory(p, ok)
  <2>1. PICK ok \in BOOLEAN : SyncDirectory(p, ok)
    BY <1>4
  <2>2. PICK pc \in {"refused", "open"} : pc = IF ok THEN "open" ELSE "refused"
    OBVIOUS
  <2>3. proc' = [proc EXCEPT ![p].pc = pc]
    BY <2>1, <2>2 DEF SyncDirectory
  <2>4. proc[p].pc \in Early /\ pc \in Early \cup {"refused", "dead"}
    BY <2>1, <2>2 DEF SyncDirectory, Early
  <2>5. UNCHANGED <<journal, sent, failures, lost>>
    BY <2>1 DEF SyncDirectory
  <2>6. directory' = IF ok THEN "durable" ELSE directory
    BY <2>1 DEF SyncDirectory
  <2>7. /\ directory' \in {"none", "new", "used", "durable"}
        /\ Placed => Placed'
        /\ pc = "open" => Placed'
    BY <1>1, <2>2, <2>6 DEF Placed
  <2> QED BY <2>3, <2>4, <2>5, <2>7, EarlyMove
<1> QED
  BY <1>2, <1>3, <1>4

\* A journal that is there refuses a second run; where there is none, nothing
\* was sent and nobody runs.
LEMMA OpenInv ==
    ASSUME Setting, DispatchInv, NEW p \in Processes, Open(p)
    PROVE  DispatchInv'
<1>1. proc[p].pc \in Early
  BY DEF Open, Early
<1>2. PICK q \in Process : q = proc[p] /\ q.io = "none" /\ q.logical = 0 /\ q.active = 0
  BY <1>1, EarlyState
<1>3. CASE journal # None
  <2>1. proc' = [proc EXCEPT ![p].pc = "refused"] /\ UNCHANGED <<directory, journal, sent, failures, lost>>
    BY <1>3 DEF Open
  <2>2. directory \in {"none", "new", "used", "durable"} /\ (Placed => Placed')
    BY <2>1 DEF DispatchInv, DispatchTypeOK, Placed
  <2> QED BY <1>1, <2>1, <2>2, EarlyMove
<1>4. CASE journal = None
  <2>1. PICK w : w = Record("started", 0, TRUE, 0)
    OBVIOUS
  <2>2. PICK x : x = Writing(q, "starting", w, "started")
    OBVIOUS
  <2>3. /\ proc' = [proc EXCEPT ![p] = x] /\ UNCHANGED <<directory, sent, failures, lost>>
        /\ journal' = [log |-> <<>>, synced |-> 0, named |-> FALSE]
    BY <1>2, <1>4, <2>1, <2>2 DEF Open
  <2>4. w \in Line
    BY <2>1 DEF Record, Line, Event
  <2>5. "starting" \in Places /\ "started" \in Places
    BY DEF Places, Running
  <2>6. /\ x \in Process /\ x.pc = "starting" /\ x.io = "write" /\ x.rec = w
        /\ x.then = "started" /\ x.logical = 0 /\ x.active = 0
    BY <1>2, <2>2, <2>4, <2>5, WritingFields
  <2>7. journal' \in File /\ journal' # None /\ journal'.synced <= Len(journal'.log)
    <3>1. journal' \in File /\ journal'.synced = 0 /\ journal'.log = <<>>
      BY <2>3 DEF File
    <3> QED BY <3>1 DEF Setting
  <2>8. DispatchTypeOK'
    BY <2>3, <2>6, <2>7 DEF DispatchInv, DispatchTypeOK
  <2>9. \A o \in Processes : ~ InRun(o)
    BY <1>4 DEF DispatchInv, RunOK
  <2>10. ~ lost => \A c \in Cases : sent[c] = 0
    BY <1>4 DEF DispatchInv, SentIsKept
  <2>11. \A o \in Processes : proc[o].pc = "done" => lost \/ \A c \in Cases : FALSE
    BY <2>10 DEF DispatchInv, AllSettled, Settled
  <2>12. proc'[p] = x /\ \A o \in Processes \ {p} : proc'[o] = proc[o]
    BY <2>3 DEF DispatchInv, DispatchTypeOK
  <2>13. \A o \in Processes : InRun(o)' => o = p
    BY <2>9, <2>12 DEF InRun
  <2>14. RunOK(x)'
    <3>1. Writes(x)'
      BY <2>4, <2>6 DEF Writes, Recording
    <3>2. Numbers(x)'
      BY <2>6 DEF Numbers, Setting
    <3>3. Progress(x)'
      BY <2>3, <2>6, <2>10 DEF Progress, Cases, Setting
    <3> QED BY <2>6, <2>7, <3>1, <3>2, <3>3 DEF RunOK
  <2>15. SentIsKept'
    BY <2>3, <2>10 DEF SentIsKept
  <2>16. \A o \in Processes : proc'[o].pc = "done" => AllSettled'
    BY <2>3, <2>6, <2>11, <2>12 DEF AllSettled
  <2>17. /\ \A o \in Processes : proc'[o].pc \notin Running => proc'[o].io = "none"
         /\ \A o \in Processes : proc'[o].pc \in Early => proc'[o].logical = 0 /\ proc'[o].active = 0
    BY <2>6, <2>12 DEF DispatchInv, Running
  <2>18. \A o \in Processes : InRun(o)' => RunOK(proc[o])'
    BY <2>12, <2>13, <2>14
  <2>19. \A a, b \in Processes : InRun(a)' /\ InRun(b)' => a = b
    BY <2>13
  <2>20. Placed' /\ \A o \in Processes : proc'[o].pc = "open" => Placed'
    BY <2>3 DEF DispatchInv, Placed, Open
  <2> QED
    BY <2>20, <2>3, <2>8, <2>15, <2>16, <2>17, <2>18, <2>19 DEF DispatchInv
<1> QED
  BY <1>3, <1>4

\* A process is killed.
LEMMA CrashInv ==
    ASSUME Setting, DispatchInv, NEW p \in Processes, Crash(p)
    PROVE  DispatchInv'
<1>1. PICK q \in Process : q = proc[p]
  BY DEF DispatchInv, DispatchTypeOK
<1>2. PICK x : x = [q EXCEPT !.pc = "dead", !.io = "none"]
  OBVIOUS
<1>3. proc' = [proc EXCEPT ![p] = x] /\ UNCHANGED <<directory, journal, sent, failures, lost>>
  BY <1>1, <1>2 DEF Crash
<1>4. /\ x \in Process /\ x.pc = "dead" /\ x.io = "none" /\ x.logical = q.logical
      /\ x.active = q.active
  BY <1>2 DEF Process, Places, Ended
<1>5. q.pc \in Early \cup Running
  BY <1>1 DEF Crash, Process, Places
<1>6. CASE q.pc \in Running
  BY <1>1, <1>3, <1>4, <1>6, QuietStep DEF InRun
<1>7. CASE q.pc \in Early
  <2>1. q.logical = 0 /\ q.active = 0
    BY <1>1, <1>7, EarlyState
  <2>2. directory \in {"none", "new", "used", "durable"} /\ (Placed => Placed')
    BY <1>3 DEF DispatchInv, DispatchTypeOK, Placed
  <2> QED BY <1>1, <1>3, <1>4, <1>7, <2>1, <2>2, EarlyStep
<1> QED
  BY <1>5, <1>6, <1>7

\* The machine loses power: a journal whose name and directory are on the disk
\* keeps its synced lines, and one that may be lost belongs to no question sent.
LEMMA PowerFailureInv ==
    ASSUME Setting, DispatchInv, PowerFailure
    PROVE  DispatchInv'
<1>1. failures < PowerFailures /\ failures \in Nat /\ PowerFailures \in Nat
  BY DEF PowerFailure, DispatchInv, DispatchTypeOK, Setting
<1>2. /\ directory' \in {"none", "new", "used", "durable"}
      /\ directory' = "none" => journal' = None
      /\ directory' # "none" => journal' \in Survivors
      /\ directory' # "none" /\ Placed => Placed'
      /\ directory' = "none" /\ ~ lost' => journal = None
  <2>1. /\ directory' \in SurvivingDirectories
        /\ journal' \in (IF directory' = "none" THEN {None} ELSE Survivors)
        /\ lost' = (lost \/ (directory = "used" /\ directory' = "none" /\ journal # None))
    BY Zenon DEF PowerFailure
  <2>2. directory \in {"none", "new", "used", "durable"} /\ (journal # None => Placed)
    BY DEF DispatchInv, DispatchTypeOK
  <2>3. directory' \in {"none", "new", "used", "durable"}
        /\ (directory' = "none" => directory # "durable")
        /\ (directory' # "none" /\ Placed => Placed')
    BY <2>1, <2>2 DEF SurvivingDirectories, Placed
  <2>4. directory' = "none" /\ ~ lost' => journal = None
    BY <2>1, <2>2, <2>3 DEF Placed
  <2> QED BY <2>1, <2>3, <2>4
<1>3. failures' \in Nat /\ sent' = sent /\ lost' \in BOOLEAN /\ (lost => lost')
  <2>1. /\ failures' = failures + 1 /\ sent' = sent
        /\ lost' = (lost \/ (directory = "used" /\ directory' = "none" /\ journal # None))
    BY Zenon DEF PowerFailure
  <2>2. lost' \in BOOLEAN /\ (lost => lost')
    BY <2>1, Zenon DEF DispatchInv, DispatchTypeOK
  <2> QED BY <1>1, <2>1, <2>2
<1>4. proc' \in [Processes -> Process]
      /\ \A o \in Processes :
            \/ proc'[o] = proc[o] /\ proc[o].pc \in Ended \cup {"off"}
            \/ proc'[o].pc = "dead" /\ proc'[o].io = "none"
  <2>1. \A o \in Processes : proc[o] \in Process
    BY DEF DispatchInv, DispatchTypeOK
  <2>2. ASSUME NEW y \in Process
        PROVE  LET x == [y EXCEPT !.pc = "dead", !.io = "none"]
               IN  x \in Process /\ x.pc = "dead" /\ x.io = "none"
    BY DEF Process, Places, Ended
  <2> QED BY <2>1, <2>2 DEF PowerFailure
<1>5. journal' = None \/ (journal # None /\ journal' \in File
                          /\ journal'.synced <= Len(journal'.log) /\ Grows)
  <2> SUFFICES ASSUME journal' # None
               PROVE  /\ journal # None /\ journal' \in File
                      /\ journal'.synced <= Len(journal'.log) /\ Grows
    OBVIOUS
  <2>1. journal # None /\ journal \in File /\ journal.log \in Seq(Line) /\ journal.synced \in Nat
        /\ journal.synced <= Len(journal.log) /\ Len(journal.log) \in Nat
    <3>1. journal # None
      BY <1>2, Zenon DEF Survivors
    <3> QED BY <3>1 DEF DispatchInv, DispatchTypeOK, File
  <2>2. PICK k \in journal.synced .. Len(journal.log) :
            journal' = [journal EXCEPT !.log = SubSeq(journal.log, 1, k), !.named = TRUE]
    BY <1>2, <2>1 DEF Survivors
  <2>3. k \in Nat /\ k <= Len(journal.log) /\ journal.synced <= k
    BY <2>1
  <2>4. /\ SubSeq(journal.log, 1, k) \in Seq(Line) /\ Len(SubSeq(journal.log, 1, k)) = k
        /\ \A i \in 1 .. k : SubSeq(journal.log, 1, k)[i] = journal.log[i]
    BY <2>1, <2>3
  <2>5. PICK l : l = SubSeq(journal.log, 1, k)
    OBVIOUS
  <2>6. /\ journal' \in File /\ journal'.log = l /\ journal'.synced = journal.synced
        /\ journal'.named = TRUE
    BY <2>1, <2>2, <2>4, <2>5 DEF File
  <2> QED BY <2>1, <2>3, <2>4, <2>5, <2>6 DEF Grows
<1>6. journal' = None /\ ~ lost' => \A c \in Cases : sent[c] = 0
  <2>1. journal' = None /\ ~ lost' => journal = None \/ ~ journal.named
    <3> SUFFICES ASSUME journal # None, journal.named, directory' # "none" PROVE journal' # None
      BY <1>2
    <3>1. PICK k \in journal.synced .. Len(journal.log) :
              journal' = [journal EXCEPT !.log = SubSeq(journal.log, 1, k), !.named = TRUE]
      BY <1>2 DEF Survivors
    <3>2. journal \in File
      BY DEF DispatchInv, DispatchTypeOK
    <3>3. SubSeq(journal.log, 1, k) \in Seq(Line)
      BY <3>2 DEF File
    <3>4. journal' \in File
      BY <3>1, <3>2, <3>3 DEF File
    <3> QED BY <3>4 DEF Setting
  <2> QED BY <1>3, <2>1 DEF DispatchInv, SentIsKept
<1>7. DispatchTypeOK'
  BY <1>2, <1>3, <1>4, <1>5 DEF DispatchInv, DispatchTypeOK
<1>8. ~ lost' => \A c \in Cases : sent[c] = 1 => journal' # None /\ Grows
  BY <1>5, <1>6
<1>9. ~ lost' => \A c \in Cases : sent[c] = 1 => \A e, b : Kept(e, b) => Kept(e, b)'
  BY <1>7, <1>8, KeptStable DEF DispatchInv
<1>10. ~ lost' => \A c \in Cases : Settled(c) => Settled(c)'
  BY <1>3, <1>9 DEF Settled
<1>11. SentIsKept'
  BY <1>3, <1>8, <1>9 DEF DispatchInv, SentIsKept, Grows
<1>12. \A o \in Processes : ~ InRun(o)'
  BY <1>4 DEF InRun, Ended, Running
<1>13. \A o \in Processes : proc'[o].pc = "done" => AllSettled'
  <2>1. AllSettled => AllSettled'
    BY <1>3, <1>10 DEF AllSettled
  <2> QED BY <1>4, <2>1 DEF DispatchInv
<1>14. /\ \A o \in Processes : proc'[o].io = "none"
       /\ \A o \in Processes : proc'[o].pc \in Early => proc'[o].logical = 0 /\ proc'[o].active = 0
  BY <1>4 DEF DispatchInv, Ended, Early, Running
<1>15. /\ journal' # None => Placed'
       /\ \A o \in Processes : proc'[o].pc # "open"
  BY <1>2, <1>4, <1>5 DEF DispatchInv, Ended
<1> QED
  BY <1>7, <1>11, <1>12, <1>13, <1>14, <1>15 DEF DispatchInv

\* Nothing of the invariant is about what the manifest fingerprints.
LEMMA SameInv ==
    ASSUME DispatchInv, UNCHANGED <<proc, directory, journal, sent, failures, lost>>
    PROVE  DispatchInv'
<1>1. \A e, c : Kept(e, c)' <=> Kept(e, c)
  BY DEF Kept
<1>2. \A c : Settled(c)' <=> Settled(c)
  BY <1>1 DEF Settled
<1>3. DispatchTypeOK' /\ SentIsKept'
  BY <1>1 DEF DispatchInv, DispatchTypeOK, SentIsKept
<1>4. ASSUME NEW y, RunOK(y) PROVE RunOK(y)'
  <2>1. Writes(y)' /\ Numbers(y)'
    BY <1>4 DEF RunOK, Writes, Numbers
  <2>2. Progress(y)'
    BY <1>1, <1>2, <1>4 DEF RunOK, Progress
  <2> QED BY <1>4, <2>1, <2>2 DEF RunOK
<1>5. (AllSettled => AllSettled') /\ (Placed => Placed')
  BY <1>2 DEF AllSettled, Placed
<1> QED
  BY <1>3, <1>4, <1>5 DEF DispatchInv, InRun

-----------------------------------------------------------------------------
(* The theorems                                                            *)

\* At the start nothing was sent and nobody runs.
LEMMA DispatchInvInit ==
    ASSUME Setting, Init
    PROVE  DispatchInv
<1>1. Idle \in Process /\ Idle.pc = "off" /\ Idle.io = "none" /\ Idle.logical = 0 /\ Idle.active = 0
  BY DEF Idle, Process, Places, Early
<1>2. DispatchTypeOK
  BY <1>1 DEF Init, DispatchTypeOK
<1>3. SentIsKept
  BY DEF Init, SentIsKept
<1>4. \A p \in Processes : proc[p] = Idle
  BY DEF Init
<1>5. journal = None
  BY DEF Init
<1>6. "off" \notin Running
  BY DEF Running
<1> QED
  BY <1>1, <1>2, <1>3, <1>4, <1>5, <1>6 DEF DispatchInv, InRun

\* Every step of the system keeps the invariant.
LEMMA DispatchInvNext ==
    ASSUME Setting, DispatchInv, [Next]_vars
    PROVE  DispatchInv'
<1>1. ASSUME NEW p \in Processes, Launch(p) \/ Step(p) \/ Crash(p) PROVE DispatchInv'
  BY <1>1, LaunchInv, WriteInv, WriteFsyncInv, WriteFailsInv, OpenInv, BeginCaseInv, SyncNameInv,
     HandleRequestInv, SendInv, AnswerInv, FinishInv, NextCaseInv, RaiseInv, FailInv,
     CompleteInv, CrashInv DEF Step
<1>2. CASE Drift
  BY <1>2, SameInv DEF Drift
<1>3. CASE PowerFailure
  BY <1>3, PowerFailureInv
<1>4. CASE UNCHANGED vars
  BY <1>4, SameInv DEF vars
<1> QED
  BY <1>1, <1>2, <1>3, <1>4 DEF Next

\* The invariant of the dispatch holds in every reachable state.
THEOREM DispatchInvHolds == ASSUME Setting PROVE Spec => []DispatchInv
<1>1. Init => DispatchInv
  BY DispatchInvInit
<1>2. DispatchInv /\ [Next]_vars => DispatchInv'
  BY DispatchInvNext
<1> QED
  BY <1>1, <1>2, PTL DEF Spec

\* No question reaches the provider twice: whichever starts race for the
\* directory and for the journal's O_EXCL, whichever write or fsync of
\* live_journal and DispatchGuard fails, whoever is killed and however often the
\* machine loses power, as long as it never takes a directory that a start found
\* made by another and not yet on the disk, and a journal in it.
THEOREM OncePerQuestionHolds == ASSUME Setting PROVE Spec => []OncePerQuestion
<1>1. DispatchInv => OncePerQuestion
  BY DEF DispatchInv, SentIsKept, OncePerQuestion
<1> QED
  BY <1>1, DispatchInvHolds, PTL

\* What is on the disk of the journal, as Durable reads it
LEMMA KeptIsDurable ==
    ASSUME Setting, DispatchTypeOK, NEW event, NEW c, Kept(event, c), journal.named,
           directory = "durable"
    PROVE  \E r \in Durable : r.event = event /\ r.case = c /\ r.ok
<1>1. PICK i \in 1 .. journal.synced : /\ journal.log[i].event = event
                                       /\ journal.log[i].case = c /\ journal.log[i].ok
  BY DEF Kept
<1>2. PICK l : l = journal.log
  OBVIOUS
<1>3. journal # None /\ l \in Seq(Line) /\ journal.synced \in Nat /\ journal.synced <= Len(l)
  BY <1>2 DEF Kept, DispatchTypeOK, File
<1>4. /\ Len(SubSeq(l, 1, journal.synced)) = journal.synced
      /\ SubSeq(l, 1, journal.synced)[i] = l[i]
      /\ DOMAIN SubSeq(l, 1, journal.synced) = 1 .. journal.synced
  BY <1>3
<1>5. l[i] \in ToSet(SubSeq(l, 1, journal.synced))
  BY <1>1, <1>4 DEF ToSet
<1> QED
  BY <1>1, <1>2, <1>3, <1>5 DEF Durable

\* The journal leads: whatever was sent has its reservation and the evidence of
\* all earlier questions on the disk, in a file and a directory whose names are
\* there, and a run that reports success has a good result and the evidence of
\* every question there; but for a directory found made and not yet synced.
THEOREM JournalLeadsHolds == ASSUME Setting PROVE Spec => []JournalLeads
<1>1. DispatchInv => JournalLeads
  <2> SUFFICES ASSUME DispatchInv, ~ lost, directory # "used" PROVE JournalLeads
    BY DEF JournalLeads
  <2>1. ASSUME NEW c \in Cases, sent[c] > 0
        PROVE  journal # None /\ journal.named /\ directory = "durable"
    BY <2>1 DEF DispatchInv, SentIsKept, Placed
  <2>2. ASSUME NEW c \in Cases, sent[c] > 0
        PROVE  \A event, b : Kept(event, b) =>
                   \E r \in Durable : r.event = event /\ r.case = b /\ r.ok
    BY <2>1, <2>2, KeptIsDurable DEF DispatchInv
  <2>3. ASSUME NEW c \in Cases, sent[c] > 0
        PROVE  Kept("dispatch_reserved", c) /\ \A b \in 1 .. c - 1 : Kept("case_result", b)
    BY <2>3 DEF DispatchInv, SentIsKept
  <2>4. ASSUME NEW p \in Processes, proc[p].pc = "done", NEW c \in Cases
        PROVE  sent[c] = 1 /\ Kept("dispatch_result", c) /\ Kept("case_result", c)
    BY <2>4 DEF DispatchInv, AllSettled, Settled
  <2> QED BY <2>2, <2>3, <2>4 DEF JournalLeads
<1> QED
  BY <1>1, DispatchInvHolds, PTL
=============================================================================
