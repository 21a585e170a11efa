--------------------------- MODULE StateDatabase ----------------------------
(***************************************************************************)
(* The shared SQLite state database (adapters/sqlite): the guard against   *)
(* duplicate approvals, the event log and the memory store, called by      *)
(* several processes or threads at a time, any of which may die.  (The     *)
(* budget ledger, in the same file, is part of GatewayCalls.)              *)
(*                                                                         *)
(* Every operation opens a connection of its own.  A write is one INSERT,  *)
(* which opens a transaction and takes the database's only write lock, and *)
(* one commit.  Reads see what is committed.                               *)
(***************************************************************************)
EXTENDS Integers, FiniteSets, SequencesExt

CONSTANTS
    Callers,    \* the processes and threads that use the database
    Gates,      \* gate ids
    Keys,       \* idempotency keys
    Events,     \* what append_event is given: project, type and payload
    Projects,   \* project ids
    Tags,       \* domain tags of lessons
    LessonRows, \* the lessons callers record, and record again
    Queries,    \* the queries callers make
    Contents,   \* the texts of retrospectives
    None,       \* Python's None, and the absence of a value
    MaxCalls    \* bound: calls in all

Statuses == {"active", "retracted", "superseded"}

(* Lesson ids are numbers, ordered like the texts they stand for.          *)
Lessons == [ lesson_id : Nat, project_id : Projects, domain_tags : SUBSET Tags,
             status : Statuses, date : Nat ]

LessonQueries == [ project_id : Projects \cup {None}, domain_tags : SUBSET Tags,
                   status : Statuses, limit : Int ]

Retros == [project_id : Projects, content : Contents]

ASSUME StateAssumption ==
    /\ LessonRows \subseteq Lessons
    /\ Queries \subseteq LessonQueries
    /\ None \notin Callers \cup Gates \cup Projects
    /\ MaxCalls \in Nat

(* The rows of the four INSERTs, and a call that is under way with one.    *)
Rows ==
    [table : {"gate_events"}, gate : Gates, key : Keys]
        \cup [table : {"events"}, event : Events]
        \cup [table : {"lessons"}, lesson : LessonRows]
        \cup [table : {"retrospectives"}, retro : Retros]

Calls == [row : Rows, stage : {"called", "written", "committed"}, event_id : Nat]

ASSUME NoCallAssumption == None \notin Calls

VARIABLES
    gateEvents,  \* table gate_events
    events,      \* table events, in the order of event_id
    lessons,     \* table lessons
    retros,      \* table retrospectives
    writer,      \* who holds the write lock, or None
    call,        \* the write each caller has under way, or None
    calls,       \* history: calls so far
    advanced,    \* history: how often a key was reported ADVANCED
    reported,    \* history: keys reported ADVANCED or DUPLICATE
    lost,        \* history: keys whose caller died between commit and return
    appended     \* history: the records append_event has returned

tables  == <<gateEvents, events, lessons, retros>>
history == <<calls, advanced, reported, lost, appended>>
vars == <<tables, writer, call, history>>

Init ==
    /\ gateEvents = {}
    /\ events = << >>
    /\ lessons = {}
    /\ retros = {}
    /\ writer = None
    /\ call = [c \in Callers |-> None]
    /\ calls = 0
    /\ advanced = [k \in Keys |-> 0]
    /\ reported = {}
    /\ lost = {}
    /\ appended = {}

-----------------------------------------------------------------------------
(* The calls.                                                              *)

Call(c, row) ==
    /\ call[c] = None
    /\ calls < MaxCalls
    /\ calls' = calls + 1
    /\ call' = [call EXCEPT ![c] = [row |-> row, stage |-> "called", event_id |-> 0]]
    /\ UNCHANGED <<tables, writer, advanced, reported, lost, appended>>

(* record_and_advance, for the gate that the caller has read is pending.   *)
RecordAndAdvance(c, gate, key, pending) ==
    /\ pending = gate
    /\ Call(c, [table |-> "gate_events", gate |-> gate, key |-> key])

(* record_and_advance, for another gate than that: IGNORED at once.        *)
IgnoreApproval(c, gate, pending) ==
    /\ pending # gate
    /\ call[c] = None
    /\ calls < MaxCalls
    /\ calls' = calls + 1
    /\ UNCHANGED <<tables, writer, call, advanced, reported, lost, appended>>

AppendEvent(c, event) == Call(c, [table |-> "events", event |-> event])

RecordLesson(c, lesson) == Call(c, [table |-> "lessons", lesson |-> lesson])

RecordRetrospective(c, retro) == Call(c, [table |-> "retrospectives", retro |-> retro])

-----------------------------------------------------------------------------
(* A write on its way.                                                     *)

At(c, stage) == call[c] # None /\ call[c].stage = stage

IsApproval(row) == row.table = "gate_events"

IsRecorded(key) == \E row \in gateEvents : row.key = key

Done(c) == call' = [call EXCEPT ![c] = None]

(* The key is there already: the UNIQUE constraint fails the INSERT, which *)
(* is rolled back.                                                         *)
Duplicate(c) ==
    /\ At(c, "called")
    /\ writer = None
    /\ IsApproval(call[c].row)
    /\ IsRecorded(call[c].row.key)
    /\ reported' = reported \cup {call[c].row.key}
    /\ Done(c)
    /\ UNCHANGED <<tables, writer, calls, advanced, lost, appended>>

(* Mutated form: a lookup of the key before the INSERT, for a constraint.  *)
Insert_ReadThenWrite(c) ==
    /\ At(c, "called")
    /\ IsApproval(call[c].row) => ~ IsRecorded(call[c].row.key)
    /\ writer' = c
    /\ call' = [call EXCEPT ![c] = [@ EXCEPT !.stage = "written", !.event_id = Len(events) + 1]]
    /\ UNCHANGED <<tables, history>>

(* The INSERT succeeds, inside a transaction.  The row of an event gets    *)
(* the next event_id, and is read back by it.                              *)
Insert(c) ==
    /\ At(c, "called")
    /\ writer = None
    /\ IsApproval(call[c].row) => ~ IsRecorded(call[c].row.key)
    /\ writer' = c
    /\ call' = [call EXCEPT ![c] = [@ EXCEPT !.stage = "written", !.event_id = Len(events) + 1]]
    /\ UNCHANGED <<tables, history>>

(* The write lock is not to be had for five seconds: the call raises.      *)
DatabaseIsLocked(c) ==
    /\ At(c, "called")
    /\ writer # None
    /\ Done(c)
    /\ UNCHANGED <<tables, writer, history>>

(* ON CONFLICT DO UPDATE: a row with the same key is replaced.             *)
UpsertLesson(lesson) ==
    {old \in lessons : old.lesson_id # lesson.lesson_id} \cup {lesson}

UpsertRetrospective(retro) ==
    {old \in retros : old.project_id # retro.project_id} \cup {retro}

(* Mutated form: the connection is closed without a commit.                *)
Commit_Missing(c) ==
    /\ At(c, "written")
    /\ writer' = None
    /\ call' = [call EXCEPT ![c].stage = "committed"]
    /\ UNCHANGED <<tables, history>>

Commit(c) ==
    /\ At(c, "written")
    /\ LET row == call[c].row
       IN  /\ gateEvents' = IF row.table = "gate_events" THEN gateEvents \cup {row} ELSE gateEvents
           /\ events' = IF row.table = "events" THEN Append(events, row.event) ELSE events
           /\ lessons' = IF row.table = "lessons" THEN UpsertLesson(row.lesson) ELSE lessons
           /\ retros' = IF row.table = "retrospectives" THEN UpsertRetrospective(row.retro)
                                                        ELSE retros
    /\ writer' = None
    /\ call' = [call EXCEPT ![c].stage = "committed"]
    /\ UNCHANGED history

(* Mutated form: append_event returns the newest event there is.           *)
Return_NewestEvent(c) ==
    /\ At(c, "committed")
    /\ appended' = IF call[c].row.table = "events"
                      THEN appended \cup {[event_id |-> Len(events), event |-> call[c].row.event]}
                      ELSE appended
    /\ Done(c)
    /\ UNCHANGED <<tables, writer, calls, advanced, reported, lost>>

(* The call returns: ADVANCED, the record of the event, or nothing.        *)
Return(c) ==
    /\ At(c, "committed")
    /\ LET row == call[c].row
       IN  /\ advanced' = IF IsApproval(row) THEN [advanced EXCEPT ![row.key] = @ + 1] ELSE advanced
           /\ reported' = IF IsApproval(row) THEN reported \cup {row.key} ELSE reported
           /\ appended' = IF row.table = "events"
                             THEN appended \cup {[event_id |-> call[c].event_id, event |-> row.event]}
                             ELSE appended
    /\ Done(c)
    /\ UNCHANGED <<tables, writer, calls, lost>>

(* The process dies: its transaction is rolled back, its lock is gone.     *)
Die(c) ==
    /\ call[c] # None
    /\ writer' = IF writer = c THEN None ELSE writer
    /\ lost' = IF At(c, "committed") /\ IsApproval(call[c].row)
                  THEN lost \cup {call[c].row.key} ELSE lost
    /\ Done(c)
    /\ UNCHANGED <<tables, calls, advanced, reported, appended>>

(* Every caller is through with its calls.                                 *)
Rest ==
    /\ calls = MaxCalls
    /\ \A c \in Callers : call[c] = None
    /\ UNCHANGED vars

Next ==
    \/ \E c \in Callers, gate \in Gates, key \in Keys, pending \in Gates \cup {None} :
            \/ RecordAndAdvance(c, gate, key, pending)
            \/ IgnoreApproval(c, gate, pending)
    \/ \E c \in Callers, event \in Events : AppendEvent(c, event)
    \/ \E c \in Callers, lesson \in LessonRows : RecordLesson(c, lesson)
    \/ \E c \in Callers, retro \in Retros : RecordRetrospective(c, retro)
    \/ \E c \in Callers : Duplicate(c) \/ Insert(c) \/ DatabaseIsLocked(c) \/ Commit(c) \/ Return(c)
    \/ \E c \in Callers : Die(c)
    \/ Rest

Spec == Init /\ [][Next]_vars

-----------------------------------------------------------------------------
(* retrieve_lessons.                                                       *)

(* ORDER BY date DESC, lesson_id.                                          *)
Before(l, m) == l.date > m.date \/ (l.date = m.date /\ l.lesson_id < m.lesson_id)

(* The elements of a finite set, one after the other as the pairs say.     *)
(* (The provers can expand this, but not SortSeq and SelectSeq.)           *)
InOrder(S, pairs) ==
    [k \in 1..Cardinality(S) |->
        CHOOSE x \in S : Cardinality({y \in S : <<y, x>> \in pairs}) = k - 1]

(* SELECT ... WHERE status = ?                                             *)
ByStatus(status) ==
    LET rows == {l \in lessons : l.status = status}
    IN  InOrder(rows, {p \in rows \X rows : Before(p[1], p[2])})

Matches(lesson, query) ==
    /\ query.project_id # None => lesson.project_id = query.project_id
    /\ query.domain_tags # {} => query.domain_tags \cap lesson.domain_tags # {}

(* The lessons of a list that match, as they come.                         *)
Matching(seq, query) ==
    LET hits  == {i \in DOMAIN seq : Matches(seq[i], query)}
        order == InOrder(hits, {p \in hits \X hits : p[1] < p[2]})
    IN  [k \in DOMAIN order |-> seq[order[k]]]

FirstOf(seq, limit) ==
    SubSeq(seq, 1, IF limit < 0 THEN 0 ELSE IF limit < Len(seq) THEN limit ELSE Len(seq))

(* Mutated form: the limit is part of the SELECT.                          *)
RetrieveLessons_LimitFirst(query) ==
    Matching(FirstOf(ByStatus(query.status), query.limit), query)

(* The filters on project and tags, then the limit.                        *)
RetrieveLessons(query) ==
    FirstOf(Matching(ByStatus(query.status), query), query.limit)

-----------------------------------------------------------------------------
(* Properties                                                              *)

(* Every variable keeps its type, and the write lock is held by a call     *)
(* that has written and not yet committed.                                 *)
StateTypeOK ==
    /\ gateEvents \subseteq [table : {"gate_events"}, gate : Gates, key : Keys]
    /\ events \in Seq(Events)
    /\ lessons \subseteq LessonRows
    /\ retros \subseteq Retros
    /\ writer \in Callers \cup {None}
    /\ call \in [Callers -> Calls \cup {None}]
    /\ \A c \in Callers : At(c, "written") <=> writer = c
    /\ advanced \in [Keys -> Nat]
    /\ reported \subseteq Keys
    /\ lost \subseteq Keys
    /\ appended \subseteq [event_id : Nat, event : Events]

(* The call of c has recorded the key, and has yet to say so.              *)
Holds(c, key) ==
    /\ At(c, "committed")
    /\ IsApproval(call[c].row)
    /\ call[c].row.key = key

(* An approval advances its gate once: however often it is delivered, to   *)
(* however many callers at a time, and whatever was retried after an error *)
(* or a crash.  It may advance nothing at all only if its caller died      *)
(* after the commit (record_and_advance; ADR-0003 section 2).              *)
KeyAdvancesOnce ==
    \A key \in Keys :
        /\ advanced[key] <= 1
        /\ ( /\ IsRecorded(key)
             /\ key \notin lost
             /\ \A c \in Callers : ~ Holds(c, key) )
           => advanced[key] = 1

(* What a caller was told stands: a key reported ADVANCED or DUPLICATE is  *)
(* in the database, and no crash takes it away.  In particular DUPLICATE   *)
(* is never owed to an insert that is rolled back afterwards.              *)
VerdictsAreRecorded == \A key \in reported : IsRecorded(key)

(* append_event returns the event that was appended by this very call,     *)
(* under the id at which list_events will show it for ever after, whoever  *)
(* else appends at the same time.                                          *)
AppendsReturnTheirOwn ==
    \A record \in appended :
        /\ record.event_id \in DOMAIN events
        /\ events[record.event_id] = record.event

(* A lesson that is not surfaced is not due: whatever order lessons were   *)
(* recorded, changed or retracted in, a query returns the newest lessons   *)
(* that match it, newest first, and as many as it asks for.                *)
NewestLessonsSurface ==
    \A query \in Queries :
        LET found == RetrieveLessons(query)
            due   == {l \in lessons : l.status = query.status /\ Matches(l, query)}
        IN  /\ Range(found) \subseteq due
            /\ \A i, j \in DOMAIN found : i < j => Before(found[i], found[j])
            /\ due # Range(found) =>
                  /\ Len(found) >= query.limit
                  /\ \A l \in due \ Range(found), m \in Range(found) : Before(m, l)
=============================================================================
