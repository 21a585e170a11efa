------------------------ MODULE StateDatabaseProofs -------------------------
(***************************************************************************)
(* Proofs about StateDatabase, for every number of callers, keys, rows and *)
(* calls.  The right to advance a gate is a token: a key that is recorded  *)
(* has exactly one, and it is with the call that recorded it, or has been  *)
(* handed out, or died with a caller.  A key not recorded has none.  Last, *)
(* what a query of lessons returns, from what listing a set in order and   *)
(* filtering a list do to any set and any list.                            *)
(***************************************************************************)
EXTENDS StateDatabase, FiniteSetTheorems, TLAPS

(* Where the token of a key may be.                                        *)
Token(key) ==
    /\ advanced[key] \in {0, 1}
    /\ advanced[key] = 1 => IsRecorded(key) /\ key \notin lost
    /\ key \in lost => IsRecorded(key)
    /\ \A c \in Callers : Holds(c, key) =>
          IsRecorded(key) /\ advanced[key] = 0 /\ key \notin lost
    /\ \A c, d \in Callers : Holds(c, key) /\ Holds(d, key) => c = d
    /\ IsRecorded(key) =>
          advanced[key] = 1 \/ key \in lost \/ \E c \in Callers : Holds(c, key)

(* The key of an approval that is written and not committed is new.        *)
FreshKeys ==
    \A c \in Callers :
        At(c, "written") /\ IsApproval(call[c].row) => ~ IsRecorded(call[c].row.key)

TokenInv ==
    /\ StateTypeOK
    /\ \A key \in Keys : Token(key)
    /\ FreshKeys
    /\ VerdictsAreRecorded

-----------------------------------------------------------------------------
(* Types.                                                                  *)

(* The row of an approval has a gate and a key.                            *)
LEMMA ApprovalRow ==
    ASSUME NEW row \in Rows, IsApproval(row)
    PROVE  /\ row \in [table : {"gate_events"}, gate : Gates, key : Keys]
           /\ row.key \in Keys
BY DEF Rows, IsApproval

LEMMA EventRow ==
    ASSUME NEW row \in Rows, row.table = "events"
    PROVE  row.event \in Events
BY DEF Rows

LEMMA LessonRow ==
    ASSUME NEW row \in Rows, row.table = "lessons"
    PROVE  row.lesson \in LessonRows
BY DEF Rows

LEMMA RetroRow ==
    ASSUME NEW row \in Rows, row.table = "retrospectives"
    PROVE  row.retro \in Retros
BY DEF Rows

LEMMA CallType ==
    ASSUME StateTypeOK, NEW c \in Callers, call[c] # None
    PROVE  /\ call[c] \in Calls
           /\ call[c].row \in Rows
           /\ call[c].event_id \in Nat
BY DEF StateTypeOK, Calls

(* A call that moves on keeps its row.                                     *)
LEMMA Moved ==
    ASSUME NEW m \in Calls, NEW s \in {"called", "written", "committed"}, NEW n \in Nat
    PROVE  /\ [m EXCEPT !.stage = s] \in Calls
           /\ [m EXCEPT !.stage = s].stage = s
           /\ [m EXCEPT !.stage = s].row = m.row
           /\ [m EXCEPT !.stage = s, !.event_id = n] \in Calls
           /\ [m EXCEPT !.stage = s, !.event_id = n].stage = s
           /\ [m EXCEPT !.stage = s, !.event_id = n].row = m.row
           /\ [m EXCEPT !.stage = s, !.event_id = n].event_id = n
           /\ [m EXCEPT !.stage = s].event_id = m.event_id
BY DEF Calls

LEMMA TypesAtFirst == Init => StateTypeOK
BY StateAssumption DEF Init, StateTypeOK, At

(* What a new call, a call that moves on and a call that ends leave true.  *)
LEMMA TypesOfCall ==
    ASSUME StateTypeOK, NEW c \in Callers, NEW row \in Rows, Call(c, row)
    PROVE  StateTypeOK'
<1>1. [row |-> row, stage |-> "called", event_id |-> 0] \in Calls
  BY DEF Calls
<1>2. call' \in [Callers -> Calls \cup {None}]
  BY <1>1 DEF Call, StateTypeOK
<1>3. \A d \in Callers : At(d, "written")' <=> writer' = d
  <2>1. TAKE d \in Callers
  <2>2. CASE d = c
    BY <2>2, <1>1 DEF Call, StateTypeOK, At
  <2>3. CASE d # c
    BY <2>3 DEF Call, StateTypeOK, At
  <2>4. QED
    BY <2>2, <2>3
<1>4. QED
  BY <1>2, <1>3 DEF Call, StateTypeOK, tables

LEMMA TypesOfStep ==
    ASSUME StateTypeOK, [Next]_vars
    PROVE  StateTypeOK'
<1> USE StateAssumption, NoCallAssumption
<1>1. ASSUME NEW c \in Callers, NEW gate \in Gates, NEW key \in Keys,
             NEW pending \in Gates \cup {None}, RecordAndAdvance(c, gate, key, pending)
      PROVE  StateTypeOK'
  <2>1. [table |-> "gate_events", gate |-> gate, key |-> key] \in Rows
    BY DEF Rows
  <2>2. QED
    BY <2>1, <1>1, TypesOfCall DEF RecordAndAdvance
<1>2. ASSUME NEW c \in Callers, NEW gate \in Gates,
             NEW pending \in Gates \cup {None}, IgnoreApproval(c, gate, pending)
      PROVE  StateTypeOK'
  BY <1>2 DEF IgnoreApproval, StateTypeOK, At, tables
<1>3. ASSUME NEW c \in Callers, NEW event \in Events, AppendEvent(c, event)
      PROVE  StateTypeOK'
  <2>1. [table |-> "events", event |-> event] \in Rows
    BY DEF Rows
  <2>2. QED
    BY <2>1, <1>3, TypesOfCall DEF AppendEvent
<1>4. ASSUME NEW c \in Callers, NEW lesson \in LessonRows, RecordLesson(c, lesson)
      PROVE  StateTypeOK'
  <2>1. [table |-> "lessons", lesson |-> lesson] \in Rows
    BY DEF Rows
  <2>2. QED
    BY <2>1, <1>4, TypesOfCall DEF RecordLesson
<1>5. ASSUME NEW c \in Callers, NEW retro \in Retros, RecordRetrospective(c, retro)
      PROVE  StateTypeOK'
  <2>1. [table |-> "retrospectives", retro |-> retro] \in Rows
    BY DEF Rows
  <2>2. QED
    BY <2>1, <1>5, TypesOfCall DEF RecordRetrospective
<1>6. ASSUME NEW c \in Callers, Duplicate(c)
      PROVE  StateTypeOK'
  <2>1. call[c].row.key \in Keys
    BY <1>6, CallType, ApprovalRow DEF Duplicate, At
  <2>2. \A d \in Callers : At(d, "written")' <=> writer' = d
    BY <1>6 DEF Duplicate, Done, StateTypeOK, At
  <2>3. call' \in [Callers -> Calls \cup {None}]
    BY <1>6 DEF Duplicate, Done, StateTypeOK
  <2>4. QED
    BY <1>6, <2>1, <2>2, <2>3 DEF Duplicate, StateTypeOK, tables
<1>7. ASSUME NEW c \in Callers, Insert(c)
      PROVE  StateTypeOK'
  <2>1. call[c] \in Calls /\ Len(events) + 1 \in Nat
    BY <1>7, CallType DEF Insert, At, StateTypeOK
  <2>2. call' \in [Callers -> Calls \cup {None}]
    BY <1>7, <2>1, Moved DEF Insert, StateTypeOK
  <2>3. call'[c].stage = "written" /\ call'[c] # None
    <3>1. call'[c] = [call[c] EXCEPT !.stage = "written", !.event_id = Len(events) + 1]
      BY <1>7 DEF Insert, StateTypeOK
    <3>2. QED
      BY <2>1, <3>1 DEF Calls
  <2>4. \A d \in Callers : At(d, "written")' <=> writer' = d
    <3>1. TAKE d \in Callers
    <3>2. CASE d = c
      BY <1>7, <2>3, <3>2 DEF Insert, At
    <3>3. CASE d # c
      BY <1>7, <3>3 DEF Insert, StateTypeOK, At
    <3>4. QED
      BY <3>2, <3>3
  <2>5. QED
    BY <1>7, <2>2, <2>4 DEF Insert, StateTypeOK, tables, history
<1>8. ASSUME NEW c \in Callers, DatabaseIsLocked(c)
      PROVE  StateTypeOK'
  <2>1. \A d \in Callers : At(d, "written")' <=> writer' = d
    BY <1>8 DEF DatabaseIsLocked, Done, StateTypeOK, At
  <2>2. call' \in [Callers -> Calls \cup {None}]
    BY <1>8 DEF DatabaseIsLocked, Done, StateTypeOK
  <2>3. QED
    BY <1>8, <2>1, <2>2 DEF DatabaseIsLocked, StateTypeOK, tables, history
<1>9. ASSUME NEW c \in Callers, Commit(c)
      PROVE  StateTypeOK'
  <2>1. call[c] \in Calls /\ call[c].row \in Rows
    BY <1>9, CallType DEF Commit, At
  <2>2. call' \in [Callers -> Calls \cup {None}]
    BY <1>9, <2>1, Moved DEF Commit, StateTypeOK
  <2>3. \A d \in Callers : At(d, "written")' <=> writer' = d
    <3>1. call'[c].stage = "committed"
      BY <1>9, <2>1, Moved DEF Commit, StateTypeOK
    <3>2. \A d \in Callers : d # c => call'[d] = call[d]
      BY <1>9 DEF Commit, StateTypeOK
    <3>3. writer = c /\ writer' = None
      BY <1>9 DEF Commit, StateTypeOK
    <3>4. QED
      BY <3>1, <3>2, <3>3 DEF StateTypeOK, At
  <2>4. gateEvents' \subseteq [table : {"gate_events"}, gate : Gates, key : Keys]
    BY <1>9, <2>1, ApprovalRow DEF Commit, StateTypeOK, IsApproval
  <2>5. events' \in Seq(Events)
    BY <1>9, <2>1, EventRow DEF Commit, StateTypeOK
  <2>6. lessons' \subseteq LessonRows
    BY <1>9, <2>1, LessonRow DEF Commit, StateTypeOK, UpsertLesson
  <2>7. retros' \subseteq Retros
    BY <1>9, <2>1, RetroRow DEF Commit, StateTypeOK, UpsertRetrospective
  <2>8. QED
    BY <1>9, <2>2, <2>3, <2>4, <2>5, <2>6, <2>7 DEF Commit, StateTypeOK, history
<1>10. ASSUME NEW c \in Callers, Return(c)
      PROVE  StateTypeOK'
  <2>1. call[c] \in Calls /\ call[c].row \in Rows /\ call[c].event_id \in Nat
    BY <1>10, CallType DEF Return, At
  <2>2. call' \in [Callers -> Calls \cup {None}]
    BY <1>10 DEF Return, Done, StateTypeOK
  <2>3. \A d \in Callers : At(d, "written")' <=> writer' = d
    BY <1>10 DEF Return, Done, StateTypeOK, At
  <2>4. advanced' \in [Keys -> Nat] /\ reported' \subseteq Keys
    BY <1>10, <2>1, ApprovalRow DEF Return, StateTypeOK
  <2>5. appended' \subseteq [event_id : Nat, event : Events]
    BY <1>10, <2>1, EventRow DEF Return, StateTypeOK
  <2>6. QED
    BY <1>10, <2>2, <2>3, <2>4, <2>5 DEF Return, StateTypeOK, tables
<1>11. ASSUME NEW c \in Callers, Die(c)
      PROVE  StateTypeOK'
  <2>1. call[c] \in Calls /\ call[c].row \in Rows
    BY <1>11, CallType DEF Die
  <2>2. call' \in [Callers -> Calls \cup {None}]
    BY <1>11 DEF Die, Done, StateTypeOK
  <2>3. \A d \in Callers : At(d, "written")' <=> writer' = d
    BY <1>11 DEF Die, Done, StateTypeOK, At
  <2>4. lost' \subseteq Keys
    BY <1>11, <2>1, ApprovalRow DEF Die, StateTypeOK
  <2>5. QED
    BY <1>11, <2>2, <2>3, <2>4 DEF Die, StateTypeOK, tables
<1>12. CASE Rest \/ UNCHANGED vars
  BY <1>12 DEF Rest, vars, tables, history, StateTypeOK, At
<1>13. QED
  BY <1>1, <1>2, <1>3, <1>4, <1>5, <1>6, <1>7, <1>8, <1>9, <1>10, <1>11, <1>12 DEF Next

(* The tables, the lock and the calls keep their types (StateTypeOK).      *)
THEOREM StateTypeCorrect == Spec => []StateTypeOK
<1>1. StateTypeOK /\ [Next]_vars => StateTypeOK'
  BY TypesOfStep
<1>2. QED
  BY TypesAtFirst, <1>1, PTL DEF Spec

-----------------------------------------------------------------------------
(* The token.                                                              *)

LEMMA TokensAtFirst == Init => TokenInv
BY TypesAtFirst DEF Init, TokenInv, Token, FreshKeys, VerdictsAreRecorded, Holds, At, IsRecorded

(* A step that adds a call with nothing written, or drops one that held no *)
(* token, and touches neither gate_events nor what callers were told.      *)
LEMMA TokensUndisturbed ==
    ASSUME TokenInv, StateTypeOK',
           UNCHANGED <<gateEvents, advanced, lost>>,
           \A key \in reported' : key \in reported \/ IsRecorded(key),
           \A c \in Callers : At(c, "written")' => /\ At(c, "written")
                                                   /\ call'[c].row = call[c].row,
           \A c \in Callers : At(c, "committed")' <=> At(c, "committed"),
           \A c \in Callers : At(c, "committed") => call'[c].row = call[c].row
    PROVE  TokenInv'
<1>1. \A key : IsRecorded(key)' <=> IsRecorded(key)
  BY DEF IsRecorded
<1>2. \A c \in Callers, key \in Keys : Holds(c, key)' <=> Holds(c, key)
  BY DEF Holds
<1>3. \A key \in Keys : Token(key)'
  <2>1. TAKE key \in Keys
  <2>2. Token(key)
    BY DEF TokenInv
  <2>3. advanced'[key] = advanced[key] /\ lost' = lost
    OBVIOUS
  <2>4. QED
    BY <1>1, <1>2, <2>2, <2>3 DEF Token
<1>4. FreshKeys'
  BY <1>1 DEF TokenInv, FreshKeys
<1>5. VerdictsAreRecorded'
  BY <1>1 DEF TokenInv, VerdictsAreRecorded
<1>6. QED
  BY <1>3, <1>4, <1>5 DEF TokenInv

LEMMA TokensOfCall ==
    ASSUME TokenInv, StateTypeOK', NEW c \in Callers, NEW row \in Rows, Call(c, row)
    PROVE  TokenInv'
<1>1. \A d \in Callers : d # c => call'[d] = call[d]
  BY DEF Call, TokenInv, StateTypeOK
<1>2. call[c] = None /\ call'[c].stage = "called"
  BY DEF Call, TokenInv, StateTypeOK
<1>3. QED
  BY <1>1, <1>2, TokensUndisturbed DEF Call, tables, At

LEMMA TokensOfStep ==
    ASSUME TokenInv, [Next]_vars
    PROVE  TokenInv'
<1> USE StateAssumption, NoCallAssumption
<1>0. StateTypeOK /\ StateTypeOK'
  BY TypesOfStep DEF TokenInv
<1>1. ASSUME NEW c \in Callers, NEW gate \in Gates, NEW key \in Keys,
             NEW pending \in Gates \cup {None}, RecordAndAdvance(c, gate, key, pending)
      PROVE  TokenInv'
  <2>1. [table |-> "gate_events", gate |-> gate, key |-> key] \in Rows
    BY DEF Rows
  <2>2. QED
    BY <1>0, <2>1, <1>1, TokensOfCall DEF RecordAndAdvance
<1>2. ASSUME NEW c \in Callers, NEW gate \in Gates,
             NEW pending \in Gates \cup {None}, IgnoreApproval(c, gate, pending)
      PROVE  TokenInv'
  BY <1>0, <1>2, TokensUndisturbed DEF IgnoreApproval, tables, At
<1>3. ASSUME NEW c \in Callers, NEW event \in Events, AppendEvent(c, event)
      PROVE  TokenInv'
  <2>1. [table |-> "events", event |-> event] \in Rows
    BY DEF Rows
  <2>2. QED
    BY <1>0, <2>1, <1>3, TokensOfCall DEF AppendEvent
<1>4. ASSUME NEW c \in Callers, NEW lesson \in LessonRows, RecordLesson(c, lesson)
      PROVE  TokenInv'
  <2>1. [table |-> "lessons", lesson |-> lesson] \in Rows
    BY DEF Rows
  <2>2. QED
    BY <1>0, <2>1, <1>4, TokensOfCall DEF RecordLesson
<1>5. ASSUME NEW c \in Callers, NEW retro \in Retros, RecordRetrospective(c, retro)
      PROVE  TokenInv'
  <2>1. [table |-> "retrospectives", retro |-> retro] \in Rows
    BY DEF Rows
  <2>2. QED
    BY <1>0, <2>1, <1>5, TokensOfCall DEF RecordRetrospective
<1>6. ASSUME NEW c \in Callers, Duplicate(c)
      PROVE  TokenInv'
  <2>1. \A d \in Callers : d # c => call'[d] = call[d]
    BY <1>0, <1>6 DEF Duplicate, Done, StateTypeOK
  <2>2. call'[c] = None /\ call[c].stage = "called"
    BY <1>0, <1>6 DEF Duplicate, Done, StateTypeOK, At
  <2>3. \A key \in reported' : key \in reported \/ IsRecorded(key)
    BY <1>6 DEF Duplicate
  <2>4. QED
    BY <1>0, <1>6, <2>1, <2>2, <2>3, TokensUndisturbed DEF Duplicate, tables, At
<1>7. ASSUME NEW c \in Callers, Insert(c)
      PROVE  TokenInv'
  <2>1. call[c] \in Calls /\ Len(events) + 1 \in Nat
    BY <1>0, <1>7, CallType DEF Insert, At, StateTypeOK
  <2>2. call'[c] = [call[c] EXCEPT !.stage = "written", !.event_id = Len(events) + 1]
    BY <1>0, <1>7 DEF Insert, StateTypeOK
  <2>3. call'[c].stage = "written" /\ call'[c].row = call[c].row
    BY <2>1, <2>2 DEF Calls
  <2>4. \A d \in Callers : d # c => call'[d] = call[d]
    BY <1>0, <1>7 DEF Insert, StateTypeOK
  <2>5. UNCHANGED <<gateEvents, advanced, lost, reported>>
    BY <1>7 DEF Insert, tables, history
  <2>6. \A key : IsRecorded(key)' <=> IsRecorded(key)
    BY <2>5 DEF IsRecorded
  <2>7. \A d \in Callers, key \in Keys : Holds(d, key)' <=> Holds(d, key)
    BY <1>7, <2>3, <2>4 DEF Holds, At, Insert
  <2>8. \A key \in Keys : Token(key)'
    <3>1. TAKE key \in Keys
    <3>2. Token(key) /\ advanced'[key] = advanced[key] /\ lost' = lost
      BY <2>5 DEF TokenInv
    <3>3. QED
      BY <2>6, <2>7, <3>2 DEF Token
  <2>9. FreshKeys'
    BY <1>7, <2>3, <2>4, <2>6 DEF TokenInv, FreshKeys, Insert, At
  <2>10. VerdictsAreRecorded'
    BY <2>5, <2>6 DEF TokenInv, VerdictsAreRecorded
  <2>11. QED
    BY <1>0, <2>8, <2>9, <2>10 DEF TokenInv
<1>8. ASSUME NEW c \in Callers, DatabaseIsLocked(c)
      PROVE  TokenInv'
  <2>1. \A d \in Callers : d # c => call'[d] = call[d]
    BY <1>0, <1>8 DEF DatabaseIsLocked, Done, StateTypeOK
  <2>2. call'[c] = None /\ call[c].stage = "called"
    BY <1>0, <1>8 DEF DatabaseIsLocked, Done, StateTypeOK, At
  <2>3. QED
    BY <1>0, <1>8, <2>1, <2>2, TokensUndisturbed DEF DatabaseIsLocked, tables, history, At
<1>9. ASSUME NEW c \in Callers, Commit(c)
      PROVE  TokenInv'
  <2>1. call[c] \in Calls /\ call[c].row \in Rows
    BY <1>0, <1>9, CallType DEF Commit, At
  <2>2. call'[c] = [call[c] EXCEPT !.stage = "committed"]
    BY <1>0, <1>9 DEF Commit, StateTypeOK
  <2>3. call'[c] # None /\ call'[c].stage = "committed" /\ call'[c].row = call[c].row
    BY <2>1, <2>2 DEF Calls
  <2>4. \A d \in Callers : d # c => call'[d] = call[d]
    BY <1>0, <1>9 DEF Commit, StateTypeOK
  <2>5. UNCHANGED <<advanced, lost, reported>>
    BY <1>9 DEF Commit, history
  <2>6. At(c, "written") /\ \A d \in Callers : At(d, "written") => d = c
    BY <1>0, <1>9 DEF Commit, StateTypeOK
  <2>7. \A d \in Callers, key \in Keys : Holds(d, key)' <=>
            Holds(d, key) \/ (d = c /\ IsApproval(call[c].row) /\ call[c].row.key = key)
    BY <2>3, <2>4, <2>6 DEF Holds, At
  <2>8. CASE ~ IsApproval(call[c].row)
    <3>1. gateEvents' = gateEvents
      BY <1>9, <2>8 DEF Commit, IsApproval
    <3>2. \A key : IsRecorded(key)' <=> IsRecorded(key)
      BY <3>1 DEF IsRecorded
    <3>3. \A key \in Keys : Token(key)'
      <4>1. TAKE key \in Keys
      <4>2. Token(key) /\ advanced'[key] = advanced[key] /\ lost' = lost
        BY <2>5 DEF TokenInv
      <4>3. \A d \in Callers : Holds(d, key)' <=> Holds(d, key)
        BY <2>7, <2>8
      <4>4. QED
        BY <3>2, <4>2, <4>3 DEF Token
    <3>4. FreshKeys' /\ VerdictsAreRecorded'
      BY <2>3, <2>4, <2>5, <3>2 DEF TokenInv, FreshKeys, VerdictsAreRecorded, At
    <3>5. QED
      BY <1>0, <3>3, <3>4 DEF TokenInv
  <2>9. CASE IsApproval(call[c].row)
    <3>0. PICK new : new = call[c].row.key
      OBVIOUS
    <3>1. gateEvents' = gateEvents \cup {call[c].row}
      BY <1>9, <2>9 DEF Commit, IsApproval
    <3>2. \A key : IsRecorded(key)' <=> IsRecorded(key) \/ key = new
      BY <3>0, <3>1 DEF IsRecorded
    <3>3. new \in Keys /\ ~ IsRecorded(new)
      BY <2>1, <2>6, <2>9, <3>0, ApprovalRow DEF TokenInv, FreshKeys
    <3>4. ASSUME NEW key \in Keys, key # new
          PROVE  Token(key)'
      <4>1. Token(key) /\ advanced'[key] = advanced[key] /\ lost' = lost
        BY <2>5 DEF TokenInv
      <4>2. \A d \in Callers : Holds(d, key)' <=> Holds(d, key)
        BY <2>7, <3>0, <3>4
      <4>3. IsRecorded(key)' <=> IsRecorded(key)
        BY <3>2, <3>4
      <4>4. QED
        BY <4>1, <4>2, <4>3 DEF Token
    <3>5. Token(new)'
      <4>1. Token(new)
        BY <3>3 DEF TokenInv
      <4>2. advanced[new] = 0 /\ new \notin lost /\ \A d \in Callers : ~ Holds(d, new)
        BY <3>3, <4>1 DEF Token
      <4>3. \A d \in Callers : Holds(d, new)' <=> d = c
        BY <2>7, <2>9, <3>0, <3>3, <4>2
      <4>4. IsRecorded(new)'
        BY <3>2
      <4>5. advanced'[new] = 0 /\ new \notin lost'
        BY <2>5, <4>2
      <4>6. QED
        BY <4>3, <4>4, <4>5 DEF Token
    <3>6. FreshKeys'
      BY <2>3, <2>4, <2>6 DEF FreshKeys, At
    <3>7. VerdictsAreRecorded'
      BY <2>5, <3>2 DEF TokenInv, VerdictsAreRecorded
    <3>8. QED
      BY <1>0, <3>4, <3>5, <3>6, <3>7 DEF TokenInv
  <2>10. QED
    BY <2>8, <2>9
<1>10. ASSUME NEW c \in Callers, Return(c)
      PROVE  TokenInv'
  <2>1. call[c] \in Calls /\ call[c].row \in Rows /\ call[c] # None
    BY <1>0, <1>10, CallType DEF Return, At
  <2>2. call'[c] = None /\ \A d \in Callers : d # c => call'[d] = call[d]
    BY <1>0, <1>10 DEF Return, Done, StateTypeOK
  <2>3. \A key : IsRecorded(key)' <=> IsRecorded(key)
    BY <1>10 DEF Return, tables, IsRecorded
  <2>4. FreshKeys'
    BY <2>2, <2>3 DEF TokenInv, FreshKeys, At
  <2>5. \A d \in Callers, key \in Keys : Holds(d, key)' <=> d # c /\ Holds(d, key)
    BY <2>2 DEF Holds, At
  <2>6. lost' = lost
    BY <1>10 DEF Return
  <2>7. ASSUME NEW key \in Keys, ~ Holds(c, key)
        PROVE  Token(key)'
    <3>1. advanced'[key] = advanced[key]
      BY <1>0, <1>10, <2>7 DEF Return, Holds, StateTypeOK
    <3>2. Token(key)
      BY DEF TokenInv
    <3>3. \A d \in Callers : Holds(d, key)' <=> Holds(d, key)
      BY <2>5, <2>7
    <3>4. QED
      BY <2>3, <2>6, <3>1, <3>2, <3>3 DEF Token
  <2>8. ASSUME NEW key \in Keys, Holds(c, key)
        PROVE  Token(key)'
    <3>1. Token(key)
      BY DEF TokenInv
    <3>2. IsRecorded(key) /\ advanced[key] = 0 /\ key \notin lost
      BY <2>8, <3>1 DEF Token
    <3>3. advanced'[key] = 1
      BY <1>0, <1>10, <2>8, <3>2 DEF Return, Holds, StateTypeOK
    <3>4. \A d \in Callers : ~ Holds(d, key)'
      BY <2>5, <2>8, <3>1 DEF Token
    <3>5. QED
      BY <2>3, <2>6, <3>2, <3>3, <3>4 DEF Token
  <2>9. VerdictsAreRecorded'
    <3>1. \A key \in reported' : key \in reported \/ (key \in Keys /\ Holds(c, key))
      BY <1>10, <2>1, ApprovalRow DEF Return, Holds
    <3>2. \A key \in Keys : Holds(c, key) => IsRecorded(key)
      BY DEF TokenInv, Token
    <3>3. QED
      BY <2>3, <3>1, <3>2 DEF TokenInv, VerdictsAreRecorded
  <2>10. QED
    BY <1>0, <2>4, <2>7, <2>8, <2>9 DEF TokenInv
<1>11. ASSUME NEW c \in Callers, Die(c)
      PROVE  TokenInv'
  <2>1. call[c] \in Calls /\ call[c].row \in Rows
    BY <1>0, <1>11, CallType DEF Die
  <2>2. call'[c] = None /\ \A d \in Callers : d # c => call'[d] = call[d]
    BY <1>0, <1>11 DEF Die, Done, StateTypeOK
  <2>3. \A key : IsRecorded(key)' <=> IsRecorded(key)
    BY <1>11 DEF Die, tables, IsRecorded
  <2>4. FreshKeys'
    BY <2>2, <2>3 DEF TokenInv, FreshKeys, At
  <2>5. \A d \in Callers, key \in Keys : Holds(d, key)' <=> d # c /\ Holds(d, key)
    BY <2>2 DEF Holds, At
  <2>6. UNCHANGED <<advanced, reported>>
    BY <1>11 DEF Die
  <2>7. \A key \in Keys : key \in lost' <=> key \in lost \/ Holds(c, key)
    BY <1>11, <2>1, ApprovalRow DEF Die, Holds
  <2>8. ASSUME NEW key \in Keys
        PROVE  Token(key)'
    <3>1. Token(key)
      BY DEF TokenInv
    <3>2. CASE Holds(c, key)
      <4>1. IsRecorded(key) /\ advanced[key] = 0
        BY <3>1, <3>2 DEF Token
      <4>2. \A d \in Callers : ~ Holds(d, key)'
        BY <2>5, <3>1, <3>2 DEF Token
      <4>3. key \in lost'
        BY <2>7, <3>2
      <4>4. QED
        BY <2>3, <2>6, <4>1, <4>2, <4>3 DEF Token
    <3>3. CASE ~ Holds(c, key)
      <4>1. \A d \in Callers : Holds(d, key)' <=> Holds(d, key)
        BY <2>5, <3>3
      <4>2. key \in lost' <=> key \in lost
        BY <2>7, <3>3
      <4>3. QED
        BY <2>3, <2>6, <3>1, <4>1, <4>2 DEF Token
    <3>4. QED
      BY <3>2, <3>3
  <2>9. VerdictsAreRecorded'
    BY <2>3, <2>6 DEF TokenInv, VerdictsAreRecorded
  <2>10. QED
    BY <1>0, <2>4, <2>8, <2>9 DEF TokenInv
<1>12. CASE Rest \/ UNCHANGED vars
  BY <1>0, <1>12, TokensUndisturbed DEF Rest, vars, tables, history, At
<1>13. QED
  BY <1>1, <1>2, <1>3, <1>4, <1>5, <1>6, <1>7, <1>8, <1>9, <1>10, <1>11, <1>12 DEF Next

LEMMA TokenAlways == Spec => []TokenInv
<1>1. TokenInv /\ [Next]_vars => TokenInv'
  BY TokensOfStep
<1>2. QED
  BY TokensAtFirst, <1>1, PTL DEF Spec

(* However often and by however many callers an approval is delivered, it  *)
(* advances its gate at most once, and exactly once unless the caller that *)
(* recorded it died before it could say so (KeyAdvancesOnce).              *)
THEOREM ApprovalAdvancesOnce == Spec => []KeyAdvancesOnce
<1>1. TokenInv => KeyAdvancesOnce
  <2>1. ASSUME TokenInv, NEW key \in Keys
        PROVE  /\ advanced[key] <= 1
               /\ (IsRecorded(key) /\ key \notin lost /\ \A c \in Callers : ~ Holds(c, key))
                     => advanced[key] = 1
    <3>1. Token(key)
      BY <2>1 DEF TokenInv
    <3>2. QED
      BY <3>1 DEF Token
  <2>2. QED
    BY <2>1 DEF KeyAdvancesOnce
<1>2. QED
  BY TokenAlways, <1>1, PTL

LostStaysIdle == \A key \in lost : IsRecorded(key) /\ advanced[key] = 0

(* The price of the guard: an approval that was recorded by a call that    *)
(* died before it could say ADVANCED is taken up by nobody.  It stays      *)
(* recorded, every delivery of it from then on is a DUPLICATE, and its     *)
(* gate is not advanced by it, whoever retries and however often.          *)
THEOREM ALostApprovalStaysLost ==
    Spec => [][ \A key \in lost : /\ key \in lost'
                                  /\ IsRecorded(key)'
                                  /\ advanced[key] = 0 /\ advanced'[key] = 0 ]_vars
<1>1. ASSUME [Next]_vars
      PROVE  lost \subseteq lost'
  <2>1. ASSUME NEW c \in Callers, NEW row, Call(c, row) PROVE lost' = lost
    BY <2>1 DEF Call
  <2>2. ASSUME \/ \E c \in Callers, gate \in Gates, pending \in Gates \cup {None} :
                     \/ \E key \in Keys : RecordAndAdvance(c, gate, key, pending)
                     \/ IgnoreApproval(c, gate, pending)
               \/ \E c \in Callers, event \in Events : AppendEvent(c, event)
               \/ \E c \in Callers, lesson \in LessonRows : RecordLesson(c, lesson)
               \/ \E c \in Callers, retro \in Retros : RecordRetrospective(c, retro)
        PROVE  lost' = lost
    BY <2>1, <2>2 DEF RecordAndAdvance, IgnoreApproval, AppendEvent, RecordLesson, RecordRetrospective
  <2>3. ASSUME NEW c \in Callers,
               Duplicate(c) \/ Insert(c) \/ DatabaseIsLocked(c) \/ Commit(c) \/ Return(c)
        PROVE  lost' = lost
    BY <2>3 DEF Duplicate, Insert, DatabaseIsLocked, Commit, Return, history
  <2>4. ASSUME NEW c \in Callers, Die(c) PROVE lost \subseteq lost'
    BY <2>4 DEF Die
  <2>5. ASSUME Rest \/ UNCHANGED vars PROVE lost' = lost
    BY <2>5 DEF Rest, vars, history
  <2> QED
    BY <1>1, <2>2, <2>3, <2>4, <2>5 DEF Next
<1>2. ASSUME TokenInv, NEW key \in lost
      PROVE  IsRecorded(key) /\ advanced[key] = 0
  <2>1. key \in Keys
    BY <1>2 DEF TokenInv, StateTypeOK
  <2>2. Token(key)
    BY <1>2, <2>1 DEF TokenInv
  <2> QED
    BY <2>2 DEF Token
<1>3. TokenInv => LostStaysIdle
  BY <1>2 DEF LostStaysIdle
<1>4. TokenInv' => LostStaysIdle'
  BY <1>3, PTL
<1>5. TokenInv /\ TokenInv' /\ [Next]_vars =>
        [ \A key \in lost : /\ key \in lost'
                            /\ IsRecorded(key)'
                            /\ advanced[key] = 0 /\ advanced'[key] = 0 ]_vars
  BY <1>1, <1>3, <1>4 DEF LostStaysIdle
<1> QED
  BY TokenAlways, <1>5, PTL DEF Spec

(* A key reported ADVANCED or DUPLICATE is recorded (VerdictsAreRecorded). *)
THEOREM VerdictsStand == Spec => []VerdictsAreRecorded
<1>1. TokenInv => VerdictsAreRecorded
  BY DEF TokenInv
<1>2. QED
  BY TokenAlways, <1>1, PTL

-----------------------------------------------------------------------------
(* The event log.                                                          *)

(* A record shows the event that the log has under its id.                 *)
Shows(record) ==
    record.event_id \in DOMAIN events /\ events[record.event_id] = record.event

(* The id of an event that is written is the next one, since nobody else   *)
(* can append; an event that is committed is found under its id.           *)
AppendInv ==
    /\ StateTypeOK
    /\ AppendsReturnTheirOwn
    /\ \A c \in Callers :
          At(c, "written") => call[c].event_id = Len(events) + 1
    /\ \A c \in Callers :
          At(c, "committed") /\ call[c].row.table = "events" =>
              /\ call[c].event_id \in DOMAIN events
              /\ events[call[c].event_id] = call[c].row.event

(* A step that writes and commits nothing.                                 *)
LEMMA AppendsUndisturbed ==
    ASSUME AppendInv, StateTypeOK', events' = events,
           \A record \in appended' : record \in appended \/ Shows(record),
           \A c \in Callers : At(c, "written")' \/ At(c, "committed")' => call'[c] = call[c]
    PROVE  AppendInv'
<1>1. AppendsReturnTheirOwn'
  BY DEF AppendInv, AppendsReturnTheirOwn, Shows
<1>2. ASSUME NEW c \in Callers, At(c, "written")'
      PROVE  call'[c].event_id = Len(events') + 1
  BY <1>2 DEF AppendInv, At
<1>3. ASSUME NEW c \in Callers, At(c, "committed")', call'[c].row.table = "events"
      PROVE  /\ call'[c].event_id \in DOMAIN events'
             /\ events'[call'[c].event_id] = call'[c].row.event
  BY <1>3 DEF AppendInv, At
<1>4. QED
  BY <1>1, <1>2, <1>3 DEF AppendInv

LEMMA AppendsOfCall ==
    ASSUME AppendInv, StateTypeOK', NEW c \in Callers, NEW row, Call(c, row)
    PROVE  AppendInv'
<1>1. \A d \in Callers : d # c => call'[d] = call[d]
  BY DEF Call, AppendInv, StateTypeOK
<1>2. call'[c].stage = "called"
  BY DEF Call, AppendInv, StateTypeOK
<1>3. QED
  BY <1>1, <1>2, AppendsUndisturbed DEF Call, tables, At

LEMMA AppendsOfStep ==
    ASSUME AppendInv, [Next]_vars
    PROVE  AppendInv'
<1> USE StateAssumption, NoCallAssumption
<1>0. StateTypeOK /\ StateTypeOK'
  BY TypesOfStep DEF AppendInv
<1>1. ASSUME NEW c \in Callers, NEW row, Call(c, row)
      PROVE  AppendInv'
  BY <1>0, <1>1, AppendsOfCall
<1>2. ASSUME NEW c \in Callers, NEW gate \in Gates,
             NEW pending \in Gates \cup {None}, IgnoreApproval(c, gate, pending)
      PROVE  AppendInv'
  BY <1>0, <1>2, AppendsUndisturbed DEF IgnoreApproval, tables, At
<1>3. ASSUME NEW c \in Callers, Duplicate(c) \/ DatabaseIsLocked(c) \/ Die(c)
      PROVE  AppendInv'
  <2>1. call'[c] = None /\ \A d \in Callers : d # c => call'[d] = call[d]
    BY <1>0, <1>3 DEF Duplicate, DatabaseIsLocked, Die, Done, StateTypeOK
  <2>2. UNCHANGED <<events, appended>>
    BY <1>3 DEF Duplicate, DatabaseIsLocked, Die, tables, history
  <2>3. QED
    BY <1>0, <2>1, <2>2, AppendsUndisturbed DEF At
<1>4. ASSUME NEW c \in Callers, Insert(c)
      PROVE  AppendInv'
  <2>1. call[c] \in Calls /\ Len(events) + 1 \in Nat
    BY <1>0, <1>4, CallType DEF Insert, At, StateTypeOK
  <2>2. call'[c] = [call[c] EXCEPT !.stage = "written", !.event_id = Len(events) + 1]
    BY <1>0, <1>4 DEF Insert, StateTypeOK
  <2>3. call'[c].stage = "written" /\ call'[c].event_id = Len(events) + 1
    BY <2>1, <2>2 DEF Calls
  <2>4. \A d \in Callers : d # c => call'[d] = call[d]
    BY <1>0, <1>4 DEF Insert, StateTypeOK
  <2>5. UNCHANGED <<events, appended>>
    BY <1>4 DEF Insert, tables, history
  <2>6. AppendsReturnTheirOwn'
    BY <2>5 DEF AppendInv, AppendsReturnTheirOwn
  <2>7. QED
    BY <1>0, <2>3, <2>4, <2>5, <2>6 DEF AppendInv, At
<1>5. ASSUME NEW c \in Callers, Commit(c)
      PROVE  AppendInv'
  <2>1. call[c] \in Calls /\ call[c].row \in Rows
    BY <1>0, <1>5, CallType DEF Commit, At
  <2>2. call'[c] = [call[c] EXCEPT !.stage = "committed"]
    BY <1>0, <1>5 DEF Commit, StateTypeOK
  <2>3. /\ call'[c].stage = "committed"
        /\ call'[c].row = call[c].row
        /\ call'[c].event_id = call[c].event_id
    BY <2>1, <2>2 DEF Calls
  <2>4. \A d \in Callers : d # c => call'[d] = call[d] /\ ~ At(d, "written")
    BY <1>0, <1>5 DEF Commit, StateTypeOK
  <2>5. call[c].event_id = Len(events) + 1
    BY <1>5 DEF AppendInv, Commit
  <2>6. events \in Seq(Events) /\ appended' = appended
    BY <1>0, <1>5 DEF StateTypeOK, Commit, history
  <2>7. \A i \in DOMAIN events : i \in DOMAIN events' /\ events'[i] = events[i]
    <3>1. CASE call[c].row.table = "events"
      <4>1. events' = Append(events, call[c].row.event) /\ call[c].row.event \in Events
        BY <1>5, <2>1, <3>1, EventRow DEF Commit
      <4>2. QED
        BY <2>6, <4>1
    <3>2. CASE call[c].row.table # "events"
      BY <1>5, <3>2 DEF Commit
    <3>3. QED
      BY <3>1, <3>2
  <2>8. AppendsReturnTheirOwn'
    BY <2>6, <2>7 DEF AppendInv, AppendsReturnTheirOwn
  <2>9. ASSUME NEW d \in Callers, At(d, "committed")', call'[d].row.table = "events"
        PROVE  /\ call'[d].event_id \in DOMAIN events'
               /\ events'[call'[d].event_id] = call'[d].row.event
    <3>1. CASE d = c
      <4>1. events' = Append(events, call[c].row.event) /\ call[c].row.event \in Events
        BY <1>5, <2>1, <2>3, <2>9, <3>1, EventRow DEF Commit
      <4>2. QED
        BY <2>3, <2>5, <2>6, <3>1, <4>1
    <3>2. CASE d # c
      BY <2>4, <2>7, <2>9, <3>2 DEF AppendInv, At
    <3>3. QED
      BY <3>1, <3>2
  <2>10. ASSUME NEW d \in Callers, At(d, "written")'
         PROVE  FALSE
    BY <2>3, <2>4, <2>10 DEF At
  <2>11. QED
    BY <1>0, <2>8, <2>9, <2>10 DEF AppendInv
<1>6. ASSUME NEW c \in Callers, Return(c)
      PROVE  AppendInv'
  <2>1. call'[c] = None /\ \A d \in Callers : d # c => call'[d] = call[d]
    BY <1>0, <1>6 DEF Return, Done, StateTypeOK
  <2>2. events' = events
    BY <1>6 DEF Return, tables
  <2>3. \A record \in appended' : record \in appended \/ Shows(record)
    BY <1>6 DEF Return, Shows, AppendInv
  <2>4. QED
    BY <1>0, <2>1, <2>2, <2>3, AppendsUndisturbed DEF At
<1>7. CASE Rest \/ UNCHANGED vars
  BY <1>0, <1>7, AppendsUndisturbed DEF Rest, vars, tables, history, At
<1>8. QED
  BY <1>1, <1>2, <1>3, <1>4, <1>5, <1>6, <1>7
  DEF Next, RecordAndAdvance, AppendEvent, RecordLesson, RecordRetrospective

(* Every record that append_event returned shows, for ever after, what the *)
(* log has under its id (AppendsReturnTheirOwn).                           *)
THEOREM AppendedEventsStand == Spec => []AppendsReturnTheirOwn
<1>1. Init => AppendInv
  BY TypesAtFirst DEF Init, AppendInv, AppendsReturnTheirOwn, At
<1>2. AppendInv /\ [Next]_vars => AppendInv'
  BY AppendsOfStep
<1>3. AppendInv => AppendsReturnTheirOwn
  BY DEF AppendInv
<1>4. QED
  BY <1>1, <1>2, <1>3, PTL DEF Spec

-----------------------------------------------------------------------------
(* Lists in order.                                                         *)

Orders(pairs, S) ==
    /\ \A x \in S : <<x, x>> \notin pairs
    /\ \A x, y, z \in S : <<x, y>> \in pairs /\ <<y, z>> \in pairs => <<x, z>> \in pairs
    /\ \A x, y \in S : x = y \/ <<x, y>> \in pairs \/ <<y, x>> \in pairs

(* Every element of a finite set that is totally ordered has a rank of its *)
(* own, the number of those before it, and every rank is taken.            *)
LEMMA InOrderFacts ==
    ASSUME NEW S, IsFiniteSet(S), NEW pairs, Orders(pairs, S)
    PROVE  /\ Cardinality(S) \in Nat
           /\ InOrder(S, pairs) \in [1..Cardinality(S) -> S]
           /\ \A x \in S : \E k \in 1..Cardinality(S) : InOrder(S, pairs)[k] = x
           /\ \A j, k \in 1..Cardinality(S) :
                  j < k => <<InOrder(S, pairs)[j], InOrder(S, pairs)[k]>> \in pairs
<1> DEFINE n == Cardinality(S)
           below(x) == {y \in S : <<y, x>> \in pairs}
           rank == [x \in S |-> Cardinality(below(x))]
           f == InOrder(S, pairs)
<1>0. n \in Nat
  BY FS_CardinalityType
<1>1. ASSUME NEW x \in S
      PROVE  /\ IsFiniteSet(below(x)) /\ Cardinality(below(x)) \in Nat
             /\ rank[x] \in 0..(n - 1) /\ rank[x] \in Nat /\ rank[x] <= n - 1
  <2>1. below(x) \subseteq S \ {x}
    BY DEF Orders
  <2>2. IsFiniteSet(S \ {x}) /\ Cardinality(S \ {x}) = n - 1
    BY FS_RemoveElement
  <2>3. rank[x] = Cardinality(below(x))
    OBVIOUS
  <2> HIDE DEF below, rank, n
  <2>4. IsFiniteSet(below(x)) /\ Cardinality(below(x)) <= n - 1 /\ Cardinality(below(x)) \in Nat
    BY <2>1, <2>2, FS_Subset, FS_CardinalityType
  <2> QED
    BY <1>0, <2>3, <2>4
<1>2. ASSUME NEW x \in S, NEW y \in S, <<x, y>> \in pairs
      PROVE  rank[x] < rank[y]
  <2>1. below(x) \subseteq below(y) /\ x \in below(y) /\ x \notin below(x)
    BY <1>2 DEF Orders
  <2>2. rank[x] = Cardinality(below(x)) /\ rank[y] = Cardinality(below(y))
    OBVIOUS
  <2>3. /\ IsFiniteSet(below(y))
        /\ Cardinality(below(x)) \in Nat /\ Cardinality(below(y)) \in Nat
    BY <1>1
  <2> HIDE DEF below, rank
  <2>4. Cardinality(below(x)) <= Cardinality(below(y))
        /\ Cardinality(below(x)) # Cardinality(below(y))
    BY <2>1, <2>3, FS_Subset
  <2> QED
    BY <2>2, <2>3, <2>4
<1>3. rank \in Injection(S, 0..(n - 1))
  <2>1. rank \in [S -> 0..(n - 1)]
    BY <1>1
  <2> HIDE DEF rank, below, n, f
  <2>2. ASSUME NEW x \in S, NEW y \in S, rank[x] = rank[y] PROVE x = y
    <3>1. rank[x] \in Nat /\ rank[y] \in Nat
      BY <1>1
    <3>2. ~ (rank[x] < rank[y]) /\ ~ (rank[y] < rank[x])
      BY <2>2, <3>1
    <3> QED
      BY <1>2, <3>2 DEF Orders
  <2>3. \A x, y \in S : rank[x] = rank[y] => x = y
    BY <2>2
  <2> QED
    BY <2>1, <2>3 DEF Injection, IsInjective
<1>4. \A k \in 1..n : \E x \in S : rank[x] = k - 1
  <2>1. IsFiniteSet(0..(n - 1)) /\ Cardinality(0..(n - 1)) = n
    <3>1. 0 \in Int /\ n - 1 \in Int
      BY <1>0
    <3>2. /\ IsFiniteSet(0..(n - 1))
          /\ Cardinality(0..(n - 1)) = IF 0 > n - 1 THEN 0 ELSE (n - 1) - 0 + 1
      BY ONLY <3>1, FS_Interval
    <3> HIDE DEF n
    <3> QED
      BY <1>0, <3>2
  <2> HIDE DEF rank
  <2>2. rank \in Surjection(S, 0..(n - 1))
    BY <1>3, <2>1, FS_Injection
  <2> HIDE DEF n
  <2> QED
    BY <1>0, <2>2 DEF Surjection
<1>5. \A k \in 1..n : f[k] \in S /\ rank[f[k]] = k - 1
  <2> SUFFICES ASSUME NEW k \in 1..n PROVE f[k] \in S /\ rank[f[k]] = k - 1
    OBVIOUS
  <2>1. f[k] = CHOOSE x \in S : Cardinality(below(x)) = k - 1
    BY DEF InOrder
  <2>2. \E x \in S : Cardinality(below(x)) = k - 1
    BY <1>4
  <2>3. f[k] \in S /\ Cardinality(below(f[k])) = k - 1
    <3> HIDE DEF f, below, n
    <3> QED
      BY <2>1, <2>2
  <2> HIDE DEF f, below, n
  <2> QED
    BY <2>3
<1>6. f \in [1..n -> S]
  <2> DEFINE g(k) == CHOOSE x \in S : Cardinality(below(x)) = k - 1
  <2>1. f = [k \in 1..n |-> g(k)]
    BY DEF InOrder
  <2> HIDE DEF f, n, rank, g, below
  <2> QED
    BY <1>5, <2>1
<1> HIDE DEF rank, f, n
<1>7. ASSUME NEW x \in S PROVE \E k \in 1..n : f[k] = x
  <2>0. rank[x] \in Nat /\ rank[x] <= n - 1
    BY <1>1
  <2>1. rank[x] + 1 \in 1..n /\ (rank[x] + 1) - 1 = rank[x]
    BY <1>0, <2>0
  <2>2. f[rank[x] + 1] \in S /\ rank[f[rank[x] + 1]] = rank[x]
    BY <1>5, <2>1
  <2>3. f[rank[x] + 1] = x
    BY <1>3, <2>2 DEF Injection, IsInjective
  <2> QED
    BY <2>1, <2>3
<1>8. ASSUME NEW j \in 1..n, NEW k \in 1..n, j < k PROVE <<f[j], f[k]>> \in pairs
  <2>1. /\ f[j] \in S /\ f[k] \in S /\ rank[f[j]] = j - 1 /\ rank[f[k]] = k - 1
        /\ j \in Int /\ k \in Int
    BY <1>0, <1>5
  <2>2. f[j] # f[k] /\ ~ (rank[f[k]] < rank[f[j]])
    BY <1>8, <2>1
  <2> QED
    BY <1>2, <2>1, <2>2 DEF Orders
<1> QED
  BY <1>0, <1>6, <1>7, <1>8 DEF f, n

-----------------------------------------------------------------------------
(* The memory store.                                                       *)

(* A lesson id is in the table once, which makes the order of a query      *)
(* total.                                                                  *)
LessonsInv ==
    /\ StateTypeOK
    /\ IsFiniteSet(lessons)
    /\ \A l, m \in lessons : l.lesson_id = m.lesson_id => l = m

LEMMA LessonsOfStep ==
    ASSUME LessonsInv, [Next]_vars
    PROVE  LessonsInv'
<1>0. StateTypeOK /\ StateTypeOK'
  BY TypesOfStep DEF LessonsInv
<1>1. ASSUME NEW c \in Callers, Commit(c)
      PROVE  LessonsInv'
  <2>1. CASE call[c].row.table = "lessons"
    <3> DEFINE lesson == call[c].row.lesson
               kept == {old \in lessons : old.lesson_id # lesson.lesson_id}
    <3>1. lessons' = kept \cup {lesson}
      BY <1>1, <2>1 DEF Commit, UpsertLesson
    <3>2. IsFiniteSet(lessons')
      <4>1. IsFiniteSet(kept)
        BY FS_Subset DEF LessonsInv
      <4> QED
        BY <3>1, <4>1, FS_AddElement
    <3>3. \A l, m \in lessons' : l.lesson_id = m.lesson_id => l = m
      BY <3>1 DEF LessonsInv
    <3> QED
      BY <1>0, <3>2, <3>3 DEF LessonsInv
  <2>2. CASE call[c].row.table # "lessons"
    <3>1. lessons' = lessons
      BY <1>1, <2>2 DEF Commit
    <3> QED
      BY <1>0, <3>1 DEF LessonsInv
  <2> QED
    BY <2>1, <2>2
<1>2. ASSUME lessons' = lessons
      PROVE  LessonsInv'
  BY <1>0, <1>2 DEF LessonsInv
<1>3. (\E c \in Callers : Commit(c)) \/ lessons' = lessons
  BY DEF Next, RecordAndAdvance, IgnoreApproval, AppendEvent, RecordLesson, RecordRetrospective, Call,
         Duplicate, Insert, DatabaseIsLocked, Return, Die, Rest, vars, tables
<1> QED
  BY <1>1, <1>2, <1>3

LEMMA LessonType ==
    ASSUME StateTypeOK, NEW l \in lessons
    PROVE  l \in Lessons /\ l.date \in Nat /\ l.lesson_id \in Nat
<1>1. l \in Lessons
  BY StateAssumption DEF StateTypeOK
<1> QED
  BY <1>1 DEF Lessons

(* ORDER BY date DESC, lesson_id leaves no two lessons side by side.       *)
LEMMA BeforeIsAnOrder ==
    ASSUME LessonsInv, NEW S, S \subseteq lessons
    PROVE  Orders({p \in S \X S : Before(p[1], p[2])}, S)
<1> DEFINE pairs == {p \in S \X S : Before(p[1], p[2])}
<1>1. \A x, y \in S : <<x, y>> \in pairs <=> Before(x, y)
  OBVIOUS
<1>2. \A x \in S : x.date \in Nat /\ x.lesson_id \in Nat
  BY LessonType DEF LessonsInv
<1> HIDE DEF pairs
<1>3. \A x \in S : <<x, x>> \notin pairs
  BY <1>1, <1>2 DEF Before
<1>4. \A x, y, z \in S : <<x, y>> \in pairs /\ <<y, z>> \in pairs => <<x, z>> \in pairs
  BY <1>1, <1>2 DEF Before
<1>5. \A x, y \in S : x = y \/ <<x, y>> \in pairs \/ <<y, x>> \in pairs
  <2> SUFFICES ASSUME NEW x \in S, NEW y \in S, x # y
               PROVE  <<x, y>> \in pairs \/ <<y, x>> \in pairs
    OBVIOUS
  <2>1. x.lesson_id # y.lesson_id
    BY DEF LessonsInv
  <2>2. /\ x.date \in Nat /\ x.lesson_id \in Nat
        /\ y.date \in Nat /\ y.lesson_id \in Nat
    BY <1>2
  <2>3. Before(x, y) \/ Before(y, x)
    BY <2>1, <2>2 DEF Before
  <2> QED
    BY <1>1, <2>3
<1> QED
  BY <1>3, <1>4, <1>5 DEF Orders, pairs

(* A query reads the lessons of its status, each once and newest first.    *)
LEMMA ByStatusFacts ==
    ASSUME LessonsInv, NEW status
    PROVE  /\ \E n \in Nat : ByStatus(status) \in [1..n -> {l \in lessons : l.status = status}]
           /\ \A l \in lessons : l.status = status =>
                  \E k \in DOMAIN ByStatus(status) : ByStatus(status)[k] = l
           /\ \A j, k \in DOMAIN ByStatus(status) :
                  j < k => Before(ByStatus(status)[j], ByStatus(status)[k])
<1> DEFINE S == {l \in lessons : l.status = status}
           pairs == {p \in S \X S : Before(p[1], p[2])}
           f == InOrder(S, pairs)
           n == Cardinality(S)
<1>1. IsFiniteSet(S) /\ Orders(pairs, S)
  <2>1. S \subseteq lessons
    OBVIOUS
  <2>2. IsFiniteSet(S)
    BY <2>1, FS_Subset DEF LessonsInv
  <2> QED
    BY <2>1, <2>2, BeforeIsAnOrder
<1>2. ByStatus(status) = f
  BY DEF ByStatus
<1>3. \A p \in pairs : Before(p[1], p[2])
  OBVIOUS
<1>4. /\ n \in Nat /\ f \in [1..n -> S]
      /\ \A x \in S : \E k \in 1..n : f[k] = x
      /\ \A j, k \in 1..n : j < k => <<f[j], f[k]>> \in pairs
  <2> HIDE DEF S, pairs
  <2> QED
    BY <1>1, InOrderFacts
<1>5. \A j, k \in 1..n : j < k => Before(f[j], f[k])
  <2> SUFFICES ASSUME NEW j \in 1..n, NEW k \in 1..n, j < k PROVE Before(f[j], f[k])
    OBVIOUS
  <2>1. <<f[j], f[k]>> \in pairs
    BY <1>4
  <2> HIDE DEF f, pairs
  <2>2. Before(<<f[j], f[k]>>[1], <<f[j], f[k]>>[2])
    BY <1>3, <2>1
  <2> QED
    BY <2>2
<1>6. \A l \in lessons : l.status = status => l \in S
  OBVIOUS
<1>7. S = {l \in lessons : l.status = status}
  OBVIOUS
<1> HIDE DEF S, f, n, pairs
<1> QED
  BY <1>2, <1>4, <1>5, <1>6, <1>7

(* Filtering a list keeps its order, and every element that matches.       *)
Picks(list, seq, n, query) ==
    \E m \in Nat : \E pos \in [1..m -> 1..n] :
        /\ list = [k \in 1..m |-> seq[pos[k]]]
        /\ \A j, k \in 1..m : j < k => pos[j] < pos[k]
        /\ \A k \in 1..m : Matches(seq[pos[k]], query)
        /\ \A i \in 1..n : Matches(seq[i], query) => \E k \in 1..m : pos[k] = i

LEMMA MatchingFacts ==
    ASSUME NEW n \in Nat, NEW seq, seq = [i \in 1..n |-> seq[i]], NEW query \in Queries
    PROVE  Picks(Matching(seq, query), seq, n, query)
<1> DEFINE hits == {i \in DOMAIN seq : Matches(seq[i], query)}
           pairs == {p \in hits \X hits : p[1] < p[2]}
           pos == InOrder(hits, pairs)
           m == Cardinality(hits)
<1>1. hits \subseteq 1..n /\ IsFiniteSet(hits) /\ \A i \in hits : i \in Int
  <2>1. IsFiniteSet(1..n)
    BY FS_Interval
  <2>2. hits \subseteq 1..n
    OBVIOUS
  <2> QED
    BY <2>1, <2>2, FS_Subset
<1>2. \A i, j \in hits : <<i, j>> \in pairs <=> i < j
  OBVIOUS
<1>3. Orders(pairs, hits)
  <2> HIDE DEF pairs, hits
  <2> QED
    BY <1>1, <1>2 DEF Orders
<1>4. /\ m \in Nat /\ pos \in [1..m -> hits]
      /\ \A i \in hits : \E k \in 1..m : pos[k] = i
      /\ \A j, k \in 1..m : j < k => <<pos[j], pos[k]>> \in pairs
  <2> HIDE DEF hits, pairs
  <2> QED
    BY <1>1, <1>3, InOrderFacts
<1>5. Matching(seq, query) = [k \in DOMAIN pos |-> seq[pos[k]]]
  BY DEF Matching
<1>6. \A i \in 1..n : i \in hits <=> Matches(seq[i], query)
  OBVIOUS
<1> HIDE DEF hits, pairs, pos, m
<1>7. Matching(seq, query) = [k \in 1..m |-> seq[pos[k]]] /\ pos \in [1..m -> 1..n]
  BY <1>1, <1>4, <1>5
<1>8. \A j, k \in 1..m : j < k => pos[j] < pos[k]
  BY <1>2, <1>4
<1>9. \A k \in 1..m : Matches(seq[pos[k]], query)
  BY <1>1, <1>4, <1>6
<1>10. \A i \in 1..n : Matches(seq[i], query) => \E k \in 1..m : pos[k] = i
  BY <1>4, <1>6
<1> QED
  BY <1>4, <1>7, <1>8, <1>9, <1>10 DEF Picks

LEMMA FirstOfFacts ==
    ASSUME NEW m \in Nat, NEW seq, seq = [k \in 1..m |-> seq[k]], NEW limit \in Int
    PROVE  \E cut \in 0..m :
               /\ DOMAIN FirstOf(seq, limit) = 1..cut
               /\ Len(FirstOf(seq, limit)) = cut
               /\ \A k \in 1..cut : FirstOf(seq, limit)[k] = seq[k]
               /\ cut < m => cut >= limit
<1> DEFINE cut == IF limit < 0 THEN 0 ELSE IF limit < m THEN limit ELSE m
           S   == {seq[k] : k \in 1..m}
<1>1. seq \in Seq(S) /\ Len(seq) = m
  <2>1. seq \in [1..m -> S]
    OBVIOUS
  <2> HIDE DEF S
  <2> QED
    BY <2>1
<1>2. FirstOf(seq, limit) = SubSeq(seq, 1, cut)
  BY <1>1 DEF FirstOf
<1>3. cut \in 0..m /\ (cut < m => cut >= limit)
  OBVIOUS
<1> HIDE DEF cut
<1>4. /\ DOMAIN SubSeq(seq, 1, cut) = 1..cut
      /\ Len(SubSeq(seq, 1, cut)) = cut
      /\ \A k \in 1..cut : SubSeq(seq, 1, cut)[k] = seq[k]
  BY <1>1, <1>3
<1> QED
  BY <1>2, <1>3, <1>4

LEMMA QueriesAreAnswered == ASSUME LessonsInv PROVE NewestLessonsSurface
<1> SUFFICES ASSUME NEW query \in Queries
             PROVE  LET found == RetrieveLessons(query)
                        due   == {l \in lessons : l.status = query.status /\ Matches(l, query)}
                    IN  /\ Range(found) \subseteq due
                        /\ \A i, j \in DOMAIN found : i < j => Before(found[i], found[j])
                        /\ due # Range(found) =>
                              /\ Len(found) >= query.limit
                              /\ \A l \in due \ Range(found), m \in Range(found) : Before(m, l)
  BY DEF NewestLessonsSurface
<1> DEFINE S == {l \in lessons : l.status = query.status}
           rows == ByStatus(query.status)
           list == Matching(rows, query)
           found == RetrieveLessons(query)
           due == {l \in lessons : l.status = query.status /\ Matches(l, query)}
<1>1. query.limit \in Int
  BY StateAssumption DEF LessonQueries
<1>2. found = FirstOf(list, query.limit)
  BY DEF RetrieveLessons
<1>3. \A l : l \in due <=> l \in S /\ Matches(l, query)
  OBVIOUS
<1>4. PICK n \in Nat : rows \in [1..n -> S]
  BY ByStatusFacts
<1>5. /\ \A l \in S : \E k \in 1..n : rows[k] = l
      /\ \A j, k \in 1..n : j < k => Before(rows[j], rows[k])
  <2>1. DOMAIN rows = 1..n
    BY <1>4
  <2> QED
    BY <2>1, ByStatusFacts
<1> HIDE DEF S, rows, list, found, due
<1>6. PICK m \in Nat : \E pos \in [1..m -> 1..n] :
         /\ list = [k \in 1..m |-> rows[pos[k]]]
         /\ \A j, k \in 1..m : j < k => pos[j] < pos[k]
         /\ \A k \in 1..m : Matches(rows[pos[k]], query)
         /\ \A i \in 1..n : Matches(rows[i], query) => \E k \in 1..m : pos[k] = i
  <2>1. n \in Nat /\ rows = [i \in 1..n |-> rows[i]]
    BY <1>4
  <2>2. list = Matching(rows, query)
    BY DEF list
  <2>3. Picks(Matching(rows, query), rows, n, query)
    BY ONLY query \in Queries, <2>1, MatchingFacts
  <2> QED
    BY ONLY <2>2, <2>3 DEF Picks
<1>7. PICK pos \in [1..m -> 1..n] :
         /\ list = [k \in 1..m |-> rows[pos[k]]]
         /\ \A j, k \in 1..m : j < k => pos[j] < pos[k]
         /\ \A k \in 1..m : Matches(rows[pos[k]], query)
         /\ \A i \in 1..n : Matches(rows[i], query) => \E k \in 1..m : pos[k] = i
  BY <1>6
<1>8. /\ list \in [1..m -> S]
      /\ \A k \in 1..m : list[k] \in due
      /\ \A l \in due : \E k \in 1..m : list[k] = l
      /\ \A j, k \in 1..m : j < k => Before(list[j], list[k])
  <2>1. \A k \in 1..m : list[k] = rows[pos[k]] /\ pos[k] \in 1..n /\ rows[pos[k]] \in S
    BY <1>4, <1>7
  <2>2. list \in [1..m -> S]
    BY <1>7, <2>1
  <2>3. \A k \in 1..m : list[k] \in due
    BY <1>3, <1>7, <2>1
  <2>4. \A l \in due : \E k \in 1..m : list[k] = l
    BY <1>3, <1>5, <1>7, <2>1
  <2>5. \A j, k \in 1..m : j < k => Before(list[j], list[k])
    BY <1>5, <1>7, <2>1
  <2> QED
    BY <2>2, <2>3, <2>4, <2>5
<1>9. PICK cut \in 0..m :
         /\ DOMAIN found = 1..cut
         /\ Len(found) = cut
         /\ \A k \in 1..cut : found[k] = list[k]
         /\ cut < m => cut >= query.limit
  <2> DEFINE limit == query.limit
  <2>1. m \in Nat /\ list = [k \in 1..m |-> list[k]] /\ limit \in Int
    BY <1>1, <1>8
  <2> HIDE DEF limit
  <2>2. \E cut \in 0..m :
           /\ DOMAIN FirstOf(list, limit) = 1..cut
           /\ Len(FirstOf(list, limit)) = cut
           /\ \A k \in 1..cut : FirstOf(list, limit)[k] = list[k]
           /\ cut < m => cut >= limit
    BY ONLY <2>1, FirstOfFacts
  <2> QED
    BY ONLY <1>2, <2>2 DEF limit
<1>10. \A x : x \in Range(found) <=> \E k \in 1..cut : list[k] = x
  BY <1>9 DEF Range
<1>11. Range(found) \subseteq due
  BY <1>8, <1>10
<1>12. \A i, j \in DOMAIN found : i < j => Before(found[i], found[j])
  <2> SUFFICES ASSUME NEW i \in 1..cut, NEW j \in 1..cut, i < j PROVE Before(found[i], found[j])
    BY <1>9
  <2>1. i \in 1..m /\ j \in 1..m
    OBVIOUS
  <2> QED
    BY <1>8, <1>9, <2>1
<1>13. ASSUME NEW l \in due \ Range(found)
       PROVE  /\ cut < m
              /\ \A x \in Range(found) : Before(x, l)
  <2>1. PICK k \in 1..m : list[k] = l
    BY <1>8
  <2>2. k > cut
    BY <1>10, <2>1
  <2>3. ASSUME NEW x \in Range(found) PROVE Before(x, l)
    <3>1. PICK j \in 1..cut : list[j] = x
      BY <1>10
    <3>2. j \in 1..m /\ j < k
      BY <2>2
    <3> QED
      BY <1>8, <2>1, <3>1, <3>2
  <2> QED
    BY <2>2, <2>3
<1>14. due # Range(found) =>
          /\ Len(found) >= query.limit
          /\ \A l \in due \ Range(found), x \in Range(found) : Before(x, l)
  <2> SUFFICES ASSUME due # Range(found)
               PROVE  /\ Len(found) >= query.limit
                      /\ \A l \in due \ Range(found), x \in Range(found) : Before(x, l)
    OBVIOUS
  <2>1. PICK l : l \in due \ Range(found)
    BY <1>11
  <2> QED
    BY <1>9, <1>13, <2>1
<1> QED
  BY <1>11, <1>12, <1>14 DEF found, due

(* For every order in which lessons are recorded, changed and retracted,   *)
(* and for every query: what it returns matches it and comes newest first, *)
(* and what matches and is not returned is older than all of it, and       *)
(* beyond the limit (NewestLessonsSurface).                                *)
THEOREM NewestLessonsFirst == Spec => []NewestLessonsSurface
<1>1. Init => LessonsInv
  BY TypesAtFirst, FS_EmptySet DEF Init, LessonsInv
<1>2. LessonsInv /\ [Next]_vars => LessonsInv'
  BY LessonsOfStep
<1>3. LessonsInv => NewestLessonsSurface
  BY QueriesAreAnswered
<1> QED
  BY <1>1, <1>2, <1>3, PTL DEF Spec
=============================================================================
