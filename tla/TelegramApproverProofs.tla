----------------------- MODULE TelegramApproverProofs -----------------------
(***************************************************************************)
(* Proofs about TelegramApprover, for pages of every size and any number   *)
(* of messages, requests, errors and restarts.  The argument: once a gate  *)
(* is posted, nothing the server would still serve up to the cut carries a *)
(* text (StaleInv), every decision beyond the cut is still to be looked at *)
(* (FreshInv), and the page has no hole (PageInv).  It does not matter     *)
(* whether the drain ended because the queue was empty or because a page   *)
(* of updates without a text looked empty.                                 *)
(* Last: such a page, once it is full, is the end of the approver.         *)
(***************************************************************************)
EXTENDS TelegramApprover, FiniteSetTheorems, TLAPS

Posted == pc \in {"post", "poll"}

StaleInv ==
    Posted =>
        /\ \A k \in DOMAIN resolutions : resolutions[k].update <= cut
        /\ \A j \in ServedIds : j <= cut => ~ HasText(j)

FreshInv ==
    Posted => \A j \in DOMAIN updates :
                  cut < j /\ (j < offset \/ j < confirmed) => ~ Decides(j)

PageInv ==
    \A i \in page :
        /\ cut < i
        /\ HasText(i)
        /\ \A j \in DOMAIN updates : FirstServed <= j /\ j < i /\ HasText(j) => j \in page

(* What the decisions returned so far are worth.                           *)
Sound(r) ==
    /\ r.update \in DOMAIN updates
    /\ r.cut < r.update
    /\ Decides(r.update)
    /\ \A i \in (r.cut + 1)..(r.update - 1) : ~ Decides(i)

AnswerInv ==
    /\ \A k \in DOMAIN resolutions : Sound(resolutions[k])
    /\ \A k, n \in DOMAIN resolutions :
          k < n => resolutions[k].update < resolutions[n].update

ApproverInv == TypeOK /\ StaleInv /\ FreshInv /\ PageInv /\ AnswerInv

Resolutions == [ update : 1..MaxUpdates, request : 1..MaxRequests, cut : 0..MaxUpdates ]

-----------------------------------------------------------------------------
(* Facts about the updates.                                                *)

LEMMA DecisionsAreTexts == ASSUME NEW i, Decides(i) PROVE HasText(i)
BY DEF Decides, HasText, Verdicts

LEMMA FirstServedIsNat ==
    ASSUME TypeOK
    PROVE  /\ FirstServed \in 0..(Len(updates) + 1)
           /\ FirstServed >= offset /\ FirstServed >= confirmed
           /\ FirstServed \in {offset, confirmed}
           /\ FirstServed \in 1..(Len(updates) + 1)
           /\ Len(updates) \in Nat /\ DOMAIN updates = 1..Len(updates)
BY ApproverAssumption DEF TypeOK, FirstServed

(* A page is what is served and has a text.                                *)
LEMMA TextPageType ==
    ASSUME TypeOK
    PROVE  /\ TextPage \subseteq offset..Len(updates)
           /\ \A i \in TextPage : i \in Nat /\ i \in DOMAIN updates /\ FirstServed <= i
           /\ TextPage \subseteq ServedIds
BY FirstServedIsNat DEF TextPage, ServedIds, TypeOK

(* What was served stays what it was when somebody writes.                 *)
LEMMA UpdatesGrow ==
    ASSUME TypeOK, NEW m \in Messages, Send(m)
    PROVE  /\ Len(updates') = Len(updates) + 1
           /\ DOMAIN updates' = 1..(Len(updates) + 1)
           /\ updates' \in Seq([ msg : Messages, prompt : 0..MaxRequests ])
           /\ \A j \in DOMAIN updates : updates'[j] = updates[j]
BY ApproverAssumption DEF Send, TypeOK

LEMMA SameUpdates ==
    ASSUME UNCHANGED updates, NEW i
    PROVE  /\ HasText(i)' <=> HasText(i)
           /\ Decides(i)' <=> Decides(i)
BY DEF HasText, Decides

LEMMA SendKeepsTexts ==
    ASSUME TypeOK, NEW m \in Messages, Send(m), NEW i \in DOMAIN updates
    PROVE  /\ HasText(i)' <=> HasText(i)
           /\ Decides(i)' <=> Decides(i)
BY UpdatesGrow DEF HasText, Decides

-----------------------------------------------------------------------------
(* Types.                                                                  *)

LEMMA Bounds ==
    ASSUME TypeOK
    PROVE  /\ Len(updates) \in Nat /\ DOMAIN updates = 1..Len(updates)
           /\ Len(updates) <= MaxUpdates /\ MaxUpdates \in Nat
           /\ offset \in Nat /\ confirmed \in Nat /\ cut \in Nat /\ cut <= Len(updates)
           /\ PageLimit \in Nat /\ PageLimit > 0
<1>1. Len(updates) \in Nat /\ DOMAIN updates = 1..Len(updates) /\ Len(updates) <= MaxUpdates
  BY DEF TypeOK
<1>2. MaxUpdates \in Nat /\ PageLimit \in Nat /\ PageLimit > 0
  BY ApproverAssumption
<1>3. /\ offset \in 0..(Len(updates) + 1) /\ confirmed \in 1..(Len(updates) + 1)
      /\ cut \in 0..Len(updates)
  BY DEF TypeOK
<1>4. QED
  BY <1>1, <1>2, <1>3

LEMMA PageType ==
    ASSUME TypeOK, NEW i \in page
    PROVE  i \in Nat /\ i \in DOMAIN updates /\ offset <= i /\ pc = "poll"
<1>1. page \subseteq (offset..Len(updates)) \cap DOMAIN updates /\ (pc # "poll" => page = {})
  BY DEF TypeOK
<1>2. QED
  BY <1>1, Bounds

LEMMA ResolutionType ==
    ASSUME TypeOK, NEW k \in DOMAIN resolutions
    PROVE  k \in Nat /\ resolutions[k].update \in Nat /\ resolutions[k].cut \in Nat
<1>1. resolutions \in Seq(Resolutions)
  BY DEF TypeOK, Resolutions
<1>2. k \in Nat /\ resolutions[k] \in Resolutions
  BY <1>1
<1>3. MaxUpdates \in Nat
  BY ApproverAssumption
<1>4. QED
  BY <1>2, <1>3 DEF Resolutions

LEMMA TypesAtFirst == Init => TypeOK
BY ApproverAssumption DEF Init, TypeOK

LEMMA TypesAreKept ==
    ASSUME TypeOK, [Next]_vars
    PROVE  TypeOK'
<1> USE ApproverAssumption
<1> DEFINE U == [ msg : Messages, prompt : 0..MaxRequests ]
<1>0. /\ Len(updates) \in Nat /\ DOMAIN updates = 1..Len(updates)
      /\ updates \in Seq(U) /\ resolutions \in Seq(Resolutions)
      /\ requests \in Nat /\ MaxRequests \in Nat /\ MaxUpdates \in Nat /\ MaxFailures \in Nat
  BY DEF TypeOK, Resolutions
<1>1. ASSUME NEW m \in Messages, Send(m)
      PROVE  TypeOK'
  BY <1>0, <1>1, UpdatesGrow DEF TypeOK, Send, history
<1>2. CASE RequestApproval
  BY <1>0, <1>2 DEF TypeOK, RequestApproval, server
<1>3. CASE Drain
  <2>1. confirmed' \in 1..(Len(updates) + 1)
    BY <1>3, FirstServedIsNat DEF Drain
  <2>2. offset' \in 0..(Len(updates) + 1)
    <3>1. CASE UNCHANGED offset
      BY <3>1 DEF TypeOK
    <3>2. ASSUME NEW i \in TextPage, offset' = i + 1
          PROVE  offset' \in 0..(Len(updates) + 1)
      BY <3>2, <1>0, TextPageType
    <3>3. QED
      BY <1>3, <3>1, <3>2 DEF Drain
  <2>3. page' = page /\ page = {}
    BY <1>3 DEF Drain, TypeOK
  <2>4. pc' \in {"drain", "post"} /\ cut' \in 0..Len(updates)
    BY <1>0, <1>3 DEF Drain, TypeOK
  <2>5. QED
    BY <1>0, <1>3, <2>1, <2>2, <2>3, <2>4 DEF Drain, TypeOK
<1>4. CASE Post
  BY <1>0, <1>4 DEF TypeOK, Post, server
<1>5. CASE Poll
  <2>1. confirmed' \in 1..(Len(updates) + 1)
    BY <1>5, FirstServedIsNat DEF Poll
  <2>2. page' \subseteq offset..Len(updates)
    BY <1>5, TextPageType DEF Poll
  <2>3. QED
    BY <1>0, <1>5, <2>1, <2>2, TextPageType DEF TypeOK, Poll, history
<1>6. CASE Handle
  <2>1. PICK i \in page : IsFirst(i, page) /\ offset' = i + 1 /\ Examine(i)
    BY <1>6 DEF Handle
  <2>2. /\ i \in offset..Len(updates) /\ offset \in Nat /\ pc = "poll"
        /\ i \in DOMAIN updates
    BY <2>1, <1>0, PageType DEF TypeOK
  <2>3. offset' \in 0..(Len(updates) + 1)
    BY <2>1, <2>2, <1>0
  <2>4. CASE Decides(i)
    <3>1. /\ resolutions' = Append(resolutions,
                 [ update |-> i, request |-> requests, cut |-> cut ])
          /\ page' = {} /\ pc' = "idle"
      BY <2>1, <2>4 DEF Examine
    <3>2. i \in 1..MaxUpdates /\ cut \in 0..MaxUpdates
      BY <2>2, Bounds
    <3>3. requests \in 1..MaxRequests
      BY <1>0, <2>2 DEF TypeOK
    <3>4. resolutions' \in Seq(Resolutions)
      BY <1>0, <3>1, <3>2, <3>3 DEF Resolutions
    <3>5. QED
      BY <1>0, <1>6, <2>3, <3>1, <3>4 DEF TypeOK, Handle, server, Resolutions
  <2>5. CASE ~ Decides(i)
    <3>1. page' = page \ {i} /\ UNCHANGED <<resolutions, pc>>
      BY <2>1, <2>5 DEF Examine
    <3>2. page' \subseteq offset'..Len(updates)
      BY <2>1, <2>2, <3>1, <1>0 DEF TypeOK, IsFirst
    <3>3. QED
      BY <1>0, <1>6, <2>2, <2>3, <3>1, <3>2 DEF TypeOK, Handle, server
  <2>6. QED
    BY <2>4, <2>5
<1>7. CASE TransportError
  <2>1. confirmed' \in 1..(Len(updates) + 1)
    BY <1>7, FirstServedIsNat DEF TransportError, TypeOK
  <2>2. prompt' \in 0..requests
    BY <1>0, <1>7 DEF TransportError, TypeOK
  <2>3. QED
    BY <1>0, <1>7, <2>1, <2>2 DEF TransportError, TypeOK
<1>8. CASE Restart
  BY <1>0, <1>8 DEF TypeOK, Restart, server
<1>9. CASE UNCHANGED vars
  BY <1>9 DEF TypeOK, vars, server, history
<1>10. QED
  BY <1>1, <1>2, <1>3, <1>4, <1>5, <1>6, <1>7, <1>8, <1>9 DEF Next, Step

-----------------------------------------------------------------------------
(* The invariant.                                                          *)

(* The first of a page is the next text the server has.                    *)
LEMMA NothingBefore ==
    ASSUME ApproverInv, NEW i \in page, IsFirst(i, page)
    PROVE  /\ i \in DOMAIN updates /\ i \in Nat /\ cut < i /\ pc = "poll"
           /\ \A j \in DOMAIN updates : cut < j /\ j < i => ~ Decides(j)
<1>1. /\ i \in DOMAIN updates /\ i \in Nat /\ cut < i /\ pc = "poll" /\ offset <= i
  BY PageType DEF ApproverInv, PageInv
<1>2. ASSUME NEW j \in DOMAIN updates, cut < j, j < i
      PROVE  ~ Decides(j)
  <2>1. CASE j < offset \/ j < confirmed
    BY <1>1, <1>2, <2>1 DEF ApproverInv, FreshInv, Posted
  <2>2. CASE ~ (j < offset \/ j < confirmed)
    <3>1. j \notin page
      BY <1>1, <1>2, FirstServedIsNat DEF IsFirst, ApproverInv
    <3>2. FirstServed <= j
      BY <2>2, <1>1, FirstServedIsNat, Bounds DEF ApproverInv
    <3>3. ~ HasText(j)
      BY <1>2, <3>1, <3>2 DEF ApproverInv, PageInv
    <3>4. QED
      BY <3>3, DecisionsAreTexts
  <2>3. QED
    BY <2>1, <2>2
<1>3. QED
  BY <1>1, <1>2

LEMMA InvAtFirst == Init => ApproverInv
BY TypesAtFirst DEF Init, ApproverInv, StaleInv, FreshInv, PageInv, AnswerInv, Posted

LEMMA InvIsKept ==
    ASSUME ApproverInv, [Next]_vars
    PROVE  ApproverInv'
<1> USE ApproverAssumption
<1>0. TypeOK /\ TypeOK'
  BY TypesAreKept DEF ApproverInv
<1>00. /\ Len(updates) \in Nat /\ DOMAIN updates = 1..Len(updates)
       /\ offset \in Nat /\ confirmed \in Nat /\ cut \in Nat /\ FirstServed \in Nat
       /\ cut <= Len(updates) /\ PageLimit \in Nat /\ PageLimit > 0
  BY <1>0, Bounds, FirstServedIsNat
<1>1. ASSUME NEW m \in Messages, Send(m)
      PROVE  ApproverInv'
  <2>1. /\ UNCHANGED <<confirmed, offset, page, pc, cut, resolutions>>
        /\ FirstServed' = FirstServed
    BY <1>1 DEF Send, history, FirstServed
  <2>2. /\ DOMAIN updates' = 1..(Len(updates) + 1)
        /\ \A j \in DOMAIN updates : (HasText(j)' <=> HasText(j)) /\ (Decides(j)' <=> Decides(j))
    BY <1>0, <1>1, UpdatesGrow, SendKeepsTexts
  <2>3. StaleInv'
    <3>1. \A j \in ServedIds' : j <= cut => j \in ServedIds
      BY <2>1, <2>2, <1>00 DEF ServedIds
    <3>2. \A j \in ServedIds : j \in DOMAIN updates
      BY DEF ServedIds
    <3>3. QED
      BY <2>1, <2>2, <3>1, <3>2 DEF ApproverInv, StaleInv, Posted
  <2>4. FreshInv'
    <3>1. offset <= Len(updates) + 1 /\ confirmed <= Len(updates) + 1
      BY <1>0 DEF TypeOK
    <3>2. \A j \in DOMAIN updates' : j < offset \/ j < confirmed => j \in DOMAIN updates
      BY <2>2, <3>1, <1>00
    <3>3. QED
      BY <2>1, <2>2, <3>2 DEF ApproverInv, FreshInv, Posted
  <2>5. PageInv'
    <3>1. \A i \in page : i \in DOMAIN updates /\ i \in Nat
      BY <1>0, PageType
    <3>2. \A i \in page : \A j \in DOMAIN updates' : j < i => j \in DOMAIN updates
      BY <2>2, <3>1, <1>00
    <3>3. QED
      BY <2>1, <2>2, <3>1, <3>2 DEF ApproverInv, PageInv
  <2>6. AnswerInv'
    <3>1. ASSUME NEW k \in DOMAIN resolutions
          PROVE  Sound(resolutions[k])'
      <4> DEFINE r == resolutions[k]
      <4>1. Sound(r)
        BY DEF ApproverInv, AnswerInv
      <4>2. r.cut \in Nat
        BY <1>0, ResolutionType
      <4>3. \A i \in (r.cut + 1)..(r.update - 1) : i \in DOMAIN updates
        BY <4>1, <4>2, <1>00 DEF Sound
      <4>4. r' = r
        BY <2>1
      <4>5. Sound(r)'
        BY <4>1, <4>2, <4>3, <4>4, <2>2, <1>00 DEF Sound
      <4>6. QED
        BY <4>5
    <3>2. QED
      BY <2>1, <3>1 DEF ApproverInv, AnswerInv
  <2>7. QED
    BY <1>0, <2>3, <2>4, <2>5, <2>6 DEF ApproverInv
<1>2. CASE RequestApproval
  BY <1>0, <1>2, SameUpdates
  DEF RequestApproval, server, ApproverInv, StaleInv, FreshInv, PageInv, AnswerInv, Posted,
      TypeOK, Sound
<1>3. CASE Drain
  <2>1. UNCHANGED <<updates, page, resolutions>> /\ confirmed' = FirstServed /\ page = {}
    BY <1>3, <1>0 DEF Drain, TypeOK
  <2>2. PageInv' /\ AnswerInv'
    BY <2>1, SameUpdates DEF ApproverInv, PageInv, AnswerInv, Sound
  <2>3. StaleInv' /\ FreshInv'
    <3>1. CASE /\ TextPage = {} /\ pc' = "post" /\ cut' = Len(updates) /\ UNCHANGED offset
      <4>1. FirstServed' = FirstServed
        BY <2>1, <3>1, <1>00 DEF FirstServed
      <4>2. ServedIds' = ServedIds
        BY <2>1, <4>1 DEF ServedIds
      <4>3. \A j \in ServedIds : ~ HasText(j)
        BY <3>1 DEF TextPage
      <4>4. \A k \in DOMAIN resolutions : resolutions[k].update <= Len(updates)
        BY <1>00 DEF ApproverInv, AnswerInv, Sound
      <4>5. \A j \in DOMAIN updates : ~ (Len(updates) < j)
        BY <1>00
      <4>6. QED
        BY <2>1, <3>1, <4>2, <4>3, <4>4, <4>5, SameUpdates DEF StaleInv, FreshInv
    <3>2. CASE UNCHANGED <<pc, cut>> /\ pc = "drain"
      BY <3>2 DEF StaleInv, FreshInv, Posted
    <3>3. QED
      BY <1>3, <3>1, <3>2 DEF Drain
  <2>4. QED
    BY <1>0, <2>2, <2>3 DEF ApproverInv
<1>4. CASE Post
  <2>1. UNCHANGED <<updates, confirmed, offset, page, cut, resolutions>> /\ Posted
    BY <1>4 DEF Post, server, Posted
  <2>2. FirstServed' = FirstServed /\ ServedIds' = ServedIds
    BY <2>1 DEF FirstServed, ServedIds
  <2>3. QED
    BY <1>0, <2>1, <2>2, SameUpdates
    DEF ApproverInv, StaleInv, FreshInv, PageInv, AnswerInv, Sound
<1>5. CASE Poll
  <2>1. /\ UNCHANGED <<updates, offset, pc, cut, resolutions>> /\ Posted
        /\ confirmed' = FirstServed /\ page' = TextPage
    BY <1>5 DEF Poll, history, Posted
  <2>2. FirstServed' = FirstServed
    BY <2>1, <1>00 DEF FirstServed
  <2>3. ServedIds' = ServedIds
    BY <2>1, <2>2 DEF ServedIds
  <2>4. StaleInv' /\ AnswerInv'
    BY <2>1, <2>3, SameUpdates DEF ApproverInv, StaleInv, AnswerInv, Sound
  <2>5. FreshInv'
    BY <2>1, <1>0, FirstServedIsNat, SameUpdates DEF ApproverInv, FreshInv
  <2>6. PageInv'
    <3>1. ASSUME NEW i \in TextPage
          PROVE  /\ cut < i
                 /\ HasText(i)
                 /\ \A j \in DOMAIN updates : FirstServed <= j /\ j < i /\ HasText(j)
                        => j \in TextPage
      <4>1. i \in ServedIds /\ HasText(i) /\ i \in Nat /\ i \in DOMAIN updates
        BY <1>0, TextPageType DEF TextPage
      <4>2. cut < i
        BY <4>1, <2>1, <1>00 DEF ApproverInv, StaleInv
      <4>3. ASSUME NEW j \in DOMAIN updates, FirstServed <= j, j < i, HasText(j)
            PROVE  j \in TextPage
        BY <4>1, <4>3, <1>00 DEF TextPage, ServedIds
      <4>4. QED
        BY <4>1, <4>2, <4>3
    <3>2. QED
      BY <2>1, <2>2, <3>1, SameUpdates DEF PageInv
  <2>7. QED
    BY <1>0, <2>4, <2>5, <2>6 DEF ApproverInv
<1>6. CASE Handle
  <2>1. PICK i \in page : IsFirst(i, page) /\ offset' = i + 1 /\ Examine(i)
    BY <1>6 DEF Handle
  <2>2. /\ i \in DOMAIN updates /\ i \in Nat /\ cut < i /\ pc = "poll"
        /\ \A j \in DOMAIN updates : cut < j /\ j < i => ~ Decides(j)
    BY <2>1, NothingBefore
  <2>3. UNCHANGED <<updates, confirmed, cut, requests>>
    BY <1>6 DEF Handle, server
  <2>4. CASE Decides(i)
    <3> DEFINE r == [ update |-> i, request |-> requests, cut |-> cut ]
    <3>1. resolutions' = Append(resolutions, r) /\ page' = {} /\ pc' = "idle"
      BY <2>1, <2>4 DEF Examine
    <3>2. StaleInv' /\ FreshInv' /\ PageInv'
      BY <3>1 DEF StaleInv, FreshInv, PageInv, Posted
    <3>3. resolutions \in Seq(Resolutions) /\ Len(resolutions) \in Nat
      BY <1>0 DEF TypeOK, Resolutions
    <3>4. /\ DOMAIN resolutions' = 1..(Len(resolutions) + 1)
          /\ DOMAIN resolutions = 1..Len(resolutions)
          /\ \A k \in DOMAIN resolutions : resolutions'[k] = resolutions[k]
          /\ resolutions'[Len(resolutions) + 1] = r
      BY <3>1, <3>3
    <3>5. Sound(r)
      <4>1. \A j \in (cut + 1)..(i - 1) : j \in DOMAIN updates /\ cut < j /\ j < i
        BY <2>2, <1>00
      <4>2. QED
        BY <2>2, <2>4, <4>1 DEF Sound
    <3>6. ASSUME NEW k \in DOMAIN resolutions
          PROVE  /\ Sound(resolutions'[k])
                 /\ resolutions[k].update < i
      <4>1. resolutions[k].update <= cut
        BY <2>2 DEF ApproverInv, StaleInv, Posted
      <4>2. resolutions[k].update \in Nat
        BY <1>0, ResolutionType
      <4>3. QED
        BY <2>2, <3>4, <4>1, <4>2, <1>00 DEF ApproverInv, AnswerInv
    <3>7. \A k \in DOMAIN resolutions' : Sound(resolutions'[k])
      BY <3>3, <3>4, <3>5, <3>6
    <3>8. \A k \in DOMAIN resolutions' : Sound(resolutions[k])'
      BY <3>7, <2>3, SameUpdates DEF Sound
    <3>9. \A k, n \in DOMAIN resolutions' :
             k < n => resolutions'[k].update < resolutions'[n].update
      <4>1. SUFFICES ASSUME NEW k \in DOMAIN resolutions', NEW n \in DOMAIN resolutions', k < n
                     PROVE  resolutions'[k].update < resolutions'[n].update
        OBVIOUS
      <4>2. k \in DOMAIN resolutions
        BY <4>1, <3>3, <3>4
      <4>3. CASE n \in DOMAIN resolutions
        BY <4>1, <4>2, <4>3, <3>4 DEF ApproverInv, AnswerInv
      <4>4. CASE n = Len(resolutions) + 1
        BY <4>2, <4>4, <3>4, <3>6
      <4>5. QED
        BY <4>1, <4>3, <4>4, <3>3, <3>4
    <3>10. QED
      BY <1>0, <3>2, <3>8, <3>9 DEF ApproverInv, AnswerInv
  <2>5. CASE ~ Decides(i)
    <3>1. page' = page \ {i} /\ UNCHANGED <<resolutions, pc>>
      BY <2>1, <2>5 DEF Examine
    <3>2. i < FirstServed' /\ FirstServed' \in Nat
      BY <2>1, <2>2, <2>3, <1>00 DEF FirstServed
    <3>3. FirstServed <= FirstServed'
      <4>1. offset <= i
        BY <2>2, <1>0, <1>00 DEF TypeOK
      <4>2. QED
        BY <4>1, <2>1, <2>2, <2>3, <1>00 DEF FirstServed
    <3>4. StaleInv'
      <4>1. \A j \in ServedIds' : j \in Nat /\ ~ (j <= cut)
        BY <2>2, <2>3, <3>2, <1>00 DEF ServedIds
      <4>2. QED
        BY <2>2, <2>3, <3>1, <4>1 DEF ApproverInv, StaleInv, Posted
    <3>5. FreshInv'
      <4>1. ASSUME NEW j \in DOMAIN updates, cut < j, j < i + 1 \/ j < confirmed
            PROVE  ~ Decides(j)
        <5>1. CASE j < confirmed
          BY <5>1, <4>1, <2>2 DEF ApproverInv, FreshInv, Posted
        <5>2. CASE j < i + 1
          <6>1. j < i \/ j = i
            BY <5>2, <2>2, <1>00
          <6>2. QED
            BY <6>1, <4>1, <2>2, <2>5
        <5>3. QED
          BY <4>1, <5>1, <5>2
      <4>2. QED
        BY <2>1, <2>3, <4>1, SameUpdates DEF FreshInv
    <3>6. PageInv'
      <4>1. ASSUME NEW p \in page', NEW j \in DOMAIN updates, FirstServed' <= j, j < p, HasText(j)
            PROVE  j \in page'
        <5>1. FirstServed <= j /\ j # i
          BY <4>1, <3>2, <3>3, <2>2, <1>00
        <5>2. j \in page
          BY <4>1, <5>1, <3>1 DEF ApproverInv, PageInv
        <5>3. QED
          BY <5>1, <5>2, <3>1
      <4>2. \A p \in page' : cut < p /\ HasText(p)
        BY <3>1 DEF ApproverInv, PageInv
      <4>3. QED
        BY <2>3, <4>1, <4>2, SameUpdates DEF PageInv
    <3>7. AnswerInv'
      BY <2>3, <3>1, SameUpdates DEF ApproverInv, AnswerInv, Sound
    <3>8. QED
      BY <1>0, <3>4, <3>5, <3>6, <3>7 DEF ApproverInv
  <2>6. QED
    BY <2>4, <2>5
<1>7. CASE TransportError
  <2>1. UNCHANGED <<updates, page, resolutions>> /\ pc' = "idle" /\ page = {}
    BY <1>7 DEF TransportError
  <2>2. QED
    BY <1>0, <2>1, SameUpdates
    DEF ApproverInv, StaleInv, FreshInv, PageInv, AnswerInv, Sound, Posted
<1>8. CASE Restart
  <2>1. UNCHANGED <<updates, resolutions>> /\ pc' = "idle" /\ page' = {}
    BY <1>8 DEF Restart, server
  <2>2. QED
    BY <1>0, <2>1, SameUpdates
    DEF ApproverInv, StaleInv, FreshInv, PageInv, AnswerInv, Sound, Posted
<1>9. CASE UNCHANGED vars
  <2>1. UNCHANGED <<updates, confirmed, offset, page, pc, cut, resolutions>>
    BY <1>9 DEF vars, server, history
  <2>2. FirstServed' = FirstServed /\ ServedIds' = ServedIds
    BY <2>1 DEF FirstServed, ServedIds
  <2>3. QED
    BY <1>0, <2>1, <2>2, SameUpdates
    DEF ApproverInv, StaleInv, FreshInv, PageInv, AnswerInv, Sound, Posted
<1>10. QED
  BY <1>1, <1>2, <1>3, <1>4, <1>5, <1>6, <1>7, <1>8, <1>9 DEF Next, Step

LEMMA ApproverInvariant == Spec => []ApproverInv
BY InvAtFirst, InvIsKept, PTL DEF Spec

-----------------------------------------------------------------------------
(* The theorems.                                                           *)

(* The state has its types: what is polled lies between the offset and the *)
(* newest update, and only a loop that polls has a page (approver.py).     *)
THEOREM ApproverTypes == Spec => []TypeOK
BY ApproverInvariant, PTL DEF ApproverInv

(* A reply resolves one gate at most, through errors and restarts.         *)
THEOREM RepliesAreUsedOnce == Spec => []OneReplyOneGate
<1>1. ApproverInv => OneReplyOneGate
  <2>1. ASSUME ApproverInv, NEW k \in DOMAIN resolutions, NEW n \in DOMAIN resolutions,
               resolutions[k].update = resolutions[n].update
        PROVE  k = n
    <3>1. /\ k \in Nat /\ n \in Nat
          /\ resolutions[k].update \in Nat /\ resolutions[n].update \in Nat
      BY <2>1, ResolutionType DEF ApproverInv
    <3>2. ~ (k < n) /\ ~ (n < k)
      BY <2>1, <3>1 DEF ApproverInv, AnswerInv
    <3>3. QED
      BY <3>1, <3>2
  <2>2. QED
    BY <2>1 DEF OneReplyOneGate
<1>2. QED
  BY <1>1, ApproverInvariant, PTL

(* No reply the drain could see resolves the gate that is posted after it. *)
THEOREM StaleRepliesAreIgnored == Spec => []StaleRepliesIgnored
<1>1. ApproverInv => StaleRepliesIgnored
  BY DEF ApproverInv, AnswerInv, Sound, StaleRepliesIgnored, Resolved, Range
<1>2. QED
  BY <1>1, ApproverInvariant, PTL

(* The operator's first decision beyond the cut is the one that counts.    *)
THEOREM TheFirstReplyWins == Spec => []FirstReplyWins
<1>1. ApproverInv => FirstReplyWins
  BY DEF ApproverInv, AnswerInv, Sound, FirstReplyWins, Resolved, Range
<1>2. QED
  BY <1>1, ApproverInvariant, PTL

-----------------------------------------------------------------------------
(* The approver implements the port.                                       *)

Said == [i \in DOMAIN updates |-> IF Decides(i) THEN updates[i].msg.text ELSE "none"]
Answers == [k \in DOMAIN resolutions |->
               [ request |-> resolutions[k].request, reply |-> resolutions[k].update ]]
Saying == Port!Decisions \cup {Port!NoDecision}

LEMMA SaidType == TypeOK => Said \in Seq(Saying) /\ Len(Said) = Len(updates)
<1>1. ASSUME TypeOK
      PROVE  Said \in [1..Len(updates) -> Saying]
  BY <1>1, Bounds DEF Said, Saying, Port!Decisions, Port!NoDecision, Decides, Verdicts
<1>2. QED
  BY <1>1, Bounds

LEMMA AnswersAreSeq ==
    ASSUME TypeOK
    PROVE  /\ DOMAIN Answers = 1..Len(resolutions) /\ Len(resolutions) \in Nat
           /\ DOMAIN resolutions = 1..Len(resolutions)
           /\ Answers \in Seq([ request : Nat, reply : Nat ])
           /\ Len(Answers) = Len(resolutions)
<1>1. resolutions \in Seq(Resolutions)
  BY DEF TypeOK, Resolutions
<1>2. /\ MaxUpdates \in Nat /\ MaxRequests \in Nat
      /\ \A k \in DOMAIN resolutions : resolutions[k] \in Resolutions
  BY <1>1, ApproverAssumption
<1>3. \A k \in DOMAIN resolutions :
          resolutions[k].request \in Nat /\ resolutions[k].update \in Nat
  BY <1>2 DEF Resolutions
<1>4. Answers \in [1..Len(resolutions) -> [ request : Nat, reply : Nat ]]
  BY <1>1, <1>3 DEF Answers
<1>5. QED
  BY <1>1, <1>4 DEF Answers

(* A message is a decision of somebody who may decide, or none.            *)
LEMMA SendSays ==
    ASSUME TypeOK, NEW m \in Messages, Send(m)
    PROVE  Port!Say
<1>0. PICK n \in Nat : n = Len(updates) + 1
  BY Bounds
<1>1. PICK said \in Saying :
          said = IF Decides(n)' THEN updates'[n].msg.text ELSE "none"
  <2>1. Decides(n)' => updates'[n].msg.text \in Verdicts
    BY DEF Decides
  <2>2. Verdicts \subseteq Saying /\ "none" \in Saying
    BY DEF Saying, Port!Decisions, Port!NoDecision, Verdicts
  <2>3. QED
    BY <2>1, <2>2
<1>2. Said' = Append(Said, said)
  <2>1. Said' = [i \in 1..n |-> IF Decides(i)' THEN updates'[i].msg.text ELSE "none"]
    BY <1>0, UpdatesGrow DEF Said
  <2>2. \A i \in DOMAIN updates : i \in 1..n /\ Said'[i] = Said[i]
    BY <1>0, <2>1, Bounds, UpdatesGrow, SendKeepsTexts DEF Said
  <2>3. Said \in Seq(Saying) /\ Len(Said) = Len(updates)
    BY SaidType
  <2>4. Append(Said, said) = [i \in 1..n |-> IF i = n THEN said ELSE Said[i]]
    BY <1>0, <1>1, <2>3
  <2>5. Said'[n] = said
    BY <1>0, <1>1, <2>1
  <2>6. \A i \in 1..n : i = n \/ i \in DOMAIN updates
    BY <1>0, Bounds
  <2>7. \A i \in 1..n :
           Said'[i] = IF i = n THEN said ELSE Said[i]
    BY <2>2, <2>5, <2>6
  <2>8. Said' = [i \in 1..n |-> Said'[i]]
    BY <2>1
  <2>9. QED
    BY <2>4, <2>7, <2>8
<1>3. UNCHANGED <<requests, pc, resolutions>>
  BY DEF Send, history
<1>4. UNCHANGED <<requests, (pc # "idle"), Answers>>
  BY <1>3 DEF Answers
<1>5. QED
  BY <1>1, <1>2, <1>4 DEF Port!Say, Said, Answers, Saying

(* A deciding reply beyond the cut is beyond everything used before.       *)
LEMMA ResolutionAnswers ==
    ASSUME ApproverInv, ApproverInv', NEW i \in page, IsFirst(i, page), Decides(i), Handle,
           resolutions' = Append(resolutions,
               [ update |-> i, request |-> requests, cut |-> cut ]),
           pc' = "idle"
    PROVE  Port!Answer
<1>1. /\ i \in DOMAIN updates /\ i \in Nat /\ cut < i /\ pc = "poll"
  BY NothingBefore
<1>2. UNCHANGED <<updates, requests>>
  BY DEF Handle, server
<1>3. Said' = Said
  BY <1>2, SameUpdates DEF Said
<1>4. /\ DOMAIN resolutions = 1..Len(resolutions) /\ Len(resolutions) \in Nat
      /\ resolutions \in Seq(Resolutions) /\ Answers \in Seq([ request : Nat, reply : Nat ])
      /\ Len(Answers) = Len(resolutions) /\ DOMAIN Answers = 1..Len(resolutions)
  BY AnswersAreSeq DEF ApproverInv, TypeOK, Resolutions
<1> DEFINE a == [ request |-> requests, reply |-> i ]
           n == Len(resolutions) + 1
<1>5. Answers' = Append(Answers, a)
  <2>1. /\ DOMAIN resolutions' = 1..n
        /\ \A k \in DOMAIN resolutions : resolutions'[k] = resolutions[k]
        /\ resolutions'[n] = [ update |-> i, request |-> requests, cut |-> cut ]
    BY <1>4
  <2>2. Answers' = [k \in 1..n |-> [ request |-> resolutions'[k].request,
                                     reply   |-> resolutions'[k].update ]]
    BY <2>1 DEF Answers
  <2>3. Append(Answers, a) = [k \in 1..n |-> IF k = n THEN a ELSE Answers[k]]
    BY <1>4
  <2>4. \A k \in 1..n : k = n \/ k \in DOMAIN resolutions
    BY <1>4
  <2>5. \A k \in 1..n : Answers'[k] = IF k = n THEN a ELSE Answers[k]
    <3>1. \A k \in DOMAIN resolutions : k # n /\ k \in 1..n
      BY <1>4
    <3>2. n \in 1..n
      BY <1>4
    <3>3. QED
      BY <2>1, <2>2, <2>4, <3>1, <3>2 DEF Answers
  <2>6. Answers' = [k \in 1..n |-> Answers'[k]]
    BY <2>2
  <2>7. QED
    BY <2>3, <2>5, <2>6
<1>6. /\ i \in DOMAIN Said /\ Said[i] \in Port!Decisions
  BY <1>1 DEF Said, Decides, Port!Decisions, Verdicts
<1>7. IF Answers = << >> THEN i > 0 ELSE i > Answers[Len(Answers)].reply
  <2>1. CASE Answers = << >>
    BY <2>1, <1>1, Bounds DEF ApproverInv
  <2>2. CASE Answers # << >>
    <3>1. Len(resolutions) \in DOMAIN resolutions
      BY <1>4, <2>2
    <3>2. /\ resolutions[Len(resolutions)].update <= cut
          /\ resolutions[Len(resolutions)].update \in Nat
      BY <3>1, <1>1, ResolutionType DEF ApproverInv, StaleInv, Posted
    <3>3. Answers[Len(Answers)].reply = resolutions[Len(resolutions)].update
      BY <3>1, <1>4 DEF Answers
    <3>4. cut < i /\ cut \in Nat
      BY <1>1, Bounds DEF ApproverInv
    <3>5. QED
      BY <2>2, <3>2, <3>3, <3>4, <1>1
  <2>3. QED
    BY <2>1, <2>2
<1>8. QED
  BY <1>1, <1>2, <1>3, <1>5, <1>6, <1>7 DEF Port!Answer, Port!Spent, Said, Answers

LEMMA StepsOfThePort ==
    ASSUME ApproverInv, ApproverInv', [Next]_vars
    PROVE  [Port!PortNext]_(Port!portVars)
<1>1. ASSUME NEW m \in Messages, Send(m)
      PROVE  Port!Say
  BY <1>1, SendSays DEF ApproverInv
<1>2. ASSUME UNCHANGED updates
      PROVE  Said' = Said
  BY <1>2, SameUpdates DEF Said
<1>3. ASSUME UNCHANGED <<updates, resolutions, requests>>, (pc # "idle") = (pc' # "idle")
      PROVE  UNCHANGED Port!portVars
  BY <1>2, <1>3 DEF Port!portVars, Said
<1>4. ASSUME UNCHANGED <<updates, resolutions, requests>>, pc # "idle", pc' = "idle"
      PROVE  Port!Fail
  BY <1>2, <1>4 DEF Port!Fail, Said
<1>5. CASE RequestApproval
  <2>1. UNCHANGED <<updates, resolutions>> /\ requests' = requests + 1
        /\ pc = "idle" /\ pc' = "drain"
    BY <1>5 DEF RequestApproval, server
  <2>2. Port!Ask
    BY <1>2, <2>1 DEF Port!Ask, Said
  <2>3. QED
    BY <2>2 DEF Port!PortNext
<1>6. CASE Drain \/ Post \/ Poll
  <2>1. UNCHANGED <<updates, resolutions, requests>> /\ pc # "idle" /\ pc' # "idle"
    BY <1>6 DEF Drain, Post, Poll, server, history
  <2>2. QED
    BY <1>3, <2>1
<1>7. CASE Handle
  <2>1. PICK i \in page : IsFirst(i, page) /\ offset' = i + 1 /\ Examine(i)
    BY <1>7 DEF Handle
  <2>2. CASE Decides(i)
    <3>1. Port!Answer
      BY <1>7, <2>1, <2>2, ResolutionAnswers DEF Examine
    <3>2. QED
      BY <3>1 DEF Port!PortNext
  <2>3. CASE ~ Decides(i)
    BY <1>3, <1>7, <2>1, <2>3 DEF Examine, Handle, server
  <2>4. QED
    BY <2>2, <2>3
<1>8. CASE TransportError \/ Restart
  <2>1. UNCHANGED <<updates, resolutions, requests>> /\ pc' = "idle"
    BY <1>8 DEF TransportError, Restart, server
  <2>2. CASE pc = "idle"
    BY <1>3, <2>1, <2>2
  <2>3. CASE pc # "idle"
    BY <1>4, <2>1, <2>3 DEF Port!PortNext
  <2>4. QED
    BY <2>2, <2>3
<1>9. CASE UNCHANGED vars
  BY <1>3, <1>9 DEF vars, server, history
<1>10. QED
  BY <1>1, <1>5, <1>6, <1>7, <1>8, <1>9 DEF Next, Step, Port!PortNext

(* The approver keeps the promise of the port (ports/approval.py): the     *)
(* same decision is never returned twice, and none that is older than one  *)
(* already returned, whatever is lost, delayed or restarted.               *)
THEOREM ApproverImplementsThePort == Spec => ImplementsPort
<1>1. Init => Port!PortInit
  BY DEF Init, Port!PortInit
<1>2. ApproverInv /\ ApproverInv' /\ [Next]_vars => [Port!PortNext]_(Port!portVars)
  BY StepsOfThePort
<1>3. QED
  BY <1>1, <1>2, ApproverInvariant, PTL DEF Spec, ImplementsPort, Port!PortSpec

-----------------------------------------------------------------------------
(* The jam.                                                                *)

(* A jam that the server has been asked to confirm the front of, so that   *)
(* not even an offset of 0 asks for anything else.                         *)
JammedForGood == Jammed /\ page = {} /\ confirmed = FirstServed

(* A full page is a whole interval of updates.                             *)
LEMMA FullPage ==
    ASSUME TypeOK, Cardinality(ServedIds) = PageLimit
    PROVE  /\ ServedIds = FirstServed..(FirstServed + PageLimit - 1)
           /\ FirstServed + PageLimit - 1 <= Len(updates)
<1> DEFINE lo == FirstServed
           hi == FirstServed + PageLimit - 1
<1>1. lo \in Nat /\ hi \in Nat /\ lo <= hi /\ hi - lo + 1 = PageLimit
  BY FirstServedIsNat, Bounds
<1>2. IsFiniteSet(lo..hi) /\ Cardinality(lo..hi) = PageLimit
  <2> HIDE DEF lo, hi
  <2>1. lo \in Int /\ hi \in Int /\ ~ (lo > hi)
    BY <1>1
  <2> QED
    BY <1>1, <2>1, FS_Interval
<1>3. ServedIds \in SUBSET (lo..hi)
  BY FirstServedIsNat, Bounds DEF ServedIds
<1>4. ServedIds = lo..hi
  BY <1>2, <1>3, FS_Subset
<1>5. hi \in DOMAIN updates
  BY <1>1, <1>4 DEF ServedIds
<1> QED
  BY <1>4, <1>5, Bounds

(* What is served depends on the updates and on where the server begins.   *)
LEMMA JamStays ==
    ASSUME TypeOK, JammedForGood, UNCHANGED updates, page' = {},
           offset' = offset \/ offset' = 0, confirmed' = confirmed
    PROVE  JammedForGood'
<1>1. FirstServed' = FirstServed /\ confirmed' = FirstServed'
  BY Bounds DEF JammedForGood, FirstServed
<1>2. ServedIds' = ServedIds
  BY <1>1 DEF ServedIds
<1>3. TextPage' = TextPage
  BY <1>2, SameUpdates DEF TextPage
<1> QED
  BY <1>1, <1>2, <1>3 DEF JammedForGood, Jammed

(* A page full of updates without a text, once the server has been asked   *)
(* for it, is the last page the approver ever asks for: no reply resolves  *)
(* a gate again, whoever writes, however often request_approval is called  *)
(* again, and whether or not the process is restarted (get_updates drops   *)
(* such updates, and the offset moves past texts only).  As far as the     *)
(* server keeps its updates, that is: that it forgets them after a day is  *)
(* not in the model.                                                       *)
THEOREM AJamIsForGood == Spec => [][JammedForGood => JammedForGood' /\ UNCHANGED resolutions]_vars
<1>1. ASSUME TypeOK, JammedForGood, [Next]_vars
      PROVE  JammedForGood' /\ UNCHANGED resolutions
  <2>1. CASE \E m \in Messages : Send(m)
    <3>1. PICK m \in Messages : Send(m)
      BY <2>1
    <3>2. UNCHANGED <<confirmed, offset, page, resolutions>>
      BY <3>1 DEF Send, history
    <3>3. FirstServed' = FirstServed
      BY <3>2 DEF FirstServed
    <3>4. Cardinality(ServedIds) = PageLimit /\ TextPage = {}
      BY <1>1 DEF JammedForGood, Jammed
    <3>5. ServedIds' = ServedIds
      <4>1. /\ ServedIds = FirstServed..(FirstServed + PageLimit - 1)
            /\ FirstServed + PageLimit - 1 <= Len(updates)
        BY <1>1, <3>4, FullPage
      <4>2. FirstServed \in Nat /\ FirstServed >= 1 /\ PageLimit \in Nat /\ Len(updates) \in Nat
        BY <1>1, FirstServedIsNat, Bounds
      <4>3. ServedIds' = {i \in 1..(Len(updates) + 1) : FirstServed <= i /\ i < FirstServed + PageLimit}
        BY <1>1, <3>1, <3>3, UpdatesGrow DEF ServedIds
      <4> QED
        BY <4>1, <4>2, <4>3
    <3>6. \A i \in ServedIds : HasText(i)' <=> HasText(i)
      BY <1>1, <3>1, SendKeepsTexts DEF ServedIds
    <3>7. TextPage' = TextPage
      BY <3>5, <3>6 DEF TextPage
    <3> QED
      BY <1>1, <3>2, <3>3, <3>4, <3>5, <3>7 DEF JammedForGood, Jammed
  <2>2. CASE RequestApproval
    BY <1>1, <2>2, JamStays DEF RequestApproval, server, JammedForGood
  <2>3. CASE Drain
    BY <1>1, <2>3, JamStays DEF Drain, JammedForGood, Jammed
  <2>4. CASE Post
    BY <1>1, <2>4, JamStays DEF Post, server, JammedForGood
  <2>5. CASE Poll
    BY <1>1, <2>5, JamStays DEF Poll, history, JammedForGood, Jammed
  <2>6. CASE Handle
    BY <1>1, <2>6 DEF Handle, JammedForGood
  <2>7. CASE TransportError
    <3>1. confirmed' = confirmed
      BY <1>1, <2>7 DEF TransportError, JammedForGood
    <3> QED
      BY <1>1, <2>7, <3>1, JamStays DEF TransportError, JammedForGood
  <2>8. CASE Restart
    BY <1>1, <2>8, JamStays DEF Restart, server
  <2>9. CASE UNCHANGED vars
    BY <1>1, <2>9, JamStays DEF vars, server, history, JammedForGood
  <2> QED
    BY <1>1, <2>1, <2>2, <2>3, <2>4, <2>5, <2>6, <2>7, <2>8, <2>9 DEF Next, Step
<1> QED
  BY <1>1, ApproverTypes, PTL DEF Spec

=============================================================================
