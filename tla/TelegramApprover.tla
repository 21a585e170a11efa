-------------------------- MODULE TelegramApprover --------------------------
(***************************************************************************)
(* The approval channel over Telegram (adapters/telegram/approver.py) with *)
(* the part of TelegramBot it calls (adapters/telegram/bot.py) and the     *)
(* update queue of the Bot API server it polls.                            *)
(*                                                                         *)
(* Update ids are the positions in `updates'.  getUpdates(offset) makes    *)
(* the server forget every update below the offset and returns the next    *)
(* PageLimit updates; TelegramBot.get_updates drops those without a text   *)
(* before the approver sees the page, so the offset never moves past them. *)
(* The offset lives in memory: a restarted process begins at 0, that is,   *)
(* at the first update the server still holds.                             *)
(***************************************************************************)
EXTENDS Naturals, Sequences, FiniteSets, Functions

CONSTANTS
    Chats,          \* chats the bot receives messages from
    OperatorChat,   \* the configured chat_id
    Users,          \* senders
    Messages,       \* the messages somebody may send
    Allowlist,      \* the allowlisted user ids
    PageLimit,      \* updates in one answer of getUpdates (100)
    MaxUpdates,     \* bound: updates sent to the bot
    MaxMedia,       \* bound: updates without a text
    MaxRequests,    \* bound: calls of request_approval
    MaxFailures     \* bound: transport errors and restarts

(* What a text reads as once stripped, lower-cased and without its slash;  *)
(* "media" stands for an update that carries no text.                      *)
Verdicts == {"approve", "reject"}
Readings == Verdicts \cup {"chatter", "media"}

ASSUME ApproverAssumption ==
    /\ Messages \subseteq [ chat : Chats, user : Users, text : Readings ]
    /\ OperatorChat \in Chats
    /\ Allowlist \subseteq Users
    /\ PageLimit \in Nat \ {0}
    /\ {MaxUpdates, MaxMedia, MaxRequests, MaxFailures} \subseteq Nat

VARIABLES
    updates,      \* every update so far, in the order of their ids
    confirmed,    \* the server holds the updates from this id on
    offset,       \* TelegramApprover._offset
    page,         \* ids of the polled page not looked at yet
    pc,           \* where request_approval is
    cut,          \* history: the last id that existed at the drain's last poll
    requests,     \* history: calls of request_approval
    prompt,       \* history: the latest request whose gate was posted
    resolutions,  \* history: the updates that resolved a request
    failures      \* history: transport errors and restarts so far

server  == <<updates, confirmed>>
history == <<cut, requests, prompt, resolutions, failures>>
vars == <<server, offset, page, pc, history>>

(***************************************************************************)
(* Each pc but "idle" is a call that has not returned: "drain" in          *)
(* _drain_pending_updates, "post" in send_message, "poll" in the loop.     *)
(***************************************************************************)
TypeOK ==
    /\ updates \in Seq([ msg : Messages, prompt : 0..MaxRequests ])
    /\ Len(updates) <= MaxUpdates
    /\ confirmed \in 1..(Len(updates) + 1)
    /\ offset \in 0..(Len(updates) + 1)
    /\ page \subseteq (offset..Len(updates)) \cap DOMAIN updates
    /\ pc \in {"idle", "drain", "post", "poll"}
    /\ pc # "poll" => page = {}
    /\ pc # "idle" => requests > 0
    /\ cut \in 0..Len(updates)
    /\ requests \in 0..MaxRequests
    /\ prompt \in 0..requests
    /\ resolutions \in Seq([ update : 1..MaxUpdates, request : 1..MaxRequests,
                             cut : 0..MaxUpdates ])
    /\ failures \in 0..MaxFailures

-----------------------------------------------------------------------------
(* The Bot API server and TelegramBot.get_updates.                         *)

HasText(i) == updates[i].msg.text # "media"

(* The first update the server returns for the current offset; the ones    *)
(* below it are confirmed by the same call.                                *)
FirstServed == IF offset > confirmed THEN offset ELSE confirmed

ServedIds == {i \in DOMAIN updates : FirstServed <= i /\ i < FirstServed + PageLimit}

TextPage == {i \in ServedIds : HasText(i)}

(* A reply decides when it comes from the operator chat and an allowlisted *)
(* user and reads APPROVE or REJECT.                                       *)
Decides(i) ==
    /\ updates[i].msg.chat = OperatorChat
    /\ updates[i].msg.user \in Allowlist
    /\ updates[i].msg.text \in Verdicts

IsFirst(i, ids) == i \in ids /\ \A j \in ids : i <= j
IsLast(i, ids) == i \in ids /\ \A j \in ids : j <= i

MediaSent == Cardinality({i \in DOMAIN updates : ~HasText(i)})

Init ==
    /\ updates = << >>
    /\ confirmed = 1
    /\ offset = 0
    /\ page = {}
    /\ pc = "idle"
    /\ cut = 0
    /\ requests = 0
    /\ prompt = 0
    /\ resolutions = << >>
    /\ failures = 0

(* Somebody writes to the bot.                                             *)
Send(m) ==
    /\ Len(updates) < MaxUpdates
    /\ m.text = "media" => MediaSent < MaxMedia
    /\ updates' = Append(updates, [ msg |-> m, prompt |-> prompt ])
    /\ UNCHANGED <<confirmed, offset, page, pc, history>>

-----------------------------------------------------------------------------
(* request_approval                                                        *)

(* Mutated form: the gate is posted without a drain.                       *)
RequestApproval_SkipsDrain ==
    /\ pc = "idle"
    /\ requests < MaxRequests
    /\ requests' = requests + 1
    /\ pc' = "post"
    /\ UNCHANGED <<server, offset, page, cut, prompt, resolutions, failures>>

RequestApproval ==
    /\ pc = "idle"
    /\ requests < MaxRequests
    /\ requests' = requests + 1
    /\ pc' = "drain"
    /\ UNCHANGED <<server, offset, page, cut, prompt, resolutions, failures>>

(* Mutated form: the drain reads one page only.                            *)
Drain_OnePage ==
    /\ pc = "drain"
    /\ confirmed' = FirstServed
    /\ \/ TextPage = {} /\ UNCHANGED offset
       \/ \E i \in TextPage : IsLast(i, TextPage) /\ offset' = i + 1
    /\ cut' = Len(updates)
    /\ pc' = "post"
    /\ UNCHANGED <<updates, page, requests, prompt, resolutions, failures>>

(* One poll of _drain_pending_updates, until a page has no text.           *)
Drain ==
    /\ pc = "drain"
    /\ confirmed' = FirstServed
    /\ \/ /\ TextPage = {}
          /\ pc' = "post"
          /\ cut' = Len(updates)
          /\ UNCHANGED offset
       \/ /\ \E i \in TextPage : IsLast(i, TextPage) /\ offset' = i + 1
          /\ UNCHANGED <<pc, cut>>
    /\ UNCHANGED <<updates, page, requests, prompt, resolutions, failures>>

(* send_message returns: the operator sees the gate.                       *)
Post ==
    /\ pc = "post"
    /\ pc' = "poll"
    /\ prompt' = requests
    /\ UNCHANGED <<server, offset, page, cut, requests, resolutions, failures>>

(* A long poll that returns something; one that times out changes nothing. *)
Poll ==
    /\ pc = "poll"
    /\ page = {}
    /\ confirmed' = FirstServed
    /\ page' = TextPage
    /\ UNCHANGED <<updates, offset, pc, history>>

(* Mutated form: a decision counts whatever chat it was written in.        *)
Examine_AnyChat(i) ==
    IF updates[i].msg.user \in Allowlist /\ updates[i].msg.text \in Verdicts
       THEN /\ resolutions' = Append(resolutions,
                   [ update |-> i, request |-> requests, cut |-> cut ])
            /\ page' = {}
            /\ pc' = "idle"
       ELSE /\ page' = page \ {i}
            /\ UNCHANGED <<resolutions, pc>>

(* The rest of the loop body for message i of the page.                    *)
Examine(i) ==
    IF Decides(i)
       THEN /\ resolutions' = Append(resolutions,
                   [ update |-> i, request |-> requests, cut |-> cut ])
            /\ page' = {}
            /\ pc' = "idle"
       ELSE /\ page' = page \ {i}
            /\ UNCHANGED <<resolutions, pc>>

(* Mutated forms: the newest message is looked at first; the offset is     *)
(* moved for messages that decide only.                                    *)
Handle_NewestFirst ==
    /\ pc = "poll"
    /\ \E i \in page :
          /\ IsLast(i, page)
          /\ offset' = i + 1
          /\ Examine(i)
    /\ UNCHANGED <<server, cut, requests, prompt, failures>>

Handle_MovesOnDecision ==
    /\ pc = "poll"
    /\ \E i \in page :
          /\ IsFirst(i, page)
          /\ offset' = IF Decides(i) THEN i + 1 ELSE offset
          /\ Examine(i)
    /\ UNCHANGED <<server, cut, requests, prompt, failures>>

(* The next message of the page: the offset moves first, whatever follows. *)
Handle ==
    /\ pc = "poll"
    /\ \E i \in page :
          /\ IsFirst(i, page)
          /\ offset' = i + 1
          /\ Examine(i)
    /\ UNCHANGED <<server, cut, requests, prompt, failures>>

-----------------------------------------------------------------------------
(* Failures                                                                *)

(* TelegramTransportError out of request_approval.  The request may have   *)
(* reached the server before the answer was lost: getUpdates has then      *)
(* confirmed, sendMessage has then shown the gate.                         *)
TransportError ==
    /\ pc # "idle"
    /\ page = {}
    /\ failures < MaxFailures
    /\ failures' = failures + 1
    /\ pc' = "idle"
    /\ confirmed' \in IF pc = "post" THEN {confirmed} ELSE {confirmed, FirstServed}
    /\ prompt' \in IF pc = "post" THEN {prompt, requests} ELSE {prompt}
    /\ UNCHANGED <<updates, offset, page, cut, requests, resolutions>>

(* The process dies and a new TelegramApprover is built.                   *)
Restart ==
    /\ failures < MaxFailures
    /\ failures' = failures + 1
    /\ pc' = "idle"
    /\ offset' = 0
    /\ page' = {}
    /\ UNCHANGED <<server, cut, requests, prompt, resolutions>>

Step == Drain \/ Post \/ Poll \/ Handle

Next ==
    \/ \E m \in Messages : Send(m)
    \/ RequestApproval
    \/ Step
    \/ TransportError
    \/ Restart

(* request_approval is a loop of one thread: it always takes its next      *)
(* step.  Nobody has to write, and nobody has to ask for an approval.      *)
Spec == Init /\ [][Next]_vars
FairSpec == Spec /\ WF_vars(Step)

-----------------------------------------------------------------------------
(* Properties                                                              *)

Resolved == Range(resolutions)

(* One reply resolves one gate.  The offset that protects it is in memory  *)
(* only and a reply is confirmed to the server by the poll after the one   *)
(* that used it, so a restart re-reads it: the drain must discard it.      *)
OneReplyOneGate ==
    \A k, n \in DOMAIN resolutions :
        resolutions[k].update = resolutions[n].update => k = n

(* A reply that was with the server at the drain's last poll never         *)
(* resolves the gate, however many pages had piled up and whatever was     *)
(* lost or restarted before.                                               *)
StaleRepliesIgnored ==
    \A r \in Resolved : r.cut < r.update

(* The decision is the operator's first: no earlier deciding reply of the  *)
(* same gate is skipped by paging, by the filter on texts or by messages   *)
(* of other people in between.                                             *)
FirstReplyWins ==
    \A r \in Resolved :
        /\ Decides(r.update)
        /\ \A i \in (r.cut + 1)..(r.update - 1) : ~Decides(i)

(* A full page of updates without a text: to the approver it looks empty,  *)
(* and the offset that would ask for the next one cannot move.             *)
Jammed == TextPage = {} /\ Cardinality(ServedIds) = PageLimit

(* An operator's reply to a gate that is being waited for is taken up: the *)
(* loop does not spin on messages it ignores, whoever sends them; only a   *)
(* page full of updates without a text stops it.  (The call may also end   *)
(* by an error.)                                                           *)
ReplyIsTaken ==
    \A i \in 1..MaxUpdates :
        (pc = "poll" /\ i \in DOMAIN updates /\ cut < i /\ Decides(i))
            ~> (pc # "poll" \/ Jammed)

(* The approver keeps the promise of the port, through restarts, errors    *)
(* and pages: every decision it returns is that of a reply no decision has *)
(* used yet, and that came after the last one used.                        *)
Port == INSTANCE ApprovalPort WITH
    replies <- [i \in DOMAIN updates |->
                   IF Decides(i) THEN updates[i].msg.text ELSE "none"],
    asked   <- requests,
    open    <- (pc # "idle"),
    answers <- [k \in DOMAIN resolutions |->
                   [ request |-> resolutions[k].request,
                     reply   |-> resolutions[k].update ]]

ImplementsPort == Port!PortSpec

(* approver.py, lines 9-10: "Pending updates from before the gate are      *)
(* drained first, so a stale reply cannot resolve a new gate (only a reply *)
(* that arrives after the gate is posted counts)".                         *)
OnlyRepliesAfterThePost ==
    \A r \in Resolved : updates[r.update].prompt = r.request
=============================================================================
