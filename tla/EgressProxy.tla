---------------------------- MODULE EgressProxy -----------------------------
(***************************************************************************)
(* One connection through the egress gatekeeper (adapters/egress_proxy.py):*)
(* the handler thread that answers a CONNECT and becomes the pipe from the *)
(* client to the upstream, and the second thread that pipes the other way. *)
(* Every connection has a handler of its own and shares nothing with the   *)
(* others, so one is enough.                                               *)
(*                                                                         *)
(* Direction "out" runs from the client to the upstream, "in" back.  The   *)
(* chunks of a direction are counted, not looked at: a chunk sent by the   *)
(* peer waits in the socket until the pipe takes it with recv, and is then *)
(* given to the other peer with sendall.                                   *)
(*                                                                         *)
(* The headers are read through the buffered rfile, the tunnel reads the   *)
(* socket itself: what the client sends on the heels of its headers may    *)
(* end up in that buffer, from where nothing takes it.                     *)
(*                                                                         *)
(* socket.create_connection(..., timeout=10) leaves its timeout on the     *)
(* upstream socket: recv from it, and sendall to it, raise after ten       *)
(* seconds without progress.  The client's socket has no timeout.          *)
(*                                                                         *)
(* A host name is a sequence of words, Dot being one of them.  Its letter  *)
(* case, which is_allowed lowers on both sides, is left out.               *)
(***************************************************************************)
EXTENDS Naturals, SequencesExt

CONSTANTS
    Hosts,          \* the host names a client may ask for
    Allowlist,      \* the entries of the allowlist
    Dot,            \* the word "."
    NoHost,         \* no host: nothing has been asked for yet
    MaxChunks       \* bound: chunks per direction

ASSUME ProxyAssumption ==
    /\ \A name \in Hosts \cup Allowlist : name \in Seq(Range(name))
    /\ NoHost \notin Hosts
    /\ MaxChunks \in Nat

Directions == {"in", "out"}
Opposite(d) == IF d = "in" THEN "out" ELSE "in"

(* peer[d] is the peer that sends in direction d and reads in the other.   *)
PeerStates == {"open", "ended", "gone"}

VARIABLES
    handler,    \* where the handler thread is
    status,     \* the status line written to the client, or "none"
    target,     \* the host of the CONNECT being served
    upstream,   \* the proxy's socket to the upstream
    peer,       \* the client ("out") and the upstream ("in")
    sent,       \* chunks a peer has sent
    ahead,      \* chunks of the client left in rfile's buffer
    taken,      \* chunks the pipe has received
    given,      \* chunks the pipe has passed on
    pipe,       \* the two pipes
    told,       \* directions whose reader was told that the stream ended
    expired     \* history: the timers that fired

counters == <<sent, ahead, taken, given>>
vars == <<handler, status, target, upstream, peer, counters, pipe, told, expired>>

(* The chunks of a direction that no pipe will ever see.                   *)
Lost(d) == IF d = "out" THEN ahead ELSE 0

Statuses == {"200", "400", "403", "501", "502"}

TypeOK ==
    /\ handler \in {"reading", "dialing", "answering", "tunnel", "joining", "closed"}
    /\ status \in Statuses \cup {"none"}
    /\ target \in Hosts \cup {NoHost}
    /\ upstream \in {"none", "open", "closed"}
    /\ peer \in [Directions -> PeerStates]
    /\ sent \in [Directions -> 0..MaxChunks]
    /\ ahead \in 0..sent["out"]
    /\ \A d \in Directions :
          /\ given[d] \in 0..taken[d]
          /\ taken[d] \in given[d]..(sent[d] - Lost(d))
    /\ pipe \in [Directions -> {"off", "copying", "over"}]
    /\ told \subseteq Directions
    /\ expired \subseteq {"recv", "sendall", "join"}
    /\ handler \in {"tunnel", "joining"} => upstream = "open"

Init ==
    /\ handler = "reading"
    /\ status = "none"
    /\ target = NoHost
    /\ upstream = "none"
    /\ peer = [d \in Directions |-> "open"]
    /\ sent = [d \in Directions |-> 0]
    /\ ahead = 0
    /\ taken = [d \in Directions |-> 0]
    /\ given = [d \in Directions |-> 0]
    /\ pipe = [d \in Directions |-> "off"]
    /\ told = {}
    /\ expired = {}

-----------------------------------------------------------------------------
(* The verdict (security/egress.py).                                       *)

(* _normalize_host: one trailing dot, the root of the DNS, is dropped.     *)
Normalized(name) ==
    IF IsSuffix(<<Dot>>, name) THEN Front(name) ELSE name

(* Mutated form: any name that ends like an entry is a subdomain of it.    *)
IsAllowed_NoBoundary(host) ==
    /\ Normalized(host) # << >>
    /\ \E entry \in Allowlist :
          /\ Normalized(entry) # << >>
          /\ IsSuffix(Normalized(entry), Normalized(host))

(* is_allowed: an entry itself, or a name that ends in a dot and an entry. *)
IsAllowed(host) ==
    /\ Normalized(host) # << >>
    /\ \E entry \in Allowlist :
          /\ Normalized(entry) # << >>
          /\ \/ Normalized(host) = Normalized(entry)
             \/ IsSuffix(<<Dot>> \o Normalized(entry), Normalized(host))

-----------------------------------------------------------------------------
(* The handler up to the tunnel.                                           *)

(* The handler returns: the server shuts the client's connection down, and *)
(* leaving `with upstream' has closed the other one.                       *)
Close ==
    /\ handler' = "closed"
    /\ upstream' = IF upstream = "none" THEN "none" ELSE "closed"
    /\ told' = told \cup {"in"}

Refuse(s) ==
    /\ handler = "reading"
    /\ status' = s
    /\ Close
    /\ UNCHANGED <<target, peer, counters, pipe, expired>>

(* Anything but a CONNECT, an authority that does not parse.               *)
RefuseMethod == Refuse("501")
RefuseAuthority == Refuse("400")

RefuseHost(h) ==
    /\ ~ IsAllowed(h)
    /\ Refuse("403")

(* The request is read, with some of what the client has sent after it.    *)
Dial(h) ==
    /\ handler = "reading"
    /\ IsAllowed(h)
    /\ handler' = "dialing"
    /\ target' = h
    /\ ahead' \in 0..sent["out"]
    /\ UNCHANGED <<status, upstream, peer, sent, taken, given, pipe, told, expired>>

(* The dial ends in an OSError.                                            *)
DialFails ==
    /\ handler = "dialing"
    /\ status' = "502"
    /\ Close
    /\ UNCHANGED <<target, peer, counters, pipe, expired>>

(* The name cannot be encoded or the port is out of range: what            *)
(* create_connection raises is no OSError, and leaves the handler, which   *)
(* answers nothing.                                                        *)
DialRaises ==
    /\ handler = "dialing"
    /\ Close
    /\ UNCHANGED <<status, target, peer, counters, pipe, expired>>

Connect ==
    /\ handler = "dialing"
    /\ handler' = "answering"
    /\ upstream' = "open"
    /\ UNCHANGED <<status, target, peer, counters, pipe, told, expired>>

(* The 200 is written, then both pipes run.                                *)
Establish ==
    /\ handler = "answering"
    /\ status' = "200"
    /\ handler' = "tunnel"
    /\ pipe' = [d \in Directions |-> "copying"]
    /\ UNCHANGED <<target, upstream, peer, counters, told, expired>>

(* The client is gone before the 200: the write raises.  The upstream      *)
(* socket is closed as the last reference to it goes.                      *)
AnswerFails ==
    /\ handler = "answering"
    /\ peer["out"] = "gone"
    /\ Close
    /\ UNCHANGED <<status, target, peer, counters, pipe, expired>>

-----------------------------------------------------------------------------
(* The peers.                                                              *)

(* A client need not wait for its 200; an upstream sends when connected.   *)
MaySend(d) == d = "out" \/ upstream = "open"

PeerSends(d) ==
    /\ MaySend(d)
    /\ peer[d] = "open"
    /\ sent[d] < MaxChunks
    /\ sent' = [sent EXCEPT ![d] = @ + 1]
    /\ UNCHANGED <<handler, status, target, upstream, peer, ahead, taken, given, pipe, told, expired>>

(* The peer half-closes, or closes: it no longer sends, or reads.          *)
PeerStops(d, how) ==
    /\ d = "out" \/ upstream = "open"
    /\ <<peer[d], how>> \in {<<"open", "ended">>, <<"open", "gone">>, <<"ended", "gone">>}
    /\ peer' = [peer EXCEPT ![d] = how]
    /\ UNCHANGED <<handler, status, target, upstream, counters, pipe, told, expired>>

-----------------------------------------------------------------------------
(* pipe(src, dst)                                                          *)

Holding(d) == taken[d] > given[d]
Drained(d) == ~Holding(d) /\ taken[d] + Lost(d) = sent[d]

Receive(d) ==
    /\ pipe[d] = "copying"
    /\ upstream = "open"
    /\ ~Holding(d)
    /\ taken[d] + Lost(d) < sent[d]
    /\ taken' = [taken EXCEPT ![d] = @ + 1]
    /\ UNCHANGED <<handler, status, target, upstream, peer, sent, ahead, given, pipe, told, expired>>

Give(d) ==
    /\ pipe[d] = "copying"
    /\ upstream = "open"
    /\ Holding(d)
    /\ peer[Opposite(d)] # "gone"
    /\ given' = [given EXCEPT ![d] = @ + 1]
    /\ UNCHANGED <<handler, status, target, upstream, peer, sent, ahead, taken, pipe, told, expired>>

(* Mutated form: the end of the client's stream ends the handler.          *)
PipeOver_ClosesTunnel(d) ==
    /\ pipe' = [pipe EXCEPT ![d] = "over"]
    /\ told' = IF d = "out" THEN Directions ELSE told \cup {d}
    /\ handler' = IF d = "out" /\ handler = "tunnel" THEN "closed" ELSE handler
    /\ upstream' = IF handler' = "closed" THEN "closed" ELSE upstream

(* The finally block: the reader is told.  Once the pipe of the handler    *)
(* thread is over, the handler joins the other thread.                     *)
PipeOver(d) ==
    /\ pipe' = [pipe EXCEPT ![d] = "over"]
    /\ told' = told \cup {d}
    /\ handler' = IF d = "out" /\ handler = "tunnel" THEN "joining" ELSE handler
    /\ UNCHANGED upstream

(* recv returns b"".                                                       *)
EndOfStream(d) ==
    /\ pipe[d] = "copying"
    /\ upstream = "open"
    /\ Drained(d)
    /\ peer[d] # "open"
    /\ PipeOver(d)
    /\ UNCHANGED <<status, target, peer, counters, expired>>

(* recv or sendall raises: the reader is gone, or the upstream socket was  *)
(* closed under the thread.                                                *)
PipeFails(d) ==
    /\ pipe[d] = "copying"
    /\ \/ Holding(d) /\ peer[Opposite(d)] = "gone"
       \/ upstream = "closed"
    /\ PipeOver(d)
    /\ UNCHANGED <<status, target, peer, counters, expired>>

(* Ten seconds without a byte from the upstream.                           *)
RecvTimesOut ==
    /\ pipe["in"] = "copying"
    /\ upstream = "open"
    /\ Drained("in")
    /\ peer["in"] = "open"
    /\ PipeOver("in")
    /\ expired' = expired \cup {"recv"}
    /\ UNCHANGED <<status, target, peer, counters>>

(* Ten seconds in which the upstream does not read.                        *)
SendTimesOut ==
    /\ pipe["out"] = "copying"
    /\ upstream = "open"
    /\ Holding("out")
    /\ PipeOver("out")
    /\ expired' = expired \cup {"sendall"}
    /\ UNCHANGED <<status, target, peer, counters>>

-----------------------------------------------------------------------------
(* join(timeout=10), and the end.                                          *)

Joined ==
    /\ handler = "joining"
    /\ pipe["in"] = "over"
    /\ Close
    /\ UNCHANGED <<status, target, peer, counters, pipe, expired>>

(* Mutated form: a join without a timeout.                                 *)
JoinTimesOut_Never ==
    /\ handler = "joining"
    /\ pipe["in"] = "over"
    /\ Close
    /\ UNCHANGED <<status, target, peer, counters, pipe, expired>>

JoinTimesOut ==
    /\ handler = "joining"
    /\ pipe["in"] # "over"
    /\ Close
    /\ expired' = expired \cup {"join"}
    /\ UNCHANGED <<status, target, peer, counters, pipe>>

Handshake ==
    \/ RefuseMethod
    \/ RefuseAuthority
    \/ \E h \in Hosts : RefuseHost(h) \/ Dial(h)
    \/ DialFails
    \/ DialRaises
    \/ Connect
    \/ Establish
    \/ AnswerFails

Piping(d) == Receive(d) \/ Give(d) \/ EndOfStream(d) \/ PipeFails(d)

Next ==
    \/ Handshake
    \/ \E d \in Directions : PeerSends(d) \/ Piping(d)
    \/ \E d \in Directions, how \in {"ended", "gone"} : PeerStops(d, how)
    \/ RecvTimesOut
    \/ SendTimesOut
    \/ Joined
    \/ JoinTimesOut

Spec == Init /\ [][Next]_vars

(* Once there is a tunnel, both threads run, and join() has a timeout.     *)
(* Neither peer has to send or to close, and the timeouts of the upstream  *)
(* socket need not fire: it may be kept busy for ever.                     *)
FairSpec ==
    /\ Spec
    /\ \A d \in Directions : WF_vars(Piping(d))
    /\ WF_vars(Joined \/ JoinTimesOut)

-----------------------------------------------------------------------------
(* Properties                                                              *)

(* A name belongs to a domain if it is what remains of it after a number   *)
(* of whole labels, each with its dot, was taken off in front.             *)
BelongsTo(name, domain) ==
    \E n \in 0..Len(name) :
        /\ n > 0 => name[n] = Dot
        /\ SubSeq(name, n + 1, Len(name)) = domain

(* The domains of the allowlist: what an entry names, with or without the  *)
(* dot of the root.                                                        *)
Domains ==
    (Allowlist \cup {SubSeq(entry, 1, Len(entry) - 1) :
                        entry \in {e \in Allowlist : e # << >> /\ e[Len(e)] = Dot}})
        \ {<< >>}

(* No byte passes, in either direction, but through a tunnel, after the    *)
(* client was told so, to a host that belongs to a domain of the           *)
(* allowlist: with or without the dot of the root, but not for having a    *)
(* name that only ends with the same letters (is_allowed, and handle).     *)
BytesNeedAVerdict ==
    (\E d \in Directions : taken[d] > 0) =>
        /\ status = "200"
        /\ \E domain \in Domains :
              BelongsTo(target, domain) \/ BelongsTo(target, domain \o <<Dot>>)

(* Unless a timer fires or the reader leaves, an end of stream is true: it *)
(* is announced when the sender ended its stream and every chunk of it was *)
(* handed over, but those a client sent too early.  In particular a client *)
(* that waits for its 200 and half-closes after its request loses nothing  *)
(* of it, and gets the whole response.                                     *)
EndOfStreamIsTrue ==
    \A d \in told :
        (status = "200" /\ expired = {} /\ \A e \in Directions : peer[e] # "gone") =>
            /\ peer[d] = "ended"
            /\ given[d] + Lost(d) = sent[d]

(* When the client closes, the connection is torn down and the upstream    *)
(* socket released, even if the upstream neither answers nor closes.       *)
TornDownAfterClient ==
    (peer["out"] = "gone" /\ handler = "tunnel")
        ~> (handler = "closed" /\ upstream = "closed")

(* egress_proxy.py, line 100: "Blindly pipe bytes both ways until either   *)
(* side closes."                                                           *)
PipesUntilACloses ==
    [][ \A d \in Directions :
          (pipe[d] = "copying" /\ pipe'[d] = "over")
              => \E e \in Directions : peer[e] # "open" ]_vars
=============================================================================
