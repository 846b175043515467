---------------------------- MODULE MessengerUDP ----------------------------
(***************************************************************************)
(* Messengers of one process that receive over UDP (msgudp.py, msgsock.py, *)
(* encrypted): a server, which makes one for every address it hears from,  *)
(* or a client, where one thread reads one socket for all of them.  What   *)
(* the peers send may be lost, late, out of order or doubled.  Heartbeats  *)
(* are left out but for their absence, which closes a messenger.           *)
(***************************************************************************)
EXTENDS Naturals, Sequences, FiniteSets, Bags

CONSTANTS
    Peers,           \* addresses of the other processes
    Named,           \* those the client is given by a host name, not by IP
    Behind,          \* how far a message may fall behind the newest, 3
    MaxMessengers,   \* bound: messengers ever made here
    MaxRestarts,     \* bound: new messengers of one peer, at its old address
    MaxMessages,     \* bound: messages the peers send
    MaxChunks,       \* bound: chunks of a message
    MaxArrivals      \* bound: chunks that arrive

ASSUME MessengerAssumption ==
    /\ Named \subseteq Peers
    /\ {Behind, MaxMessengers, MaxRestarts, MaxMessages, MaxChunks, MaxArrivals} \subseteq Nat

Ids == 1..MaxMessengers

VARIABLES
    isserver,        \* what this process is
    incarnation, lastindex,  \* of each peer: its messenger, the last message of that
    sent,            \* messages peers have sent
    receiving,       \* the process reads its socket
    udpmsgrs,      \* udp_msgrs or udp_msgrs_client: an id for each peer, or 0
    owned,           \* client: the messenger its owner uses for each peer, or 0
    made,            \* how many messengers there have been
    messengers,      \* each of them
    nonces,          \* _replay_window of the process
    handled,         \* messages given to handlefn, a bag
    got, dropped,    \* chunks each has read, messages it has cleaned away
    arrivals         \* how many chunks were read

messengerVars == <<isserver, incarnation, lastindex, sent, receiving, udpmsgrs, owned, made,
                   messengers, nonces, handled, got, dropped, arrivals>>
peerVars == <<incarnation, lastindex, sent>>
readVars == <<nonces, handled, got, dropped, arrivals>>

(* The thread of a messenger runs, leaves its loop, has called closefn, has *)
(* ended, or died of an exception; `reading` is a message it looks at or 0. *)
NewMessenger(p) == [peer |-> p, thread |-> "runs", reading |-> 0, maxindex |-> 0,
                    chunks |-> {}, closed |-> FALSE, woken |-> FALSE, told |-> FALSE]

MessengerInit ==
    /\ isserver \in BOOLEAN
    /\ incarnation = [p \in Peers |-> 1] /\ lastindex = [p \in Peers |-> 0] /\ sent = {}
    /\ receiving = TRUE /\ udpmsgrs = [p \in Peers |-> 0] /\ owned = [p \in Peers |-> 0]
    /\ made = 0 /\ messengers = <<>>
    /\ nonces = {} /\ handled = EmptyBag
    /\ got = [i \in Ids |-> {}] /\ dropped = [i \in Ids |-> {}] /\ arrivals = 0

-----------------------------------------------------------------------------
(* The peers (external): the same program, so they number their messages   *)
(* from the start in every new messenger.                                  *)
PeerSends(p) ==
    /\ Cardinality(sent) < MaxMessages
    /\ isserver \/ \E i \in 1..made : messengers[i].peer = p
    /\ lastindex' = [lastindex EXCEPT ![p] = @ + 1]
    /\ \E n \in 1..MaxChunks :
          sent' = sent \cup {[peer |-> p, by |-> incarnation[p], index |-> lastindex'[p], total |-> n]}
    /\ UNCHANGED <<isserver, incarnation, receiving, udpmsgrs, owned, made, messengers, readVars>>

PeerRestarts(p) ==
    /\ incarnation[p] <= MaxRestarts /\ lastindex[p] > 0
    /\ incarnation' = [incarnation EXCEPT ![p] = @ + 1] /\ lastindex' = [lastindex EXCEPT ![p] = 0]
    /\ UNCHANGED <<isserver, sent, receiving, udpmsgrs, owned, made, messengers, readVars>>

-----------------------------------------------------------------------------
(* MessengerUDP.__init__, handleUDPPacket *)

Make(p) ==
    /\ made < MaxMessengers /\ made' = made + 1
    /\ messengers' = Append(messengers, NewMessenger(p))
    /\ udpmsgrs' = [udpmsgrs EXCEPT ![p] = made + 1]

(* The owner of a client opens one when it has none (Remoter.getconn).     *)
OpenMessenger(p) ==
    /\ ~isserver /\ owned[p] = 0 /\ Make(p)
    /\ owned' = [owned EXCEPT ![p] = made + 1]
    /\ UNCHANGED <<isserver, peerVars, receiving, readVars>>

(* A chunk from an address that has no messenger: a server makes one; the  *)
(* assertion ends the thread that reads the socket of a client.            *)
UnknownAddress(p) ==
    /\ receiving /\ udpmsgrs[p] = 0 /\ \E m \in sent : m.peer = p
    /\ \/ isserver /\ Make(p) /\ UNCHANGED receiving
       \/ ~isserver /\ receiving' = FALSE /\ UNCHANGED <<made, messengers, udpmsgrs>>
    /\ UNCHANGED <<isserver, peerVars, owned, readVars>>

-----------------------------------------------------------------------------
(* _handlerecvbytes and recvthread *)

Set(i, f) == messengers' = [messengers EXCEPT ![i] = f]
Entry(i, index) == {k \in messengers[i].chunks : k.msg.index = index}

(* The chunks after one more, which is ignored when the message it belongs *)
(* to, by its index, was begun with another number of chunks.              *)
Fitting(C, k) == \A e \in C : e.msg.index = k.msg.index => e.msg.total = k.msg.total
StoredAnew(C, k) == {e \in C : e.msg.index # k.msg.index} \cup {k}
Stored(C, k) == {e \in C : e.msg.index # k.msg.index \/ e.chunk # k.chunk} \cup {k}

(* The queue of a messenger is part of the network; what is in it when the *)
(* messenger is closed is read before the empty message that wakes it.     *)
Reads(i, p) == receiving /\ (udpmsgrs[p] = i \/ messengers[i].closed)

ReadChunk(i, m) ==
    /\ messengers[i].thread = "runs" /\ messengers[i].reading = 0
    /\ m.peer = messengers[i].peer /\ Reads(i, m.peer)
    /\ arrivals < MaxArrivals /\ arrivals' = arrivals + 1
    /\ \E c \in 1..m.total :
          LET k == [msg |-> m, chunk |-> c]
              r == messengers[i]
              max == IF m.index > r.maxindex THEN m.index ELSE r.maxindex
          IN  /\ got' = [got EXCEPT ![i] = @ \cup {k}]
              /\ Set(i, IF Fitting(r.chunks, k)
                        THEN [r EXCEPT !.maxindex = max, !.reading = m.index,
                                       !.chunks = Stored(r.chunks, k)]
                        ELSE [r EXCEPT !.maxindex = max])
    /\ UNCHANGED <<isserver, peerVars, receiving, udpmsgrs, owned, made, nonces, handled, dropped>>

(* Cleaning, by this thread or the one for all messengers: what has fallen *)
(* behind goes, whole or not, and what was begun a minute ago.             *)
BegunLongAgo(i) == {n \in 1..MaxMessages :
    Entry(i, n) # {} /\ (n = messengers[i].reading => Cardinality(Entry(i, n)) > 1)}
CleanMessages(i) ==
    /\ messengers[i].thread = "runs"
    /\ \E aged \in SUBSET BegunLongAgo(i) :
          LET fallen == {n \in 1..MaxMessages :
                             Entry(i, n) # {} /\ n + Behind < messengers[i].maxindex}
              drop   == fallen \cup aged
          IN  /\ drop # {}
              /\ Set(i, [messengers[i] EXCEPT !.chunks = {k \in @ : k.msg.index \notin drop}])
              /\ dropped' = [dropped EXCEPT ![i] = @ \cup drop]
    /\ UNCHANGED <<isserver, peerVars, receiving, udpmsgrs, owned, made,
                   nonces, handled, got, arrivals>>

Complete(E) == \A k \in E : \A c \in 1..k.msg.total : \E e \in E : e.chunk = c
(* decryptMessage: the chunks are of one message and it was not seen yet.  *)
Opens(E) == \A k, e \in E : k.msg = e.msg /\ k.msg \notin nonces

Assemble(i) ==
    LET r == messengers[i]
        E == Entry(i, r.reading)
    IN  /\ r.thread = "runs" /\ r.reading # 0
        /\ \/ /\ E = {}                      \* KeyError
              /\ Set(i, [r EXCEPT !.thread = "died"]) /\ UNCHANGED <<nonces, handled>>
           \/ /\ ~Complete(E)
              /\ Set(i, [r EXCEPT !.reading = 0]) /\ UNCHANGED <<nonces, handled>>
           \/ /\ E # {} /\ Complete(E) /\ Opens(E)
              /\ \E thread \in {"runs", "died"} :    \* handlefn may raise
                    Set(i, [r EXCEPT !.reading = 0, !.chunks = @ \ E, !.thread = thread])
              /\ LET m == {k.msg : k \in E}
                 IN  nonces' = nonces \cup m /\ handled' = handled (+) SetToBag(m)
           \/ /\ E # {} /\ Complete(E) /\ ~Opens(E)
              /\ Set(i, [r EXCEPT !.reading = 0, !.chunks = @ \ E, !.thread = "leaves"])
              /\ UNCHANGED <<nonces, handled>>
        /\ UNCHANGED <<isserver, peerVars, receiving, udpmsgrs, owned, made, got, dropped, arrivals>>

-----------------------------------------------------------------------------
(* Messenger.close, MessengerUDP._close *)

(* Whatever is registered under the address of this messenger goes; what   *)
(* is registered under the IP of a host name is not found.                 *)
Unregistered(p) ==
    IF ~isserver /\ p \in Named THEN udpmsgrs ELSE [udpmsgrs EXCEPT ![p] = 0]
ClosedQuietly(r) == [r EXCEPT !.closed = TRUE]
Closed(r) == [r EXCEPT !.closed = TRUE, !.woken = TRUE]

(* Another thread closes it: no heartbeat for three periods, or an error   *)
(* in sending.                                                             *)
LoseHeartbeat(i) ==
    /\ ~messengers[i].closed
    /\ Set(i, Closed(messengers[i])) /\ udpmsgrs' = Unregistered(messengers[i].peer)
    /\ UNCHANGED <<isserver, peerVars, receiving, owned, made, readVars>>

(* The empty message that closing has put into the queue.                  *)
CanReadEmpty(i) ==
    messengers[i].thread = "runs" /\ messengers[i].reading = 0 /\ messengers[i].woken
ReadEmpty(i) ==
    /\ CanReadEmpty(i) /\ Set(i, [messengers[i] EXCEPT !.thread = "leaves"])
    /\ UNCHANGED <<isserver, peerVars, receiving, udpmsgrs, owned, made, readVars>>

(* closefn: the owner forgets the messenger.  Only then is it closed.      *)
TellOwner(i) ==
    /\ messengers[i].thread = "leaves"
    /\ Set(i, [messengers[i] EXCEPT !.thread = "told", !.told = TRUE])
    /\ owned' = [owned EXCEPT ![messengers[i].peer] = 0]
    /\ UNCHANGED <<isserver, peerVars, receiving, udpmsgrs, made, readVars>>

CloseSelf(i) ==
    LET r == [messengers[i] EXCEPT !.thread = "ended"]
    IN  /\ messengers[i].thread = "told"
        /\ \/ r.closed /\ Set(i, r) /\ UNCHANGED udpmsgrs
           \/ ~r.closed /\ Set(i, Closed(r)) /\ udpmsgrs' = Unregistered(r.peer)
        /\ UNCHANGED <<isserver, peerVars, receiving, owned, made, readVars>>

MessengerNext ==
    \/ \E p \in Peers : PeerSends(p) \/ PeerRestarts(p) \/ OpenMessenger(p) \/ UnknownAddress(p)
    \/ \E i \in 1..made :
          \/ \E m \in sent : ReadChunk(i, m)
          \/ CleanMessages(i) \/ Assemble(i)
          \/ LoseHeartbeat(i) \/ ReadEmpty(i) \/ TellOwner(i) \/ CloseSelf(i)

MessengerSpec == MessengerInit /\ [][MessengerNext]_messengerVars

-----------------------------------------------------------------------------
(* Properties *)

(* No message is handled twice, however often its chunks arrive, and one   *)
(* whose chunks a messenger has all read, in whatever order, is handled,   *)
(* unless it was cleaned away or chunks of another messenger of the peer   *)
(* came under the same index.                                              *)
ReadWhole(i, m) == \A c \in 1..m.total : [msg |-> m, chunk |-> c] \in got[i]
Mixed(i, m) == \E k \in got[i] : k.msg.index = m.index /\ k.msg # m
Handlings(m) == IF BagIn(m, handled) THEN handled[m] ELSE 0
WholeHandledOnce ==
    \A m \in sent :
        /\ Handlings(m) <= 1
        /\ \A i \in 1..made :
              messengers[i].thread = "runs" /\ messengers[i].reading = 0 /\ ReadWhole(i, m)
              => Handlings(m) = 1 \/ m.index \in dropped[i] \/ Mixed(i, m)

(* Whoever closes a messenger, its thread does not wait for a chunk for    *)
(* ever: the owner has been told or will be, unless the thread died of an  *)
(* exception, for a message cleaned away under it or out of handlefn.      *)
ClosedIsTold ==
    \A i \in 1..made :
        LET r == messengers[i]
        IN  r.closed => \/ r.told \/ r.thread \in {"leaves", "died"}
                        \/ (r.thread = "runs" /\ r.reading # 0) \/ CanReadEmpty(i)

(* "Received UDP message from unknown client address ... on client side"   *)
(* (handleUDPPacket) is an assertion: it should never be so.               *)
AddressKnown == ~isserver => receiving
=============================================================================
