-------------------------------- MODULE Chat --------------------------------
(***************************************************************************)
(* The public chat (internal/realtime/chat.go, the welcome of              *)
(* realtime/hub.go, store/chat.go) and the bridge to Discord               *)
(* (internal/discordchat/bridge.go).                                       *)
(*                                                                         *)
(* A message passes through several goroutines without any lock around the *)
(* whole: its handler copies the list of connections under Hub.mu, saves   *)
(* the message, puts it into the queue of one connection after the other,  *)
(* and hands it to the bridge.  Meanwhile a newcomer registers, reads the  *)
(* saved messages for its welcome and is welcomed; and the bridge posts    *)
(* to Discord, one message at a time, with retries.                        *)
(*                                                                         *)
(* Messages are numbered in the order in which their handlers get Hub.mu.  *)
(***************************************************************************)
EXTENDS Integers, FiniteSets, Sequences, SequencesExt

CONSTANTS
  NClients,      \* connections, each of which registers once at most
  Discord,       \* the sender of a message that comes from Discord
  NoHistory,     \* a connection's history before, or without, its loading
  MaxMessages,   \* bound of the messages
  LastTime,      \* bound of the clock
  HistoryLimit,  \* store.MaxRecentChatMessages
  MinuteLimit, MinuteWindow,   \* 15 messages in a minute
  BurstLimit, BurstWindow,     \* 3 messages in 10 seconds
  QueueSize,     \* capacity of Bridge.outbound
  Attempts       \* attempts of Bridge.deliver

\* Connections are numbered as they register.
Connections == 1 .. NClients

ASSUME ChatConstants ==
  /\ Discord \notin Connections
  /\ {NClients, MaxMessages} \subseteq Nat
  /\ {HistoryLimit, MinuteLimit, MinuteWindow, BurstLimit, BurstWindow,
      QueueSize, Attempts, LastTime} \subseteq Nat \ {0}

Messages == 1 .. MaxMessages

VARIABLES
  conn,      \* how far each connection is
  history,   \* welcome.ChatHistory of each connection
  inbox,     \* the chat messages put into each connection's send queue
  full,      \* connections that are to be unregistered, for a full queue
  said,      \* the messages and how far their handlers are
  rows,      \* the table chat_messages, in the order of its ids
  outbound,  \* Bridge.outbound
  trying,    \* the attempt Bridge.deliver is at, 0 while run waits
  running,   \* run has not returned
  stop,      \* Bridge.stop is closed
  passed     \* ghost: messages whose handlers had begun when c registered and
             \* that were not saved when its history was read

room == <<conn, history, inbox, full, passed>>
discord == <<outbound, trying, running, stop>>
chatVars == <<room, said, rows, discord>>

-----------------------------------------------------------------------------
(* State *)

\* The stages of a message are "heard", "kept" and "done" when all of its handler
\* is over; "refused" is one that came from Discord and could not be saved.
Unsaid == [stage |-> "none", from |-> Discord, time |-> 0, to |-> {}]

ChatInit ==
  /\ conn = [c \in Connections |-> "new"]
  /\ history = [c \in Connections |-> NoHistory]
  /\ inbox = [c \in Connections |-> <<>>]
  /\ full = {}
  /\ said = [m \in Messages |-> Unsaid]
  /\ rows = <<>>
  /\ outbound = <<>>
  /\ trying = 0
  /\ running = TRUE
  /\ stop = FALSE
  /\ passed = [c \in Connections |-> {}]

Known == {m \in Messages : said[m].stage # "none"}
Ended == {m \in Messages : said[m].stage \in {"done", "refused"}}

-----------------------------------------------------------------------------
(* Connections *)

\* The critical section of Register.
Register(c) ==
  /\ conn[c] = "new"
  /\ \A d \in Connections : d < c => conn[d] # "new"
  /\ conn' = [conn EXCEPT ![c] = "registered"]
  /\ passed' = [passed EXCEPT ![c] = Known]
  /\ UNCHANGED <<history, inbox, full, said, rows, discord>>

\* ORDER BY sent_at DESC, id DESC LIMIT.
Newer(i, j) ==
  LET t == said[rows[i]].time
      u == said[rows[j]].time
  IN t > u \/ (t = u /\ i > j)
RecentChatMessages ==
  {rows[j] : j \in {k \in DOMAIN rows :
     Cardinality({i \in DOMAIN rows : Newer(i, k)}) < HistoryLimit}}

\* After Hub.mu is released.  A failure is logged and the welcome goes without;
\* it is put into the queue behind the messages that are there.
Welcome(c) ==
  /\ conn[c] = "registered"
  /\ conn' = [conn EXCEPT ![c] = "connected"]
  /\ \/ /\ c \notin full
        /\ history' = [history EXCEPT ![c] = RecentChatMessages]
        /\ passed' = [passed EXCEPT ![c] = @ \ ToSet(rows)]
     \/ /\ UNCHANGED history
        /\ passed' = [passed EXCEPT ![c] = {}]
  /\ UNCHANGED <<inbox, full, said, rows, discord>>

\* What a connection has got is forgotten when it is to be closed.
Forget(c) ==
  /\ history' = [history EXCEPT ![c] = NoHistory]
  /\ inbox' = [inbox EXCEPT ![c] = <<>>]
  /\ passed' = [passed EXCEPT ![c] = {}]

\* At any time: the peer has gone, or a queue was full.  What is sent to it from
\* now on is lost.
Unregister(c) ==
  /\ conn[c] \notin {"new", "gone"}
  /\ conn' = [conn EXCEPT ![c] = "gone"]
  /\ full' = full \ {c}
  /\ said' = [m \in Messages |-> [said[m] EXCEPT !.to = @ \ {c}]]
  /\ Forget(c)
  /\ UNCHANGED <<rows, discord>>

-----------------------------------------------------------------------------
(* Messages *)

\* allClientsLocked: everybody in Hub.clients, welcomed or not.
WelcomedMutant == {c \in Connections : conn[c] = "connected"}
Recipients == {c \in Connections : conn[c] \notin {"new", "gone"}}

\* acceptedChatTimes: attempts that were rejected are not in it.
AcceptedSince(c, t) == {m \in Known : said[m].from = c /\ said[m].time > t}

AllowChat(c, t) ==
  /\ Cardinality(AcceptedSince(c, t - MinuteWindow)) < MinuteLimit
  /\ Cardinality(AcceptedSince(c, t - BurstWindow)) < BurstLimit

Number == Cardinality(Known) + 1

\* The clock is read by handlers only, before they wait for Hub.mu, here for one
\* unit at most.  Where it starts is of no account.
Stamps(from) ==
  {t \in 0 .. LastTime :
     /\ Known = {} => t = 1
     /\ \A m \in Known :
          /\ said[m].time <= t + 1
          /\ said[m].from = from /\ from # Discord => said[m].time <= t}

Begin(from, t) ==
  /\ Number \in Messages
  /\ said' = [said EXCEPT ![Number] =
       [stage |-> "heard", from |-> from, time |-> t, to |-> Recipients]]
  /\ UNCHANGED <<room, rows, discord>>

\* The reader of a connection is busy while it handles a message.
AtOnceMutant(c) == conn[c] = "connected"
MayChat(c) ==
  /\ conn[c] = "connected"
  /\ \A m \in Known \ Ended : said[m].from # c

\* HandleChat up to the saving.  A message above the limits, or of a player in
\* no world, is rejected and changes nothing.
HandleChat(c) ==
  /\ MayChat(c)
  /\ \E t \in Stamps(c) : AllowChat(c, t) /\ Begin(c, t)

\* For a request of the relay that is signed and has a sender and a text.  The
\* handler answers 503 if this fails.
BroadcastExternalChat == \E t \in Stamps(Discord) : Begin(Discord, t)
HandleDiscord == BroadcastExternalChat

Advance(m, stage) == said' = [said EXCEPT ![m].stage = stage]

Save(m) ==
  /\ said[m].stage = "heard"
  /\ Advance(m, "kept")
  /\ rows' = Append(rows, m)
  /\ UNCHANGED <<room, discord>>

\* HandleChat logs the failure and goes on.
SaveFails(m) ==
  /\ said[m].stage = "heard"
  /\ IF said[m].from = Discord
     THEN said' = [said EXCEPT ![m].stage = "refused", ![m].to = {}]
     ELSE Advance(m, "kept")
  /\ UNCHANGED <<room, rows, discord>>

\* One round of the loop of sendMany.  A queue that is full gets its connection
\* unregistered by another goroutine, and until then later messages perhaps.
Deliver(m, c) ==
  /\ said[m].stage = "kept"
  /\ c \in said[m].to
  /\ said' = [said EXCEPT ![m].to = @ \ {c}]
  /\ \/ /\ c \notin full
        /\ inbox' = [inbox EXCEPT ![c] = Append(@, m)]
        /\ UNCHANGED <<history, full, passed>>
     \/ /\ full' = full \cup {c}
        /\ Forget(c)
  /\ UNCHANGED <<conn, rows, discord>>

\* Bridge.Enqueue: never waits.
BlockingMutant(m) ==
  /\ Len(outbound) < QueueSize
  /\ outbound' = Append(outbound, m)
Enqueue(m) ==
  outbound' = IF Len(outbound) < QueueSize THEN Append(outbound, m) ELSE outbound

\* emitPublicChat, for messages that come from Discord too.
EmitPublicChat(m) ==
  /\ said[m].stage = "kept" /\ said[m].to = {}
  /\ Advance(m, "done")
  /\ Enqueue(m)
  /\ UNCHANGED <<room, rows, trying, running, stop>>

-----------------------------------------------------------------------------
(* The bridge *)

\* run takes a message, or sees that it is to stop: select chooses at random.
Take ==
  /\ running /\ trying = 0
  /\ outbound # <<>>
  /\ outbound' = Tail(outbound)
  /\ trying' = 1
  /\ UNCHANGED <<room, said, rows, running, stop>>

Stop ==
  /\ stop
  /\ running /\ trying = 0
  /\ running' = FALSE
  /\ UNCHANGED <<room, said, rows, outbound, trying, stop>>

\* Discord answers 2xx, or 4xx but not 429.
Answered ==
  /\ trying # 0
  /\ trying' = 0
  /\ UNCHANGED <<room, said, rows, outbound, running, stop>>

\* Discord answers 429 or 5xx, and deliver pauses; or the connection fails or
\* eight seconds pass without an answer, whether Discord posts it or not.
NextAttempt(n) == IF n < Attempts THEN n + 1 ELSE 0

Unanswered ==
  /\ trying # 0
  /\ trying' = NextAttempt(trying)
  /\ UNCHANGED <<room, said, rows, outbound, running, stop>>

\* Close, when the server ends: it waits until run has returned, and what is in
\* the queue then stays there.
Close ==
  /\ ~stop
  /\ stop' = TRUE
  /\ UNCHANGED <<room, said, rows, outbound, trying, running>>

-----------------------------------------------------------------------------
Handle(m) ==
  \/ Save(m) \/ SaveFails(m)
  \/ \E c \in Connections : Deliver(m, c)
  \/ EmitPublicChat(m)

RunBridge == Take \/ Answered \/ Unanswered \/ Stop

ChatNext ==
  \/ \E c \in Connections :
       Register(c) \/ Welcome(c) \/ Unregister(c) \/ HandleChat(c)
  \/ HandleDiscord
  \/ \E m \in Messages : Handle(m)
  \/ RunBridge
  \/ Close

ChatSpec == ChatInit /\ [][ChatNext]_chatVars

\* Saving and posting have deadlines and the queues never wait, so the handlers
\* and the bridge go on as long as they can.  Nobody has to connect, to chat or
\* to close the bridge.
ChatFairness == WF_chatVars((\E m \in Messages : Handle(m)) \/ RunBridge)

ChatFairSpec == ChatSpec /\ ChatFairness

-----------------------------------------------------------------------------
(* Properties *)

\* What a newcomer does not get in its welcome it is sent: it misses only
\* messages that were on their way at both moments, that had been heard when it
\* registered and were saved after its history was read, and those that newer
\* ones push out of the history.
PushedOut(c, m) ==
  /\ Cardinality(history[c]) = HistoryLimit
  /\ \A n \in history[c] : said[n].time >= said[m].time
HistoryMeetsLive ==
  \A c \in Connections \ full : conn[c] # "gone" /\ history[c] # NoHistory =>
    \A m \in Ended \cap ToSet(rows) :
      \/ m \in history[c]
      \/ m \in ToSet(inbox[c])
      \/ PushedOut(c, m)
      \/ m \in passed[c]

\* The messages of a connection reach every other one, and the bridge, in the
\* order in which they were said.
InOrder(s) ==
  \A i, j \in DOMAIN s :
    i < j /\ said[s[i]].from \in Connections /\ said[s[i]].from = said[s[j]].from
      => s[i] < s[j]
SendersAreInOrder ==
  /\ \A c \in Connections : InOrder(inbox[c])
  /\ InOrder(outbound)

\* The handlers of the messages and a call of Close end, even if Discord never
\* answers and after the bridge was closed.
EverythingEnds ==
  []<>(Known = Ended /\ (stop => ~running))

-----------------------------------------------------------------------------
(* The inductive invariant *)

Stages == {"none", "heard", "kept", "done", "refused"}

ChatTypeOK ==
  /\ conn \in [Connections -> {"new", "registered", "connected", "gone"}]
  /\ history \in [Connections -> (SUBSET Messages) \cup {NoHistory}]
  /\ inbox \in [Connections -> Seq(Messages)]
  /\ full \subseteq Connections
  /\ said \in [Messages -> [stage : Stages, from : Connections \cup {Discord},
                            time : Nat, to : SUBSET Connections]]
  /\ rows \in Seq(Messages)
  /\ outbound \in Seq(Messages)
  /\ trying \in 0 .. Attempts
  /\ running \in BOOLEAN /\ stop \in BOOLEAN
  /\ passed \in [Connections -> SUBSET Messages]

\* The numbers are given in order, and a connection's next message begins when
\* the handlers of those before it are over.
OneAtATime ==
  /\ \E n \in 0 .. MaxMessages : Known = 1 .. n
  /\ \A m, n \in Known :
       m < n /\ said[m].from \in Connections /\ said[m].from = said[n].from => m \in Ended

\* A message is saved once, after it was heard.
RowsAreKept ==
  /\ \A i \in DOMAIN rows : said[rows[i]].stage \in {"kept", "done"}
  /\ \A i, j \in DOMAIN rows : rows[i] = rows[j] => i = j

\* It is put into a queue once, and handed to the bridge when it is in all.
InboxesAreKnown ==
  \A c \in Connections : \A m \in ToSet(inbox[c]) : m \in Known /\ c \notin said[m].to
OutboundIsEnded == ToSet(outbound) \subseteq Ended
EndedAreSent == \A m \in Ended : said[m].to = {}

\* Between the registration of c and the loading of its history a message is in
\* passed[c] or on its way to c; the loading takes over those that are saved.
Reaches(c, m) ==
  \/ said[m].stage = "refused"
  \/ c \in said[m].to
  \/ m \in ToSet(inbox[c])
  \/ m \in passed[c]
  \/ conn[c] = "connected" /\ history[c] = NoHistory
  \/ history[c] # NoHistory /\ (m \in history[c] \/ PushedOut(c, m))

NothingIsLost ==
  \A c \in Connections :
    /\ conn[c] \in {"new", "registered"} => history[c] = NoHistory
    /\ history[c] # NoHistory => history[c] \subseteq Known
    /\ c \notin full /\ conn[c] \in {"registered", "connected"} =>
         \A m \in Known : Reaches(c, m)

ChatIInv ==
  /\ ChatTypeOK /\ OneAtATime /\ RowsAreKept /\ InboxesAreKnown /\ OutboundIsEnded
  /\ EndedAreSent /\ SendersAreInOrder /\ NothingIsLost

=============================================================================
