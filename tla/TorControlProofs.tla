-------------------------- MODULE TorControlProofs --------------------------
(***************************************************************************)
(* Proofs about the torcontrol plug-in and Tor, for any number of circuits *)
(* and events: the builder asks for one circuit at a time and never gives  *)
(* a circuit an id that Tor gave to another, until an odd event; the       *)
(* pinger has one ping under way, whatever happens.                        *)
(*                                                                         *)
(* None of the three is inductive.  A reply is matched to its command by   *)
(* nothing but the state of the module, so the invariant says, for every   *)
(* state, which commands Tor has not seen (Cmds) and which lines the       *)
(* plug-in has not handled (Due), wherever they are on the way.            *)
(***************************************************************************)
EXTENDS TorControlSys, TLAPS, SequenceTheorems, FiniteSetTheorems

-----------------------------------------------------------------------------
(* The inductive invariant.                                                *)

Extending == {<<"EXTENDCIRCUIT", k>> : k \in 0..NumCircuits}
Closing == {<<"CLOSECIRCUIT", id>> : id \in Nat}
Attaching == {<<"ATTACHSTREAM", s, id>> : s \in Nat, id \in Int}
Commands ==
    {<<"AUTHENTICATE">>, <<"SETCONF">>, <<"SETEVENTS">>, <<"GETINFO">>}
      \cup Extending \cup Closing \cup Attaching

Kinds == {"ok", "error", "phase", "extended", "circ", "stream", "bootstrap"}
Lines == [kind : Kinds, val : Nat, status : {"", "EXTENDED", "FAILED", "CLOSED"},
          more : BOOLEAN]

States ==
    {"AUTHENTICATE", "SETCONFS", "SETEVENTS", "CHECKSTATUS", "CREATE_CIRCUIT", "GET_CIRC_ID",
     "ATTACH_STREAMS", "SEND_AUTHENTICATE", "RECV_AUTHENTICATE", "SEND_SETEVENTS",
     "RECV_SETEVENTS", "IDLE"}

Connections ==
    [sendBuf : Seq(Commands), up : Seq(Commands), interest : {"IN", "OUT"},
     lines : Seq(Lines), reply : Seq(Lines), state : States, nextState : States,
     waiting : BOOLEAN, bootstrapped : BOOLEAN, queue : Seq(Circuits),
     circID : [Circuits -> Int], outstanding : SUBSET Nat, timers : Nat,
     crashed : BOOLEAN]

Types ==
    /\ mode \in Modes /\ t \in Connections /\ net \in NetStates /\ now \in 0..NumCircuits
    /\ down \in Seq(Lines) /\ when \in BootTimes /\ booted \in BOOLEAN
    /\ events \in BOOLEAN /\ asked \in BOOLEAN /\ made \in Seq(0..NumCircuits)
    /\ alive \in SUBSET Nat /\ streams \in Nat

\* Commands that Tor has not seen, and lines that were not handled, in their order.
Cmds(c) == c.up \o c.sendBuf
Due == t.reply \o (t.lines \o down)

\* All elements of s are in Q; all but one, which is in X.
All(s, Q) == \A i \in 1..Len(s) : s[i] \in Q
One(s, X, Q) ==
    \E i \in 1..Len(s) : s[i] \in X /\ \A j \in 1..Len(s) : j # i => s[j] \in Q

Plain(kinds) == {l \in Lines : l.kind \in kinds /\ ~l.more}
Events == Plain({"stream", "circ"})
Harmless == Plain({"stream", "circ", "ok", "error"})
Phases == {l \in Lines : /\ l.kind = "phase" /\ l.more
                         /\ l.val = IF when = "before" THEN 100 ELSE 50}
Boots == {l \in Plain({"bootstrap"}) : l.val = 100}

\* Tor's answer to the command that asks for circuit k.
Extended(k) == {l \in Plain({"extended"}) : l.val \in DOMAIN made /\ made[l.val] = k}

\* EXTENDCIRCUIT commands and their answers, and all others.
Asking == {c \in Commands : c[1] = "EXTENDCIRCUIT"}
Made == {l \in Lines : l.kind = "extended"}
OtherCommands == Commands \ Asking
OtherLines == Lines \ Made

\* Nothing is built yet.
Fresh(c) ==
    ~c.bootstrapped /\ c.queue # <<>> /\ \A k \in Circuits : c.circID[k] = -1

\* The steps of the set-up before the last: state, next state, command.
SetupSteps ==
    {<<"AUTHENTICATE", "SETCONFS", <<"AUTHENTICATE">> >>,
     <<"SETCONFS", "SETEVENTS", <<"SETCONF">> >>,
     <<"SETEVENTS", "CHECKSTATUS", <<"SETEVENTS">> >>}

\* Nothing was sent.
Start(c, q) ==
    /\ Fresh(c) /\ net = "open" /\ ~asked
    /\ c.state = "AUTHENTICATE" /\ c.nextState = "AUTHENTICATE" /\ ~c.waiting
    /\ Cmds(c) = <<>> /\ All(q, Events)

\* The command of a step is on its way, or its answer.
Setup(c, q) ==
    /\ Fresh(c) /\ net = "open" /\ ~asked /\ c.waiting
    /\ \E s \in SetupSteps :
          /\ c.state = s[1] /\ c.nextState = s[2]
          /\ \/ Cmds(c) = <<s[3]>> /\ All(q, Events)
             \/ Cmds(c) = <<>> /\ One(q, Plain({"ok"}), Events)

\* GETINFO is on its way, or its answer, and after that the news that Tor has
\* bootstrapped, if it had not before.
StatusAnswer(q) ==
    \E i \in 1..Len(q) : \E k \in 1..Len(q) :
        /\ i + 1 \in 1..Len(q) /\ q[i] \in Phases /\ q[i + 1] \in Plain({"ok"})
        /\ IF booted /\ when = "after" THEN k > i + 1 /\ q[k] \in Boots ELSE k = i
        /\ \A j \in 1..Len(q) : j \notin {i, i + 1, k} => q[j] \in Events

Checking(c, q) ==
    /\ Fresh(c) /\ net = "open" /\ c.state = "CHECKSTATUS" /\ c.waiting
    /\ \/ ~asked /\ Cmds(c) = << <<"GETINFO">> >> /\ All(q, Events)
       \/ asked /\ Cmds(c) = <<>> /\ StatusAnswer(q)

\* Tor had not bootstrapped, and the news of it is yet to come.
Creating(c, q) ==
    /\ Fresh(c) /\ asked /\ when = "after"
    /\ c.state = "CREATE_CIRCUIT" /\ c.waiting /\ Cmds(c) = <<>>
    /\ IF booted THEN One(q, Boots, Events) ELSE All(q, Events)

\* The circuit at the head of the queue was asked for: the command is on its way, or
\* the answer.
Building(c, q) ==
    /\ c.bootstrapped /\ booted /\ asked /\ c.state = "GET_CIRC_ID" /\ c.waiting
    /\ c.queue # <<>>
    /\ \/ /\ One(Cmds(c), {<<"EXTENDCIRCUIT", Head(c.queue)>>}, Attaching)
          /\ All(q, Harmless)
       \/ All(Cmds(c), Attaching) /\ One(q, Extended(Head(c.queue)), Harmless)

\* All circuits were built.
Built(c, q) ==
    /\ c.bootstrapped /\ booted /\ asked /\ c.state = "ATTACH_STREAMS" /\ c.waiting
    /\ c.queue = <<>> /\ All(Cmds(c), Attaching) /\ All(q, Harmless)

\* A socket with room for one command finds nothing in the send buffer.
Roomy(c) == net = "tight" => c.sendBuf = <<>>

IdsReal(c) ==
    \A k \in Circuits :
        c.circID[k] # -1 => c.circID[k] \in DOMAIN made /\ made[c.circID[k]] = k

\* The stages of the builder.
Builder(c, q) ==
    /\ ~c.crashed /\ c.timers = 0 /\ IdsReal(c) /\ Roomy(c)
    /\ \/ Start(c, q) \/ Setup(c, q) \/ Checking(c, q)
       \/ Creating(c, q) \/ Building(c, q) \/ Built(c, q)

\* The race: Tor has bootstrapped during set-up, and the news of it comes before the
\* answer to GETINFO, if that was asked at all.
InSetup == {"AUTHENTICATE", "SETCONFS", "SETEVENTS", "CHECKSTATUS"}
Setters == {<<"AUTHENTICATE">>, <<"SETCONF">>, <<"SETEVENTS">>, <<"GETINFO">>}
NoNews == Plain({"ok", "stream", "circ"})
NewsComes(q) ==
    \E n \in 1..Len(q) : q[n] \in Boots /\ \A i \in 1..Len(q) : i < n => q[i] \in NoNews

Racing(c, q) ==
    /\ booted /\ when = "during" /\ Fresh(c) /\ net = "open" /\ ~c.crashed /\ c.timers = 0
    /\ c.state \in InSetup /\ (c.state # "CHECKSTATUS" => c.nextState \in InSetup)
    /\ All(Cmds(c), Setters) /\ All(q, OtherLines) /\ NewsComes(q)

\* A reply that has begun is the one with the phase.
Begun ==
    \/ t.reply = <<>>
    \/ Len(t.reply) = 1 /\ t.reply[1] \in Phases /\ mode = "circuitBuild"

\* When Tor bootstraps.
InTime ==
    /\ when = "before" => booted
    /\ when = "during" => ~booted /\ ~asked
    /\ when = "after" /\ booted => asked

\* Commands and lines that no ping hangs on.
Quiet == {<<"AUTHENTICATE">>, <<"SETEVENTS">>} \cup Closing
Murmurs == Plain({"ok", "error", "circ", "stream", "bootstrap"})

\* The logger and the pinger: no ping, or one of them, asked for, under way or due.
NoPing(c, q) ==
    All(Cmds(c), Quiet) /\ All(q, Murmurs) /\ c.outstanding = {} /\ c.timers = 0

\* Nothing follows the command in the send buffer, so that it is not sent in part.
AsksOnce(c) ==
    /\ One(Cmds(c), {<<"EXTENDCIRCUIT", 0>>}, Quiet)
    /\ \A i \in 1..Len(c.sendBuf) : i < Len(c.sendBuf) => c.sendBuf[i] \in Quiet

Pinging(c, q) ==
    \/ /\ AsksOnce(c)
       /\ All(q, Murmurs) /\ c.outstanding = {} /\ c.timers = 0
    \/ /\ One(q, Plain({"extended"}), Murmurs)
       /\ All(Cmds(c), Quiet) /\ c.outstanding = {} /\ c.timers = 0
    \/ /\ \E id \in Nat : c.outstanding = {id}
       /\ All(Cmds(c), Quiet) /\ All(q, Murmurs) /\ c.timers = 0
    \/ /\ c.timers = 1
       /\ All(Cmds(c), Quiet) /\ All(q, Murmurs) /\ c.outstanding = {}

Managed(c, q) ==
    /\ \A k \in Circuits : c.circID[k] = -1
    /\ \/ NoPing(c, q)
       \/ mode = "ping" /\ c.state = "IDLE" /\ c.nextState = "IDLE" /\ Pinging(c, q)

BuilderInv ==
    mode = "circuitBuild" => Types /\ Begun /\ InTime /\ Builder(t, Due)

RaceInv ==
    mode = "circuitBuild" => Types /\ t.reply = <<>> /\ Racing(t, Due)

\* Until the first odd event.
InOrder == odd = {} => BuilderInv \/ RaceInv

ManagedInv ==
    mode # "circuitBuild" => Types /\ t.reply = <<>> /\ Managed(t, Due)

-----------------------------------------------------------------------------
(* Sequences: their ends, and what All and One say of them.                *)

LEMMA Joined ==
    ASSUME NEW S, NEW s \in Seq(S), NEW r \in Seq(S)
    PROVE  /\ s \o r \in Seq(S) /\ Len(s \o r) = Len(s) + Len(r)
           /\ Len(s) \in Nat /\ Len(r) \in Nat
           /\ \A i \in 1..Len(s) : i \in 1..Len(s \o r) /\ (s \o r)[i] = s[i]
           /\ \A i \in 1..Len(r) : Len(s) + i \in 1..Len(s \o r) /\ (s \o r)[Len(s) + i] = r[i]
           /\ \A i \in 1..Len(s \o r) :
                 i \in 1..Len(s) \/ \E j \in 1..Len(r) : i = Len(s) + j
  <1>1. s \o r \in Seq(S) /\ Len(s \o r) = Len(s) + Len(r) /\ Len(s) \in Nat /\ Len(r) \in Nat
        /\ \A i \in 1..Len(s) + Len(r) :
              (s \o r)[i] = IF i <= Len(s) THEN s[i] ELSE r[i - Len(s)]
    BY ConcatProperties, LenProperties
  <1>2. \A i \in 1..Len(s \o r) : i \in 1..Len(s) \/ i - Len(s) \in 1..Len(r)
    BY <1>1
  <1>3. \A i \in 1..Len(r) : (s \o r)[Len(s) + i] = r[i]
    <2> SUFFICES ASSUME NEW i \in 1..Len(r)  PROVE  (s \o r)[Len(s) + i] = r[i]
      OBVIOUS
    <2>1. PICK j \in 1..Len(s) + Len(r) : j = Len(s) + i
      BY <1>1
    <2>2. ~(j <= Len(s)) /\ j - Len(s) = i
      BY <1>1, <2>1
    <2>3. (s \o r)[j] = r[j - Len(s)]
      BY <1>1, <2>1, <2>2
    <2> QED BY <2>1, <2>2, <2>3
  <1>4. \A i \in 1..Len(s \o r) : i - Len(s) \in 1..Len(r) => i = Len(s) + (i - Len(s))
    BY <1>1
  <1> QED BY <1>1, <1>2, <1>3, <1>4

LEMMA HeadTaken ==
    ASSUME NEW S, NEW s \in Seq(S), s # <<>>
    PROVE  /\ Tail(s) \in Seq(S) /\ Head(s) = s[1] /\ Head(s) \in S
           /\ Len(s) \in Nat \ {0} /\ Len(Tail(s)) = Len(s) - 1 /\ 1 \in 1..Len(s)
           /\ \A i \in 1..Len(Tail(s)) : i + 1 \in 1..Len(s) /\ Tail(s)[i] = s[i + 1]
           /\ \A i \in 1..Len(s) : i # 1 => i - 1 \in 1..Len(Tail(s)) /\ Tail(s)[i - 1] = s[i]
  <1>1. Tail(s) \in Seq(S) /\ Head(s) \in S /\ Len(s) \in Nat /\ Len(Tail(s)) = Len(s) - 1
        /\ \A i \in 1..Len(s) - 1 : Tail(s)[i] = s[i + 1]
    BY HeadTailProperties, LenProperties
  <1>2. Len(s) # 0 /\ Head(s) = s[1]
    BY EmptySeq
  <1>3. ASSUME NEW i \in 1..Len(s), i # 1
        PROVE  i - 1 \in 1..Len(Tail(s)) /\ Tail(s)[i - 1] = s[i]
    <2>1. PICK j \in 1..Len(s) - 1 : j = i - 1 /\ j + 1 = i
      BY <1>1, <1>3
    <2> QED BY <1>1, <2>1
  <1> QED BY <1>1, <1>2, <1>3

\* The front of two sequences in a row is that of the first.
LEMMA FrontFirst ==
    ASSUME NEW S, NEW s \in Seq(S), NEW r \in Seq(S), s # <<>>
    PROVE  /\ s \o r \in Seq(S) /\ s \o r # <<>>
           /\ Head(s \o r) = Head(s) /\ Tail(s \o r) = Tail(s) \o r
  <1>1. s \o r \in Seq(S) /\ s \o r # <<>>
    BY ConcatProperties, ConcatEqualIffEmpty
  <1>2. Tail(s) \in Seq(S) /\ Tail(s \o r) \in Seq(S)
    BY <1>1, HeadTaken
  <1>3. Tail(s) \o r \in Seq(S)
    BY <1>2, ConcatProperties
  <1>4. Head(s \o r) = Head(s)
    <2>1. Head(s \o r) = (s \o r)[1] /\ Head(s) = s[1] /\ 1 \in 1..Len(s)
      BY <1>1, HeadTaken
    <2>2. (s \o r)[1] = s[1]
      BY <2>1, Joined
    <2> QED BY <2>1, <2>2
  <1>5. Len(Tail(s \o r)) = Len(Tail(s) \o r)
    <2>1. Len(s \o r) = Len(s) + Len(r) /\ Len(Tail(s) \o r) = Len(Tail(s)) + Len(r)
          /\ Len(r) \in Nat
      BY <1>2, Joined
    <2>2. Len(Tail(s)) = Len(s) - 1 /\ Len(Tail(s \o r)) = Len(s \o r) - 1 /\ Len(s) \in Nat
      BY <1>1, HeadTaken
    <2> DEFINE a == Len(s)  b == Len(r)  x == Len(s \o r)  y == Len(Tail(s))
    <2>3. a \in Nat /\ b \in Nat /\ x = a + b /\ y = a - 1
      BY <2>1, <2>2
    <2>4. Len(Tail(s \o r)) = x - 1 /\ Len(Tail(s) \o r) = y + b
      BY <2>1, <2>2
    <2> HIDE DEF a, b, x, y
    <2> QED BY <2>3, <2>4
  <1>6. ASSUME NEW i \in 1..Len(Tail(s \o r))
        PROVE  Tail(s \o r)[i] = (Tail(s) \o r)[i]
    <2>1. i + 1 \in 1..Len(s \o r) /\ Tail(s \o r)[i] = (s \o r)[i + 1]
      BY <1>1, <1>6, HeadTaken
    <2>2. i \in 1..Len(Tail(s) \o r) /\ i \in Nat \ {0}
      BY <1>5, <1>6
    <2>3. CASE i \in 1..Len(Tail(s))
      <3>1. (Tail(s) \o r)[i] = Tail(s)[i]
        BY <1>2, <2>3, Joined
      <3>2. i + 1 \in 1..Len(s) /\ Tail(s)[i] = s[i + 1]
        BY <2>3, HeadTaken
      <3>3. (s \o r)[i + 1] = s[i + 1]
        BY <3>2, Joined
      <3> QED BY <2>1, <3>1, <3>2, <3>3
    <2>4. CASE \E j \in 1..Len(r) : i = Len(Tail(s)) + j
      <3>1. PICK j \in 1..Len(r) : i = Len(Tail(s)) + j
        BY <2>4
      <3>2. (Tail(s) \o r)[i] = r[j]
        BY <1>2, <3>1, Joined
      <3>3. (s \o r)[Len(s) + j] = r[j]
        BY <3>1, Joined
      <3>4. i + 1 = Len(s) + j
        <4>1. Len(Tail(s)) = Len(s) - 1 /\ Len(s) \in Nat
          BY HeadTaken
        <4> QED BY <3>1, <4>1
      <3> QED BY <2>1, <3>2, <3>3, <3>4
    <2>5. i \in 1..Len(Tail(s)) \/ \E j \in 1..Len(r) : i = Len(Tail(s)) + j
      BY <1>2, <2>2, Joined
    <2> QED BY <2>3, <2>4, <2>5
  <1> QED
    BY <1>1, <1>2, <1>3, <1>4, <1>5, <1>6, SeqEqual

LEMMA AllJoined ==
    ASSUME NEW S, NEW s \in Seq(S), NEW r \in Seq(S), NEW Q, All(s, Q), All(r, Q)
    PROVE  All(s \o r, Q)
  BY Joined DEF All

LEMMA OneJoined ==
    ASSUME NEW S, NEW s \in Seq(S), NEW r \in Seq(S), NEW X, NEW Q,
           (One(s, X, Q) /\ All(r, Q)) \/ (All(s, Q) /\ One(r, X, Q))
    PROVE  One(s \o r, X, Q)
  <1>1. CASE One(s, X, Q) /\ All(r, Q)
    <2>1. PICK i \in 1..Len(s) : s[i] \in X /\ \A j \in 1..Len(s) : j # i => s[j] \in Q
      BY <1>1 DEF One
    <2>2. i \in 1..Len(s \o r) /\ (s \o r)[i] \in X
      BY <2>1, Joined
    <2>3. ASSUME NEW j \in 1..Len(s \o r), j # i
          PROVE  (s \o r)[j] \in Q
      <3>1. CASE j \in 1..Len(s)
        BY <2>1, <2>3, <3>1, Joined
      <3>2. CASE \E k \in 1..Len(r) : j = Len(s) + k
        BY <1>1, <3>2, Joined DEF All
      <3> QED BY <3>1, <3>2, Joined
    <2> QED BY <2>2, <2>3 DEF One
  <1>2. CASE All(s, Q) /\ One(r, X, Q)
    <2>1. PICK i \in 1..Len(r) : r[i] \in X /\ \A j \in 1..Len(r) : j # i => r[j] \in Q
      BY <1>2 DEF One
    <2>2. PICK n : n = Len(s) + i
      OBVIOUS
    <2>3. n \in 1..Len(s \o r) /\ (s \o r)[n] \in X
      BY <2>1, <2>2, Joined
    <2>4. ASSUME NEW j \in 1..Len(s \o r), j # n
          PROVE  (s \o r)[j] \in Q
      <3>1. CASE j \in 1..Len(s)
        BY <1>2, <3>1, Joined DEF All
      <3>2. CASE \E k \in 1..Len(r) : j = Len(s) + k
        <4>1. PICK k \in 1..Len(r) : j = Len(s) + k
          BY <3>2
        <4>2. k # i
          BY <2>2, <2>4, <4>1
        <4>3. (s \o r)[j] = r[k]
          BY <4>1, Joined
        <4> QED BY <2>1, <4>2, <4>3
      <3> QED BY <3>1, <3>2, Joined
    <2> QED BY <2>3, <2>4 DEF One
  <1> QED BY <1>1, <1>2

\* A sequence of one element.
LEMMA Single ==
    ASSUME NEW S, NEW x \in S, NEW Q
    PROVE  /\ <<x>> \in Seq(S) /\ Len(<<x>>) = 1 /\ <<x>>[1] = x
           /\ x \in Q => All(<<x>>, Q)
           /\ \A X : x \in X => One(<<x>>, X, Q)
  BY DEF All, One

LEMMA Two ==
    ASSUME NEW S, NEW x \in S, NEW y \in S
    PROVE  Append(<<x>>, y) = <<x, y>>
  <1> DEFINE a == Append(<<x>>, y)
             b == <<x, y>>
  <1>1. a \in Seq(S) /\ Len(a) = 2 /\ a[1] = x /\ a[2] = y
    OBVIOUS
  <1>2. b \in Seq(S) /\ Len(b) = 2 /\ b[1] = x /\ b[2] = y
    OBVIOUS
  <1> HIDE DEF a, b
  <1>3. \A i \in 1..Len(a) : i = 1 \/ i = 2
    BY <1>1
  <1>4. a = b
    BY <1>1, <1>2, <1>3, SeqEqual
  <1> QED BY <1>4 DEF a, b

LEMMA NoneAtAll ==
    ASSUME NEW Q
    PROVE  All(<<>>, Q) /\ \A X : ~One(<<>>, X, Q)
  BY DEF All, One

\* Without its first element.
LEMMA AllTaken ==
    ASSUME NEW S, NEW s \in Seq(S), s # <<>>, NEW Q, All(s, Q)
    PROVE  Head(s) \in Q /\ All(Tail(s), Q)
  BY HeadTaken DEF All

LEMMA OneTaken ==
    ASSUME NEW S, NEW s \in Seq(S), s # <<>>, NEW X, NEW Q, One(s, X, Q)
    PROVE  \/ Head(s) \in X /\ All(Tail(s), Q)
           \/ Head(s) \in Q /\ One(Tail(s), X, Q)
  <1>1. PICK i \in 1..Len(s) : s[i] \in X /\ \A j \in 1..Len(s) : j # i => s[j] \in Q
    BY DEF One
  <1>2. CASE i = 1
    <2>1. ASSUME NEW j \in 1..Len(Tail(s))
          PROVE  Tail(s)[j] \in Q
      <3>1. j + 1 \in 1..Len(s) /\ Tail(s)[j] = s[j + 1]
        BY HeadTaken
      <3>2. j + 1 # 1
        OBVIOUS
      <3> QED BY <1>1, <1>2, <3>1, <3>2
    <2>2. Head(s) = s[1]
      BY HeadTaken
    <2> QED BY <1>1, <1>2, <2>1, <2>2 DEF All
  <1>3. CASE i # 1
    <2>1. i - 1 \in 1..Len(Tail(s)) /\ Tail(s)[i - 1] = s[i] /\ Head(s) = s[1] /\ 1 \in 1..Len(s)
      BY <1>3, HeadTaken
    <2>2. ASSUME NEW j \in 1..Len(Tail(s)), j # i - 1
          PROVE  Tail(s)[j] \in Q
      <3>1. j + 1 \in 1..Len(s) /\ Tail(s)[j] = s[j + 1]
        BY HeadTaken
      <3>2. j + 1 # i
        BY <2>2
      <3> QED BY <1>1, <3>1, <3>2
    <2>3. Tail(s)[i - 1] \in X /\ Head(s) \in Q
      BY <1>1, <1>3, <2>1
    <2> QED BY <2>1, <2>2, <2>3 DEF One
  <1> QED BY <1>2, <1>3

LEMMA Weaker ==
    ASSUME NEW s, NEW X, NEW Y, NEW P, NEW Q, X \subseteq Y, P \subseteq Q
    PROVE  (All(s, P) => All(s, Q)) /\ (One(s, X, P) => One(s, Y, Q))
  BY DEF All, One

-----------------------------------------------------------------------------
(* Sending: a socket that takes all or nothing, or has room for the only   *)
(* command there is, leaves the commands in their order.                   *)

AnyNet == net \in {"open", "blocked", "tight"}

\* c and d differ at most in what was sent, and in the state.
SameData(c, d) ==
    /\ d.lines = c.lines /\ d.reply = c.reply
    /\ d.bootstrapped = c.bootstrapped /\ d.queue = c.queue /\ d.circID = c.circID
    /\ d.outstanding = c.outstanding /\ d.timers = c.timers /\ d.crashed = c.crashed
    /\ Roomy(c) => Roomy(d)

\* c and d differ at most in what was sent.
SameModule(c, d) ==
    /\ SameData(c, d)
    /\ d.state = c.state /\ d.nextState = c.nextState /\ d.waiting = c.waiting

LEMMA PutKeeps ==
    ASSUME NEW c \in Connections, NEW cmds \in Seq(Commands), AnyNet,
           net = "tight" => Len(cmds) = 1
    PROVE  /\ Put(c, cmds) \in Connections
           /\ SameModule(c, Put(c, cmds))
           /\ Cmds(Put(c, cmds)) = c.up \o cmds
           /\ Cmds(Put(c, cmds)) \in Seq(Commands)
  <1>1. c.up \in Seq(Commands) /\ Len(cmds) \in Nat
    BY LenProperties DEF Connections
  <1>2. PICK n \in {0, Len(cmds)} : n = Taken(cmds) /\ (n = 0 => net = "blocked" \/ Len(cmds) = 0)
    BY <1>1 DEF AnyNet, Taken
  <1> DEFINE u == c.up \o SubSeq(cmds, 1, n)
             b == Unsent(cmds, n)
             w == WaitFor(cmds, n)
  <1>3. u \in Seq(Commands) /\ b \in Seq(Commands) /\ w \in {"IN", "OUT"} /\ u \o b = c.up \o cmds
        /\ c.up \o cmds \in Seq(Commands) /\ (net = "tight" => b = <<>>)
    <2>1. c.up \o cmds \in Seq(Commands) /\ c.up \o <<>> = c.up /\ <<>> \in Seq(Commands)
          /\ (c.up \o cmds) \o <<>> = c.up \o cmds /\ w \in {"IN", "OUT"}
      BY <1>1, ConcatProperties, ConcatEmptySeq, EmptySeq DEF WaitFor
    <2>2. CASE n = Len(cmds)
      <3>1. SubSeq(cmds, 1, n) = cmds /\ b = <<>>
        BY <1>1, <2>2, SubSeqFull DEF Unsent
      <3> QED BY <2>1, <3>1
    <2>3. CASE n # Len(cmds)
      <3>1. n = 0 /\ ~(n >= Len(cmds))
        BY <1>1, <1>2, <2>3
      <3>2. SubSeq(cmds, 1, n) = <<>> /\ b = cmds
        BY <3>1, SubSeqEmpty DEF Unsent
      <3>3. net # "tight"
        BY <1>1, <1>2, <3>1
      <3> QED BY <1>1, <2>1, <3>2, <3>3
    <2> QED BY <2>2, <2>3
  <1>4. Put(c, cmds) = [c EXCEPT !.up = u, !.sendBuf = b, !.interest = w]
    BY <1>2 DEF Put
  <1> HIDE DEF u, b, w
  <1> DEFINE d == [c EXCEPT !.up = u, !.sendBuf = b, !.interest = w]
  <1>5. d \in Connections /\ d.up = u /\ d.sendBuf = b /\ SameModule(c, d)
    BY <1>3 DEF Connections, SameModule, SameData, Roomy
  <1> HIDE DEF d
  <1>6. Cmds(d) = u \o b
    BY <1>5 DEF Cmds
  <1> QED BY <1>3, <1>4, <1>5, <1>6 DEF d

LEMMA CmdsType ==
    ASSUME NEW c \in Connections
    PROVE  Cmds(c) \in Seq(Commands) /\ c.up \in Seq(Commands) /\ c.sendBuf \in Seq(Commands)
  BY ConcatProperties DEF Connections, Cmds

\* Three sequences put together in either order.
InTurn(a, b, c) == a \o (b \o c) = (a \o b) \o c

LEMMA JoinedInTurn ==
    ASSUME NEW S, NEW a \in Seq(S), NEW b \in Seq(S), NEW c \in Seq(S)
    PROVE  InTurn(a, b, c)
  BY ConcatAssociative DEF InTurn

Sent(c, cmd, d) ==
    d \in Connections /\ SameModule(c, d) /\ Cmds(d) = Cmds(c) \o <<cmd>>

LEMMA SendCommandKeeps ==
    ASSUME NEW c \in Connections, NEW cmd \in Commands, AnyNet, Roomy(c)
    PROVE  /\ Sent(c, cmd, SendCommand(c, cmd))
           /\ Accepted(c, cmd) <=> net # "blocked"
  <1>1. /\ Append(c.sendBuf, cmd) = c.sendBuf \o <<cmd>> /\ <<cmd>> \in Seq(Commands)
        /\ Append(c.sendBuf, cmd) \in Seq(Commands)
        /\ Len(Append(c.sendBuf, cmd)) = Len(c.sendBuf) + 1 /\ Len(c.sendBuf) \in Nat
    <2>1. Append(c.sendBuf, cmd) = c.sendBuf \o <<cmd>>
      BY CmdsType, AppendIsConcat
    <2>2. c.sendBuf \o <<cmd>> \in Seq(Commands) /\ <<cmd>> \in Seq(Commands)
          /\ Len(c.sendBuf \o <<cmd>>) = Len(c.sendBuf) + 1 /\ Len(c.sendBuf) \in Nat
      BY CmdsType, Joined, Single
    <2> QED BY <2>1, <2>2
  <1>0. net = "tight" => Len(Append(c.sendBuf, cmd)) = 1
    BY <1>1, EmptySeq DEF Roomy
  <1>2. Cmds(Put(c, Append(c.sendBuf, cmd))) = c.up \o (c.sendBuf \o <<cmd>>)
    BY <1>0, <1>1, PutKeeps
  <1>3. c.up \o (c.sendBuf \o <<cmd>>) = Cmds(c) \o <<cmd>>
    <2>1. c.up \in Seq(Commands) /\ c.sendBuf \in Seq(Commands) /\ <<cmd>> \in Seq(Commands)
      BY <1>1, CmdsType
    <2>2. InTurn(c.up, c.sendBuf, <<cmd>>)
      BY <2>1, JoinedInTurn
    <2> QED BY <2>2 DEF Cmds, InTurn
  <1>4. Accepted(c, cmd) <=> net # "blocked"
    BY <1>1 DEF Accepted, Taken, AnyNet
  <1> QED
    BY <1>0, <1>1, <1>2, <1>3, <1>4, PutKeeps DEF SendCommand, Sent

\* A command is sent, and the module waits for the answer.
Asks(c, cmd, s, next) == Try(c, cmd, s, next, TRUE)
Asked(c, cmd, s, next, d) ==
    /\ d \in Connections /\ Cmds(d) = Cmds(c) \o <<cmd>> /\ SameData(c, d)
    /\ d.state = s /\ d.nextState = next /\ d.waiting

LEMMA AskSends ==
    ASSUME NEW c \in Connections, NEW cmd \in Commands, NEW s \in States, NEW next \in States,
           AnyNet, net = "open", NEW d, d = Asks(c, cmd, s, next)
    PROVE  Asked(c, cmd, s, next, d)
  <1> DEFINE e == SendCommand(c, cmd)
  <1>1. e \in Connections /\ SameModule(c, e) /\ Cmds(e) = Cmds(c) \o <<cmd>>
        /\ Accepted(c, cmd)
    <2>1. Roomy(c)
      BY DEF Roomy
    <2> QED BY <2>1, SendCommandKeeps DEF Sent
  <1>2. d = [e EXCEPT !.state = s, !.nextState = next, !.waiting = TRUE]
    BY <1>1 DEF Asks, Try
  <1> HIDE DEF e
  <1>3. /\ d \in Connections /\ d.state = s /\ d.nextState = next /\ d.waiting
        /\ d.up = e.up /\ d.sendBuf = e.sendBuf
        /\ SameData(c, d)
    BY <1>1, <1>2 DEF Connections, SameModule, SameData, Roomy
  <1>4. Cmds(d) = Cmds(e)
    BY <1>3 DEF Cmds
  <1> QED BY <1>1, <1>3, <1>4 DEF Asked

-----------------------------------------------------------------------------
(* The builder: the handlers lead from one stage to the next.              *)

\* What the handlers take for granted.
Setting ==
    /\ AnyNet /\ InTime /\ made \in Seq(0..NumCircuits) /\ now \in 0..NumCircuits
    /\ when \in {"before", "during", "after"} /\ booted \in BOOLEAN /\ asked \in BOOLEAN

\* Set-up goes on only from the start.
LEMMA BuilderInitialize ==
    ASSUME Setting, NEW c \in Connections, NEW q, Builder(c, q),
           NEW d, d = CircuitBuildInitialize(c)
    PROVE  d \in Connections /\ Builder(d, q) /\ d.lines = c.lines /\ d.reply = c.reply
  <1>1. CASE c.waiting
    BY <1>1 DEF CircuitBuildInitialize
  <1>2. CASE ~c.waiting
    <2>1. Start(c, q)
      BY <1>2 DEF Builder, Setup, Checking, Creating, Building, Built
    <2>2. net = "open" /\ Cmds(c) = <<>> /\ AnyNet
      BY <2>1 DEF Start, Setting
    <2>3. PICK cmd \in Commands, s \in States, next \in States :
             cmd = <<"AUTHENTICATE">> /\ s = "AUTHENTICATE" /\ next = "SETCONFS"
      <3>1. <<"AUTHENTICATE">> \in Commands
        BY DEF Commands
      <3>2. "AUTHENTICATE" \in States /\ "SETCONFS" \in States
        BY DEF States
      <3> QED BY <3>1, <3>2
    <2>4. d = Asks(c, cmd, s, next)
      BY <1>2, <2>1, <2>3 DEF CircuitBuildInitialize, Start, Asks
    <2>5. /\ d \in Connections /\ Cmds(d) = Cmds(c) \o <<cmd>>
          /\ d.state = s /\ d.nextState = next /\ d.waiting
          /\ SameData(c, d)
      <3>1. Asked(c, cmd, s, next, d)
        BY <2>2, <2>4, AskSends
      <3> QED BY <3>1 DEF Asked
    <2>6. Cmds(d) = <<cmd>>
      BY <2>2, <2>5, Single, ConcatEmptySeq
    <2>7. Fresh(d) /\ ~d.crashed /\ d.timers = 0 /\ IdsReal(d)
      BY <2>1, <2>5 DEF Builder, Start, Fresh, SameData, IdsReal
    <2>8. Setup(d, q)
      BY <2>1, <2>3, <2>5, <2>6, <2>7 DEF Start, Setup, SetupSteps
    <2>9. Builder(d, q)
      BY <2>2, <2>7, <2>8 DEF Builder, Roomy
    <2> QED BY <2>5, <2>9 DEF SameData
  <1> QED
    <2>1. c.waiting \in BOOLEAN
      BY DEF Connections
    <2> QED BY <1>1, <1>2, <2>1

\* A line that nothing waits for is passed over.
LEMMA AnswerLater ==
    ASSUME NEW q \in Seq(Lines), q # <<>>, Head(q) \in Events, StatusAnswer(q)
    PROVE  StatusAnswer(Tail(q))
  <1> DEFINE r == Tail(q)
             Late == booted /\ when = "after"
  <1>1. PICK i \in 1..Len(q), k \in 1..Len(q) :
           /\ i + 1 \in 1..Len(q) /\ q[i] \in Phases /\ q[i + 1] \in Plain({"ok"})
           /\ IF Late THEN k > i + 1 /\ q[k] \in Boots ELSE k = i
           /\ \A j \in 1..Len(q) : j \notin {i, i + 1, k} => q[j] \in Events
    BY DEF StatusAnswer
  <1>2. i # 1 /\ k # 1
    <2>1. q[1] \in Events
      BY HeadTaken
    <2>2. q[1] \notin Phases
      BY <2>1 DEF Events, Plain, Phases
    <2>3. k = i \/ k > i + 1
      BY <1>1
    <2> QED BY <1>1, <2>2, <2>3
  <1>3. /\ i - 1 \in 1..Len(r) /\ r[i - 1] = q[i]
        /\ k - 1 \in 1..Len(r) /\ r[k - 1] = q[k]
    BY <1>1, <1>2, HeadTaken
  <1>4. i - 1 + 1 \in 1..Len(r) /\ r[i - 1 + 1] = q[i + 1]
    <2>1. i + 1 - 1 \in 1..Len(r) /\ r[i + 1 - 1] = q[i + 1]
      <3>1. i + 1 # 1
        BY <1>1
      <3> QED BY <1>1, <3>1, HeadTaken
    <2>2. i + 1 - 1 = i - 1 + 1
      BY <1>1
    <2> QED BY <2>1, <2>2
  <1>5. ASSUME NEW j \in 1..Len(r), j \notin {i - 1, i - 1 + 1, k - 1}
        PROVE  r[j] \in Events
    <2>1. j + 1 \in 1..Len(q) /\ r[j] = q[j + 1]
      BY HeadTaken
    <2>2. j + 1 \notin {i, i + 1, k}
      BY <1>1, <1>5
    <2> QED BY <1>1, <2>1, <2>2
  <1>6. IF Late THEN k - 1 > i - 1 + 1 /\ r[k - 1] \in Boots ELSE k - 1 = i - 1
    BY <1>1, <1>3
  <1>7. PICK a, b : a = i - 1 /\ b = k - 1
    OBVIOUS
  <1>8. /\ a \in 1..Len(r) /\ b \in 1..Len(r)
        /\ a + 1 \in 1..Len(r) /\ r[a] \in Phases /\ r[a + 1] \in Plain({"ok"})
        /\ IF Late THEN b > a + 1 /\ r[b] \in Boots ELSE b = a
        /\ \A j \in 1..Len(r) : j \notin {a, a + 1, b} => r[j] \in Events
    BY <1>1, <1>3, <1>4, <1>5, <1>6, <1>7
  <1> HIDE DEF r
  <1>9. StatusAnswer(r)
    BY <1>8 DEF StatusAnswer
  <1> QED BY <1>9 DEF r

\* The answer to GETINFO comes after events only.
LEMMA AnswerStarts ==
    ASSUME NEW q \in Seq(Lines), q # <<>>, StatusAnswer(q)
    PROVE  Head(q) \in Events \cup Phases
  <1>1. q[1] = Head(q) /\ 1 \in 1..Len(q)
    BY HeadTaken
  <1>2. PICK i \in 1..Len(q), k \in 1..Len(q) :
           /\ q[i] \in Phases
           /\ k > i + 1 \/ k = i
           /\ \A j \in 1..Len(q) : j \notin {i, i + 1, k} => q[j] \in Events
    BY DEF StatusAnswer
  <1>3. CASE i = 1
    BY <1>1, <1>2, <1>3
  <1>4. CASE i # 1
    <2>1. 1 \notin {i, i + 1, k}
      BY <1>2, <1>4
    <2> QED BY <1>1, <1>2, <2>1
  <1> QED BY <1>3, <1>4

LEMMA EventDropped ==
    ASSUME NEW c \in Connections, NEW q \in Seq(Lines), q # <<>>, Head(q) \in Events,
           Builder(c, q)
    PROVE  Builder(c, Tail(q))
  <1>1. /\ Head(q) \notin Plain({"ok"}) /\ Head(q) \notin Boots
        /\ \A k : Head(q) \notin Extended(k)
    BY DEF Events, Plain, Boots, Extended
  <1>2. \A Q : All(q, Q) => All(Tail(q), Q)
    BY AllTaken
  <1>3. \A X, Q : One(q, X, Q) /\ Head(q) \notin X => One(Tail(q), X, Q)
    BY OneTaken
  <1>4. Start(c, q) => Start(c, Tail(q))
    BY <1>2 DEF Start
  <1>5. Setup(c, q) => Setup(c, Tail(q))
    BY <1>1, <1>2, <1>3 DEF Setup
  <1>6. Checking(c, q) => Checking(c, Tail(q))
    BY <1>2, AnswerLater DEF Checking
  <1>7. Creating(c, q) => Creating(c, Tail(q))
    BY <1>1, <1>2, <1>3 DEF Creating
  <1>8. Building(c, q) => Building(c, Tail(q))
    BY <1>1, <1>2, <1>3 DEF Building
  <1>9. Built(c, q) => Built(c, Tail(q))
    BY <1>2 DEF Built
  <1> QED BY <1>4, <1>5, <1>6, <1>7, <1>8, <1>9 DEF Builder

LEMMA HarmlessDropped ==
    ASSUME NEW c \in Connections, NEW q \in Seq(Lines), q # <<>>, Head(q) \in Harmless,
           Builder(c, q), c.bootstrapped
    PROVE  Builder(c, Tail(q))
  <1>1. \A k : Head(q) \notin Extended(k)
    BY DEF Harmless, Plain, Extended
  <1>2. \A Q : All(q, Q) => All(Tail(q), Q)
    BY AllTaken
  <1>3. \A X, Q : One(q, X, Q) /\ Head(q) \notin X => One(Tail(q), X, Q)
    BY OneTaken
  <1>4. Building(c, q) \/ Built(c, q)
    BY DEF Builder, Start, Setup, Checking, Creating, Fresh
  <1>5. Building(c, q) => Building(c, Tail(q))
    BY <1>1, <1>2, <1>3 DEF Building
  <1>6. Built(c, q) => Built(c, Tail(q))
    BY <1>2 DEF Built
  <1> QED BY <1>4, <1>5, <1>6 DEF Builder

\* A stream is attached.
LEMMA BuilderStream ==
    ASSUME Setting, NEW c \in Connections, NEW q, NEW s \in Nat, Builder(c, q),
           NEW d, d = CircuitBuildStream(c, s)
    PROVE  d \in Connections /\ Builder(d, q) /\ d.lines = c.lines /\ d.reply = c.reply
  <1>1. CASE ~c.bootstrapped
    BY <1>1 DEF CircuitBuildStream
  <1>2. CASE c.bootstrapped
    <2>1. PICK id \in Int : id = IF now = 0 THEN 0 ELSE c.circID[now]
      <3>1. now # 0 => now \in Circuits
        BY TorControlAssumption DEF Setting, Circuits
      <3> QED BY <3>1 DEF Connections
    <2>2. PICK cmd \in Commands : cmd = <<"ATTACHSTREAM", s, id>>
      <3>1. <<"ATTACHSTREAM", s, id>> \in Attaching
        BY DEF Attaching
      <3> QED BY <3>1 DEF Commands
    <2>3. Sent(c, cmd, d)
      <3>1. d = SendCommand(c, cmd)
        BY <1>2, <2>1, <2>2 DEF CircuitBuildStream
      <3>2. Roomy(c)
        BY DEF Builder
      <3> QED BY <3>1, <3>2, SendCommandKeeps DEF Setting
    <2>4. d \in Connections /\ SameModule(c, d) /\ Cmds(d) = Cmds(c) \o <<cmd>>
      BY <2>3 DEF Sent
    <2>5. cmd \in Attaching
      BY <2>2 DEF Attaching
    <2>6. <<cmd>> \in Seq(Commands) /\ All(<<cmd>>, Attaching) /\ Cmds(c) \in Seq(Commands)
      BY <2>5, Single, CmdsType
    <2>7. /\ All(Cmds(c), Attaching) => All(Cmds(d), Attaching)
          /\ \A X : One(Cmds(c), X, Attaching) => One(Cmds(d), X, Attaching)
      BY <2>4, <2>6, AllJoined, OneJoined
    <2>8. Building(c, q) \/ Built(c, q)
      BY <1>2 DEF Builder, Start, Setup, Checking, Creating, Fresh
    <2>9. (Building(c, q) => Building(d, q)) /\ (Built(c, q) => Built(d, q))
      BY <2>4, <2>7 DEF Building, Built, SameModule, SameData
    <2>10. ~d.crashed /\ d.timers = 0 /\ IdsReal(d) /\ Roomy(d)
      BY <2>4 DEF Builder, SameModule, SameData, IdsReal
    <2>11. Builder(d, q)
      BY <2>8, <2>9, <2>10 DEF Builder
    <2> QED BY <2>4, <2>11 DEF SameModule, SameData
  <1> QED BY <1>1, <1>2

\* The circuit at the head of the queue is asked for.
LEMMA HeadAsked ==
    ASSUME NEW c \in Connections, c.queue # <<>>
    PROVE  /\ Head(c.queue) \in Circuits
           /\ <<"EXTENDCIRCUIT", Head(c.queue)>> \in Commands
           /\ <<"EXTENDCIRCUIT", Head(c.queue)>> \in Extending
  <1>1. c.queue \in Seq(Circuits)
    BY DEF Connections
  <1>2. Head(c.queue) \in Circuits
    BY <1>1, HeadTaken
  <1>3. Head(c.queue) \in 0..NumCircuits
    BY <1>2, TorControlAssumption DEF Circuits
  <1> QED BY <1>2, <1>3 DEF Commands, Extending

LEMMA AskForHead ==
    ASSUME Setting, NEW c \in Connections, NEW q,
           c.bootstrapped, booted, asked, c.waiting, c.queue # <<>>, Roomy(c),
           All(Cmds(c), Attaching), All(q, Harmless),
           NEW d, d = [BuildHead(c) EXCEPT !.state = "GET_CIRC_ID"]
    PROVE  d \in Connections /\ Building(d, q) /\ SameData(c, d)
  <1>1. PICK cmd \in Commands : cmd = <<"EXTENDCIRCUIT", Head(c.queue)>>
    BY HeadAsked
  <1>2. PICK e : e = SendCommand(c, cmd)
    OBVIOUS
  <1>3. d = [e EXCEPT !.state = "GET_CIRC_ID"]
    BY <1>1, <1>2 DEF BuildHead
  <1>4. e \in Connections /\ SameModule(c, e) /\ Cmds(e) = Cmds(c) \o <<cmd>>
    <2>1. Sent(c, cmd, e)
      BY <1>2, SendCommandKeeps DEF Setting
    <2> QED BY <2>1 DEF Sent
  <1>5. /\ d \in Connections /\ SameData(c, d) /\ d.state = "GET_CIRC_ID" /\ d.waiting
        /\ d.up = e.up /\ d.sendBuf = e.sendBuf
    BY <1>3, <1>4 DEF Connections, States, SameModule, SameData, Roomy
  <1>6. Cmds(d) = Cmds(c) \o <<cmd>>
    BY <1>4, <1>5 DEF Cmds
  <1>7. One(<<cmd>>, {cmd}, Attaching) /\ <<cmd>> \in Seq(Commands)
    BY Single
  <1>8. One(Cmds(d), {cmd}, Attaching)
    BY <1>6, <1>7, CmdsType, OneJoined
  <1>9. Building(d, q)
    BY <1>1, <1>5, <1>8 DEF Building, SameData
  <1> QED BY <1>5, <1>9

\* Of the circuits with a property there is a first.
LEMMA FirstCircuit ==
    ASSUME NEW T \in SUBSET Circuits, T # {}
    PROVE  \E k \in T : \A j \in T : k <= j
  <1>1. T \subseteq Nat
    BY TorControlAssumption DEF Circuits
  <1> DEFINE R == OpToRel(<, Nat)
  <1>2. \A j \in Nat, k \in Nat : j < k => <<j, k>> \in R
    BY DEF OpToRel
  <1>3. IsWellFoundedOn(R, Nat)
    BY NatLessThanWellFounded
  <1> HIDE DEF R
  <1>4. PICK k \in T : \A j \in T : ~(<<j, k>> \in R)
    BY <1>1, <1>3, WFMin
  <1>5. \A j \in T : ~(j < k)
    BY <1>1, <1>2, <1>4
  <1> QED BY <1>1, <1>5

\* A circuit is closed.
LEMMA BuilderCirc ==
    ASSUME Setting, NEW c \in Connections, NEW q, NEW id \in Nat, NEW status, Builder(c, q),
           NEW d, d = CircuitBuildCirc(c, id, status)
    PROVE  d \in Connections /\ Builder(d, q) /\ d.lines = c.lines /\ d.reply = c.reply
  <1> DEFINE Ours == {k \in Circuits : c.circID[k] = id}
  <1>1. CASE ~Rebuilt(status) \/ Ours = {}
    <2>1. d = c
      BY <1>1 DEF CircuitBuildCirc
    <2> QED BY <2>1
  <1>2. CASE Rebuilt(status) /\ Ours # {}
    <2>1. PICK k \in Circuits :
             /\ c.circID[k] = id
             /\ d = [AskIfIdle([c EXCEPT !.queue = Append(@, k)]) EXCEPT !.state = "GET_CIRC_ID"]
      <3> DEFINE First(k) == c.circID[k] = id /\ \A j \in Circuits : c.circID[j] = id => k <= j
      <3>1. \E k \in Circuits : First(k)
        <4>1. Ours \in SUBSET Circuits
          OBVIOUS
        <4>2. PICK k \in Ours : \A j \in Ours : k <= j
          BY <1>2, <4>1, FirstCircuit
        <4> QED BY <4>2
      <3>2. d = LET k == CHOOSE k \in Circuits : First(k)
                IN  [AskIfIdle([c EXCEPT !.queue = Append(@, k)]) EXCEPT !.state = "GET_CIRC_ID"]
        BY <1>2 DEF CircuitBuildCirc
      <3> DEFINE f == CHOOSE k \in Circuits : First(k)
      <3>3. f \in Circuits /\ First(f)
        <4> HIDE DEF First
        <4> QED BY <3>1
      <3>4. d = [AskIfIdle([c EXCEPT !.queue = Append(@, f)]) EXCEPT !.state = "GET_CIRC_ID"]
        BY <3>2
      <3>5. c.circID[f] = id
        BY <3>3
      <3> HIDE DEF f
      <3> QED BY <3>3, <3>4, <3>5
    <2>2. Building(c, q) \/ Built(c, q)
      <3>1. c.circID[k] # -1
        BY <2>1
      <3> QED BY <3>1 DEF Builder, Start, Setup, Checking, Creating, Fresh
    <2>3. PICK e : e = [c EXCEPT !.queue = Append(@, k)]
      OBVIOUS
    <2>4. c.queue \in Seq(Circuits) /\ Append(c.queue, k) = c.queue \o <<k>> /\ <<k>> \in Seq(Circuits)
          /\ Append(c.queue, k) \in Seq(Circuits)
          /\ Len(Append(c.queue, k)) = Len(c.queue) + 1 /\ Len(c.queue) \in Nat
      <3>1. c.queue \in Seq(Circuits)
        BY DEF Connections
      <3>2. Append(c.queue, k) = c.queue \o <<k>> /\ <<k>> \in Seq(Circuits) /\ Len(<<k>>) = 1
        BY <3>1, AppendIsConcat, Single
      <3> QED BY <3>1, <3>2, Joined
    <2>5. /\ e \in Connections /\ e.queue = Append(c.queue, k) /\ Cmds(e) = Cmds(c)
          /\ e.lines = c.lines /\ e.reply = c.reply /\ e.bootstrapped = c.bootstrapped
          /\ e.circID = c.circID /\ e.timers = c.timers /\ e.crashed = c.crashed
          /\ e.state = c.state /\ e.waiting = c.waiting /\ Roomy(e)
      BY <2>3, <2>4 DEF Connections, Cmds, Builder, Roomy
    <2>6. CASE Building(c, q)
      <3>1. c.queue # <<>> /\ Len(c.queue) # 0
        BY <2>4, <2>6, EmptySeq DEF Building
      <3>2. AskIfIdle(e) = e
        BY <2>4, <2>5, <3>1 DEF AskIfIdle
      <3>3. d = [e EXCEPT !.state = "GET_CIRC_ID"]
        BY <2>1, <2>3, <3>2
      <3>4. d = e
        BY <2>5, <2>6, <3>3 DEF Building, Connections
      <3>5. Head(e.queue) = Head(c.queue) /\ e.queue # <<>>
        BY <2>4, <2>5, <3>1, FrontFirst
      <3>6. Building(e, q)
        BY <2>5, <2>6, <3>5 DEF Building
      <3>7. Builder(e, q)
        BY <2>5, <3>6 DEF Builder, IdsReal
      <3> QED BY <2>5, <3>4, <3>7
    <2>7. CASE Built(c, q)
      <3>1. c.queue = <<>> /\ Len(c.queue) = 0
        BY <2>7 DEF Built
      <3>2. Len(e.queue) = 1 /\ e.queue # <<>>
        BY <2>4, <2>5, <3>1
      <3>3. d = [BuildHead(e) EXCEPT !.state = "GET_CIRC_ID"]
        BY <2>1, <2>3, <3>2 DEF AskIfIdle
      <3>4. /\ e.bootstrapped /\ booted /\ asked /\ e.waiting
            /\ All(Cmds(e), Attaching) /\ All(q, Harmless)
        BY <2>5, <2>7 DEF Built
      <3>5. d \in Connections /\ Building(d, q) /\ SameData(e, d)
        BY <2>5, <3>2, <3>3, <3>4, AskForHead
      <3>6. Builder(d, q)
        BY <2>5, <3>5 DEF Builder, IdsReal, SameData
      <3> QED BY <2>5, <3>5, <3>6 DEF SameData
    <2> QED BY <2>2, <2>6, <2>7
  <1> QED BY <1>1, <1>2

\* Tor has bootstrapped.
LEMMA BuilderStatus ==
    ASSUME Setting, NEW c \in Connections, NEW q \in Seq(Lines), q # <<>>,
           Head(q) \in Boots, Builder(c, q),
           NEW d, d = CircuitBuildStatus(c, Head(q).val)
    PROVE  d \in Connections /\ Builder(d, Tail(q)) /\ d.lines = c.lines /\ d.reply = c.reply
  <1>1. Head(q) \notin Events /\ Head(q) \notin Harmless /\ Head(q) \notin Plain({"ok"})
        /\ Head(q) \notin Phases /\ \A k : Head(q) \notin Extended(k)
    BY DEF Boots, Events, Harmless, Plain, Phases, Extended
  <1>2. \A Q : All(q, Q) => Head(q) \in Q
    BY AllTaken
  <1>3. \A X, Q : One(q, X, Q) => Head(q) \in X \/ Head(q) \in Q
    BY OneTaken
  <1>4. ~StatusAnswer(q)
    BY <1>1, AnswerStarts
  <1>5. Creating(c, q) /\ booted
    BY <1>1, <1>2, <1>3, <1>4 DEF Builder, Start, Setup, Checking, Creating, Building, Built
  <1>6. All(Tail(q), Events)
    <2>1. One(q, Boots, Events)
      BY <1>5 DEF Creating
    <2> QED BY <1>1, <2>1, OneTaken
  <1>7. PICK e : e = [c EXCEPT !.bootstrapped = TRUE]
    OBVIOUS
  <1>8. /\ e \in Connections /\ e.queue = c.queue /\ Cmds(e) = Cmds(c) /\ e.bootstrapped
        /\ e.lines = c.lines /\ e.reply = c.reply
        /\ e.circID = c.circID /\ e.timers = c.timers /\ e.crashed = c.crashed
        /\ e.state = c.state /\ e.waiting = c.waiting /\ Roomy(e)
    BY <1>7 DEF Connections, Cmds, Builder, Roomy
  <1>9. e.queue # <<>> /\ e.waiting /\ All(Cmds(e), Attaching) /\ asked
    BY <1>5, <1>8, NoneAtAll DEF Creating, Fresh
  <1>10. All(Tail(q), Harmless)
    BY <1>6, Weaker DEF Events, Harmless, Plain
  <1>11. d = [BuildHead(e) EXCEPT !.state = "GET_CIRC_ID"]
    <2>1. Head(q).val = 100
      BY DEF Boots
    <2> QED BY <1>7, <1>9, <2>1 DEF CircuitBuildStatus
  <1>12. d \in Connections /\ Building(d, Tail(q)) /\ SameData(e, d)
    BY <1>5, <1>8, <1>9, <1>10, <1>11, AskForHead
  <1>13. Builder(d, Tail(q))
    BY <1>8, <1>12 DEF Builder, IdsReal, SameData
  <1> QED BY <1>8, <1>12, <1>13 DEF SameData

\* The set-up goes on when the answer comes.
LEMMA BuilderOk ==
    ASSUME Setting, NEW c \in Connections, NEW q \in Seq(Lines), q # <<>>,
           Head(q) \in Plain({"ok"}), Builder(c, q),
           NEW d, d = CircuitBuildResponse(c, Head(q), Head(q))
    PROVE  d \in Connections /\ Builder(d, Tail(q)) /\ d.lines = c.lines /\ d.reply = c.reply
  <1> DEFINE l == Head(q)
  <1>1. l \notin Events /\ l \notin Boots /\ l \notin Phases /\ l \in Harmless
        /\ l.kind = "ok" /\ ~HasData(l) /\ \A k : l \notin Extended(k)
    BY DEF Boots, Events, Harmless, Plain, Phases, Extended, HasData
  <1> HIDE DEF l
  <1>2. \A Q : All(q, Q) => l \in Q
    BY AllTaken DEF l
  <1>3. \A X, Q : One(q, X, Q) => (l \in X /\ All(Tail(q), Q)) \/ l \in Q
    BY OneTaken DEF l
  <1>4. ~StatusAnswer(q)
    BY <1>1, AnswerStarts DEF l
  <1>5. CASE c.bootstrapped
    <2>1. Building(c, q) \/ Built(c, q)
      BY <1>5 DEF Builder, Start, Setup, Checking, Creating, Fresh
    <2>2. c.waiting /\ c.state \in {"GET_CIRC_ID", "ATTACH_STREAMS"}
      BY <2>1 DEF Building, Built
    <2>3. d = c
      BY <1>1, <2>2 DEF CircuitBuildResponse, CircuitBuildInitialize, l
    <2>4. Builder(c, Tail(q))
      BY <1>1, <1>5, HarmlessDropped DEF l
    <2> QED BY <2>3, <2>4
  <1>6. CASE ~c.bootstrapped
    <2>1. Setup(c, q)
      BY <1>1, <1>2, <1>3, <1>4, <1>6 DEF Builder, Start, Checking, Creating, Building, Built
    <2>2. Cmds(c) = <<>> /\ All(Tail(q), Events) /\ net = "open"
      BY <1>1, <1>2, <1>3, <2>1 DEF Setup, Setting
    <2>3. PICK e : e = [c EXCEPT !.state = c.nextState, !.waiting = FALSE]
      OBVIOUS
    <2>4. /\ e \in Connections /\ SameData(c, e) /\ e.state = c.nextState /\ ~e.waiting
          /\ Cmds(e) = <<>>
      BY <2>2, <2>3 DEF Connections, SameData, Cmds, Roomy
    <2>5. c.state \in {"AUTHENTICATE", "SETCONFS", "SETEVENTS"}
      BY <2>1 DEF Setup, SetupSteps
    <2>6. d = CircuitBuildInitialize(e)
      BY <1>1, <2>3, <2>5 DEF CircuitBuildResponse, l
    <2>7. ASSUME NEW cmd \in Commands, NEW s \in States, NEW next \in States,
                 d = Asks(e, cmd, s, next)
          PROVE  /\ d \in Connections /\ Cmds(d) = <<cmd>> /\ SameData(c, d)
                 /\ d.state = s /\ d.nextState = next /\ d.waiting
                 /\ Fresh(d) /\ ~d.crashed /\ d.timers = 0 /\ IdsReal(d) /\ Roomy(d)
      <3>1. Asked(e, cmd, s, next, d)
        BY <2>2, <2>4, <2>7, AskSends DEF Setting
      <3>2. <<>> \o <<cmd>> = <<cmd>>
        BY Single, ConcatEmptySeq
      <3>3. /\ d \in Connections /\ Cmds(d) = <<cmd>> /\ SameData(e, d)
            /\ d.state = s /\ d.nextState = next /\ d.waiting
        BY <2>4, <3>1, <3>2 DEF Asked
      <3>4. SameData(c, d)
        BY <2>4, <3>3 DEF SameData
      <3>5. Fresh(d) /\ ~d.crashed /\ d.timers = 0 /\ IdsReal(d) /\ Roomy(d)
        BY <2>1, <3>4 DEF Builder, Setup, Fresh, SameData, IdsReal
      <3> QED BY <3>3, <3>4, <3>5
    <2>8. ~asked
      BY <2>1 DEF Setup
    <2>9. CASE c.nextState = "SETCONFS"
      <3>1. PICK cmd \in Commands, s \in States, next \in States :
               cmd = <<"SETCONF">> /\ s = "SETCONFS" /\ next = "SETEVENTS"
        <4>1. <<"SETCONF">> \in Commands
          BY DEF Commands
        <4>2. "SETCONFS" \in States /\ "SETEVENTS" \in States
          BY DEF States
        <4> QED BY <4>1, <4>2
      <3>2. d = Asks(e, cmd, s, next)
        BY <2>4, <2>6, <2>9, <3>1 DEF CircuitBuildInitialize, Asks
      <3>3. Setup(d, Tail(q))
        BY <2>2, <2>7, <2>8, <3>1, <3>2 DEF Setup, SetupSteps
      <3>4. Builder(d, Tail(q))
        BY <2>7, <3>2, <3>3 DEF Builder
      <3> QED BY <2>7, <3>2, <3>4 DEF SameData
    <2>10. CASE c.nextState = "SETEVENTS"
      <3>1. PICK cmd \in Commands, s \in States, next \in States :
               cmd = <<"SETEVENTS">> /\ s = "SETEVENTS" /\ next = "CHECKSTATUS"
        <4>1. <<"SETEVENTS">> \in Commands
          BY DEF Commands
        <4>2. "SETEVENTS" \in States /\ "CHECKSTATUS" \in States
          BY DEF States
        <4> QED BY <4>1, <4>2
      <3>2. d = Asks(e, cmd, s, next)
        BY <2>4, <2>6, <2>10, <3>1 DEF CircuitBuildInitialize, Asks
      <3>3. Setup(d, Tail(q))
        BY <2>2, <2>7, <2>8, <3>1, <3>2 DEF Setup, SetupSteps
      <3>4. Builder(d, Tail(q))
        BY <2>7, <3>2, <3>3 DEF Builder
      <3> QED BY <2>7, <3>2, <3>4 DEF SameData
    <2>11. CASE c.nextState = "CHECKSTATUS"
      <3>1. PICK cmd \in Commands, s \in States, next \in States :
               cmd = <<"GETINFO">> /\ s = "CHECKSTATUS" /\ next = "CREATE_CIRCUIT"
        <4>1. <<"GETINFO">> \in Commands
          BY DEF Commands
        <4>2. "CHECKSTATUS" \in States /\ "CREATE_CIRCUIT" \in States
          BY DEF States
        <4> QED BY <4>1, <4>2
      <3>2. d = Asks(e, cmd, s, next)
        BY <2>4, <2>6, <2>11, <3>1 DEF CircuitBuildInitialize, Asks
      <3>3. Checking(d, Tail(q))
        BY <2>2, <2>7, <2>8, <3>1, <3>2 DEF Checking
      <3>4. Builder(d, Tail(q))
        BY <2>7, <3>2, <3>3 DEF Builder
      <3> QED BY <2>7, <3>2, <3>4 DEF SameData
    <2>12. c.nextState \in {"SETCONFS", "SETEVENTS", "CHECKSTATUS"}
      BY <2>1 DEF Setup, SetupSteps
    <2> QED BY <2>9, <2>10, <2>11, <2>12
  <1> QED
    <2>1. c.bootstrapped \in BOOLEAN
      BY DEF Connections
    <2> QED BY <1>5, <1>6, <2>1

\* A refusal changes nothing.
LEMMA BuilderError ==
    ASSUME NEW c \in Connections, NEW q \in Seq(Lines), q # <<>>,
           Head(q) \in Plain({"error"}), Builder(c, q),
           NEW d, d = CircuitBuildResponse(c, Head(q), Head(q))
    PROVE  d = c /\ Builder(c, Tail(q))
  <1> DEFINE l == Head(q)
  <1>1. l \notin Events /\ l \notin Boots /\ l \notin Phases /\ l \in Harmless
        /\ l.kind = "error" /\ l \notin Plain({"ok"})
    BY DEF Boots, Events, Harmless, Plain, Phases
  <1> HIDE DEF l
  <1>2. \A Q : All(q, Q) => l \in Q
    BY AllTaken DEF l
  <1>3. \A X, Q : One(q, X, Q) => l \in X \/ l \in Q
    BY OneTaken DEF l
  <1>4. ~StatusAnswer(q)
    BY <1>1, AnswerStarts DEF l
  <1>5. Building(c, q) \/ Built(c, q)
    BY <1>1, <1>2, <1>3, <1>4 DEF Builder, Start, Setup, Checking, Creating
  <1>6. c.bootstrapped
    BY <1>5 DEF Building, Built
  <1>7. Builder(c, Tail(q))
    BY <1>1, <1>6, HarmlessDropped DEF l
  <1>8. d = c
    BY <1>1 DEF CircuitBuildResponse, l
  <1> QED BY <1>7, <1>8

\* The circuit at the head of the queue gets the id that Tor gave to it.
LEMMA BuilderExtended ==
    ASSUME Setting, NEW c \in Connections, NEW q \in Seq(Lines), q # <<>>,
           Head(q) \in Plain({"extended"}), Builder(c, q),
           NEW d, d = CircuitBuildResponse(c, Head(q), Head(q))
    PROVE  d \in Connections /\ Builder(d, Tail(q)) /\ d.lines = c.lines /\ d.reply = c.reply
  <1> DEFINE l == Head(q)
  <1>1. l \notin Events /\ l \notin Boots /\ l \notin Phases /\ l \notin Harmless
        /\ l.kind = "extended" /\ l \notin Plain({"ok"}) /\ HasData(l)
    BY DEF Boots, Events, Harmless, Plain, Phases, HasData
  <1> HIDE DEF l
  <1>2. \A Q : All(q, Q) => l \in Q
    BY AllTaken DEF l
  <1>3. \A X, Q : One(q, X, Q) => (l \in X /\ All(Tail(q), Q)) \/ l \in Q
    BY OneTaken DEF l
  <1>4. ~StatusAnswer(q)
    BY <1>1, AnswerStarts DEF l
  <1>5. Building(c, q)
    BY <1>1, <1>2, <1>3, <1>4 DEF Builder, Start, Setup, Checking, Creating, Built
  <1>6. /\ c.bootstrapped /\ booted /\ asked /\ c.state = "GET_CIRC_ID" /\ c.waiting
        /\ c.queue # <<>> /\ All(Cmds(c), Attaching)
        /\ l \in Extended(Head(c.queue)) /\ All(Tail(q), Harmless)
    BY <1>1, <1>2, <1>3, <1>5 DEF Building
  <1>7. PICK k \in Circuits, id \in Nat :
           k = Head(c.queue) /\ id = l.val /\ id \in DOMAIN made /\ made[id] = k
    BY <1>6, HeadAsked DEF Extended, Plain, Lines
  <1>8. PICK e : e = [c EXCEPT !.queue = Tail(@), !.circID[k] = id]
    OBVIOUS
  <1>9. c.queue \in Seq(Circuits) /\ Tail(c.queue) \in Seq(Circuits)
        /\ [c.circID EXCEPT ![k] = id] \in [Circuits -> Int]
    BY <1>6, HeadTaken DEF Connections
  <1>10. /\ e \in Connections /\ e.queue = Tail(c.queue) /\ Cmds(e) = Cmds(c) /\ e.bootstrapped
         /\ e.lines = c.lines /\ e.reply = c.reply
         /\ e.circID = [c.circID EXCEPT ![k] = id] /\ e.timers = c.timers
         /\ e.crashed = c.crashed /\ e.state = c.state /\ e.waiting
    BY <1>6, <1>8, <1>9 DEF Connections, Cmds
  <1>11. IdsReal(e)
    <2>1. \A j \in Circuits : e.circID[j] = IF j = k THEN id ELSE c.circID[j]
      BY <1>10 DEF Connections
    <2>2. IdsReal(c)
      BY DEF Builder
    <2> QED BY <1>7, <2>1, <2>2 DEF IdsReal
  <1>12. ~e.crashed /\ e.timers = 0 /\ Roomy(e)
    BY <1>8, <1>10 DEF Builder, Connections, Roomy
  <1>13. PICK f : f = BuildNext(e)
    OBVIOUS
  <1>14. GetCircID(c, l.val) = f
    BY <1>6, <1>7, <1>8, <1>13 DEF GetCircID
  <1>15. d = CircuitBuildInitialize(f)
    BY <1>1, <1>6, <1>14 DEF CircuitBuildResponse, l
  <1>16. CASE e.queue = <<>>
    <2>1. f = [e EXCEPT !.state = "ATTACH_STREAMS"]
      BY <1>13, <1>16 DEF BuildNext
    <2>2. /\ f \in Connections /\ SameData(e, f) /\ f.state = "ATTACH_STREAMS" /\ f.waiting
          /\ Cmds(f) = Cmds(e)
      BY <1>10, <2>1 DEF Connections, States, SameData, Cmds, Roomy
    <2>3. Built(f, Tail(q))
      BY <1>6, <1>10, <1>16, <2>2 DEF Built, SameData
    <2>4. Builder(f, Tail(q))
      BY <1>11, <1>12, <2>2, <2>3 DEF Builder, IdsReal, SameData
    <2>5. d = f
      BY <1>15, <2>2 DEF CircuitBuildInitialize
    <2> QED BY <1>10, <2>2, <2>4, <2>5 DEF SameData
  <1>17. CASE e.queue # <<>>
    <2>1. f = [BuildHead(e) EXCEPT !.state = "GET_CIRC_ID"]
      BY <1>13, <1>17 DEF BuildNext
    <2>2. All(Cmds(e), Attaching)
      BY <1>6, <1>10
    <2>3. f \in Connections /\ Building(f, Tail(q)) /\ SameData(e, f)
      BY <1>6, <1>10, <1>12, <1>17, <2>1, <2>2, AskForHead
    <2>4. Builder(f, Tail(q))
      BY <1>11, <1>12, <2>3 DEF Builder, IdsReal, SameData
    <2>5. d = f
      BY <1>15, <2>3 DEF CircuitBuildInitialize, Building
    <2> QED BY <1>10, <2>3, <2>4, <2>5 DEF SameData
  <1> QED BY <1>16, <1>17

\* The answer to GETINFO.
LEMMA AnswerNow ==
    ASSUME NEW q \in Seq(Lines), q # <<>>, Head(q) \in Phases, StatusAnswer(q)
    PROVE  /\ Tail(q) \in Seq(Lines) /\ Tail(q) # <<>> /\ Head(Tail(q)) \in Plain({"ok"})
           /\ Tail(Tail(q)) \in Seq(Lines)
           /\ IF booted /\ when = "after" THEN One(Tail(Tail(q)), Boots, Events)
              ELSE All(Tail(Tail(q)), Events)
  <1> DEFINE r == Tail(q)
             s == Tail(Tail(q))
             Late == booted /\ when = "after"
  <1>1. PICK i \in 1..Len(q), k \in 1..Len(q) :
           /\ i + 1 \in 1..Len(q) /\ q[i] \in Phases /\ q[i + 1] \in Plain({"ok"})
           /\ IF Late THEN k > i + 1 /\ q[k] \in Boots ELSE k = i
           /\ \A j \in 1..Len(q) : j \notin {i, i + 1, k} => q[j] \in Events
    BY DEF StatusAnswer
  <1>2. i = 1
    <2>1. q[1] \in Phases /\ 1 \in 1..Len(q)
      BY HeadTaken
    <2>2. q[1] \notin Events /\ q[1] \notin Boots
      BY <2>1 DEF Phases, Events, Boots, Plain
    <2>3. 1 \in {i, i + 1, k}
      BY <1>1, <2>1, <2>2
    <2> QED BY <1>1, <2>3
  <1>3. r \in Seq(Lines) /\ 2 - 1 \in 1..Len(r) /\ r[2 - 1] = q[2] /\ Len(r) = Len(q) - 1
        /\ Len(q) \in Nat
    <2>1. 2 \in 1..Len(q) /\ 2 # 1
      BY <1>1, <1>2
    <2> QED BY <2>1, HeadTaken
  <1> HIDE DEF r
  <1>4. r # <<>>
    <2>1. Len(r) # 0
      BY <1>3
    <2> QED BY <2>1
  <1>5. /\ Head(r) = r[1] /\ Tail(r) \in Seq(Lines) /\ Len(Tail(r)) = Len(r) - 1
        /\ \A i_1 \in 1..Len(Tail(r)) : i_1 + 1 \in 1..Len(r) /\ Tail(r)[i_1] = r[i_1 + 1]
    BY <1>3, <1>4, HeadTaken
  <1>6. Head(r) \in Plain({"ok"})
    BY <1>1, <1>2, <1>3, <1>5
  <1>7. \A j \in 1..Len(Tail(r)) : j + 2 \in 1..Len(q) /\ Tail(r)[j] = q[j + 2]
    <2> SUFFICES ASSUME NEW j \in 1..Len(Tail(r))
                 PROVE  j + 2 \in 1..Len(q) /\ Tail(r)[j] = q[j + 2]
      OBVIOUS
    <2>1. j + 1 \in 1..Len(r) /\ Tail(r)[j] = r[j + 1]
      BY <1>5
    <2>2. j + 1 + 1 \in 1..Len(q) /\ r[j + 1] = q[j + 1 + 1]
      BY <2>1, HeadTaken DEF r
    <2>3. j + 1 + 1 = j + 2
      BY <1>5
    <2> QED BY <2>1, <2>2, <2>3
  <1>8. CASE Late
    <2>1. k - 2 \in 1..Len(Tail(r)) /\ k - 2 + 2 = k
      BY <1>1, <1>2, <1>3, <1>5, <1>8
    <2>2. Tail(r)[k - 2] \in Boots
      BY <1>1, <1>7, <1>8, <2>1
    <2>3. ASSUME NEW j \in 1..Len(Tail(r)), j # k - 2
          PROVE  Tail(r)[j] \in Events
      <3>1. j + 2 \notin {1, 2, k}
        BY <1>1, <2>3
      <3> QED BY <1>1, <1>2, <1>7, <3>1
    <2>4. One(Tail(r), Boots, Events)
      BY <2>1, <2>2, <2>3 DEF One
    <2> QED BY <1>3, <1>4, <1>5, <1>6, <1>8, <2>4 DEF r
  <1>9. CASE ~Late
    <2>1. ASSUME NEW j \in 1..Len(Tail(r))
          PROVE  Tail(r)[j] \in Events
      <3>1. j + 2 \notin {1, 2, k}
        BY <1>1, <1>2, <1>9
      <3> QED BY <1>1, <1>2, <1>7, <3>1
    <2>2. All(Tail(r), Events)
      BY <2>1 DEF All
    <2> QED BY <1>3, <1>4, <1>5, <1>6, <1>9, <2>2 DEF r
  <1> QED BY <1>8, <1>9

LEMMA PhaseFirst ==
    ASSUME NEW c \in Connections, NEW q \in Seq(Lines), q # <<>>,
           Head(q) \in Phases, Builder(c, q)
    PROVE  StatusAnswer(q) /\ Checking(c, q)
  <1> DEFINE l == Head(q)
  <1>1. l \notin Events /\ l \notin Boots /\ l \notin Harmless
        /\ l \notin Plain({"ok"}) /\ \A k : l \notin Extended(k)
    BY DEF Boots, Events, Harmless, Plain, Phases, Extended
  <1> HIDE DEF l
  <1>2. \A Q : All(q, Q) => l \in Q
    BY AllTaken DEF l
  <1>3. \A X, Q : One(q, X, Q) => l \in X \/ l \in Q
    BY OneTaken DEF l
  <1>4. Checking(c, q)
    BY <1>1, <1>2, <1>3 DEF Builder, Start, Setup, Creating, Building, Built
  <1>5. StatusAnswer(q)
    BY <1>1, <1>2, <1>4 DEF Checking
  <1> QED BY <1>4, <1>5

\* The lines due begin with l and o.
Begins(q, l, o, r) == q # <<>> /\ l = Head(q) /\ o = Head(Tail(q)) /\ r = Tail(Tail(q))

\* What is due after the handler was called is r.
Handled(c, e, r) ==
    e \in Connections /\ Builder(e, r) /\ e.lines = c.lines /\ e.reply = c.reply

\* The phase leads to the first circuit, or to the wait for the news.
LEMMA BuilderPhase ==
    ASSUME Setting, NEW c \in Connections, NEW q \in Seq(Lines), Builder(c, q),
           NEW l \in Phases, NEW o, NEW r, Begins(q, l, o, r),
           NEW e, e = CircuitBuildResponse(CircuitBuildResponse(c, l, l), l, o)
    PROVE  Handled(c, e, r)
  <1>1. /\ q # <<>> /\ l = Head(q) /\ o = Head(Tail(q)) /\ r = Tail(Tail(q))
    BY DEF Begins
  <1>2. PICK d : d = CircuitBuildResponse(c, l, l) /\ e = CircuitBuildResponse(d, l, o)
    OBVIOUS
  <1> SUFFICES e \in Connections /\ Builder(e, r) /\ e.lines = c.lines /\ e.reply = c.reply
    BY DEF Handled
  <1>3. l.kind = "phase" /\ HasData(l) /\ l.val = IF when = "before" THEN 100 ELSE 50
    BY DEF Phases, HasData
  <1>4. StatusAnswer(q) /\ Checking(c, q)
    BY <1>1, PhaseFirst
  <1>5. All(q, Events) => l \in Events
    BY <1>1, AllTaken
  <1>6. l \notin Events
    BY <1>3 DEF Events, Plain
  <1>7. StatusAnswer(q) /\ asked /\ Cmds(c) = <<>> /\ Fresh(c) /\ c.waiting
        /\ c.state = "CHECKSTATUS"
    BY <1>4, <1>5, <1>6 DEF Checking
  <1>9. /\ o \in Plain({"ok"}) /\ r \in Seq(Lines)
        /\ IF booted /\ when = "after" THEN One(r, Boots, Events) ELSE All(r, Events)
    BY <1>1, <1>7, AnswerNow
  <1>10. ~HasData(o)
    BY <1>9 DEF Plain, HasData
  <1>11. d = CircuitBuildInitialize(CheckStatus(c, l.val))
    BY <1>2, <1>3, <1>7 DEF CircuitBuildResponse
  <1>12. ASSUME d.state \in {"GET_CIRC_ID", "CREATE_CIRCUIT"}, d.waiting
         PROVE  e = d
    BY <1>2, <1>3, <1>10, <1>12 DEF CircuitBuildResponse, CircuitBuildInitialize
  <1>13. CASE when = "before"
    <2>1. PICK f : f = [c EXCEPT !.bootstrapped = TRUE]
      OBVIOUS
    <2>2. /\ f \in Connections /\ f.queue = c.queue /\ Cmds(f) = Cmds(c) /\ f.bootstrapped
          /\ f.lines = c.lines /\ f.reply = c.reply
          /\ f.circID = c.circID /\ f.timers = c.timers /\ f.crashed = c.crashed
          /\ f.state = c.state /\ f.waiting = c.waiting /\ Roomy(f)
      BY <2>1 DEF Connections, Cmds, Builder, Roomy
    <2>3. PICK g : g = [BuildHead(f) EXCEPT !.state = "GET_CIRC_ID"]
      OBVIOUS
    <2>4. CheckStatus(c, l.val) = g
      BY <1>3, <1>13, <2>1, <2>3 DEF CheckStatus
    <2>5. All(r, Harmless)
      <3>1. All(r, Events)
        BY <1>9, <1>13
      <3> QED BY <3>1, Weaker DEF Events, Harmless, Plain
    <2>6. f.queue # <<>> /\ f.waiting /\ All(Cmds(f), Attaching) /\ booted
      BY <1>7, <1>13, <2>2, NoneAtAll DEF Fresh, Setting, InTime
    <2>7. g \in Connections /\ Building(g, r) /\ SameData(f, g)
      BY <1>7, <2>2, <2>3, <2>5, <2>6, AskForHead
    <2>8. Builder(g, r)
      BY <2>2, <2>7 DEF Builder, IdsReal, SameData
    <2>9. d = g
      BY <1>11, <2>4, <2>7 DEF CircuitBuildInitialize, Building
    <2>10. e = g
      BY <1>12, <2>7, <2>9 DEF Building
    <2> QED BY <2>2, <2>7, <2>8, <2>10 DEF SameData
  <1>14. CASE when = "after"
    <2>1. PICK g : g = [c EXCEPT !.state = "CREATE_CIRCUIT"]
      OBVIOUS
    <2>2. /\ g \in Connections /\ SameData(c, g) /\ g.state = "CREATE_CIRCUIT" /\ g.waiting
          /\ Cmds(g) = Cmds(c)
      BY <1>7, <2>1 DEF Connections, States, SameData, Cmds, Roomy
    <2>3. CheckStatus(c, l.val) = g
      BY <1>3, <1>14, <2>1 DEF CheckStatus
    <2>4. Creating(g, r)
      BY <1>7, <1>9, <1>14, <2>2 DEF Creating, Fresh, SameData
    <2>5. Builder(g, r)
      BY <2>2, <2>4 DEF Builder, IdsReal, SameData
    <2>6. d = g
      BY <1>11, <2>2, <2>3 DEF CircuitBuildInitialize
    <2>7. e = g
      BY <1>12, <2>2, <2>6
    <2> QED BY <2>2, <2>5, <2>7 DEF SameData
  <1> QED BY <1>7, <1>13, <1>14 DEF Setting, InTime

\* A reply of one line, and of two.
LEMMA OneLine ==
    ASSUME NEW l, NEW c
    PROVE  Responses(c, <<l>>) = Response(c, l, l)
  <1> DEFINE r == <<l>>
             Is(f) == f = [n \in 0..Len(r) |-> IF n = 0 THEN c
                                               ELSE Response(f[n - 1], r[1], r[n])]
             a == CHOOSE f : Is(f)
  <1>1. Responses(c, r) = a[Len(r)]
    BY DEF Responses
  <1>2. Is([n \in 0..1 |-> IF n = 0 THEN c ELSE Response(c, l, l)])
    OBVIOUS
  <1>3. Is(a)
    <2> HIDE DEF Is
    <2> QED BY <1>2
  <1>4. a[0] = c
    <2> HIDE DEF a
    <2> QED BY <1>3
  <1>5. a[1] = Response(a[0], l, l)
    <2> HIDE DEF a
    <2> QED BY <1>3
  <1> QED BY <1>1, <1>4, <1>5

LEMMA TwoLines ==
    ASSUME NEW l, NEW m, NEW c
    PROVE  Responses(c, <<l, m>>) = Response(Response(c, l, l), l, m)
  <1> DEFINE r == <<l, m>>
             Is(f) == f = [n \in 0..Len(r) |-> IF n = 0 THEN c
                                               ELSE Response(f[n - 1], r[1], r[n])]
             a == CHOOSE f : Is(f)
  <1>1. Responses(c, r) = a[Len(r)]
    BY DEF Responses
  <1>2. Is([n \in 0..2 |-> IF n = 0 THEN c ELSE IF n = 1 THEN Response(c, l, l)
                           ELSE Response(Response(c, l, l), l, m)])
    OBVIOUS
  <1>3. Is(a)
    <2> HIDE DEF Is
    <2> QED BY <1>2
  <1>4. a[0] = c
    <2> HIDE DEF a
    <2> QED BY <1>3
  <1>5. a[1] = Response(a[0], l, l)
    <2> HIDE DEF a
    <2> QED BY <1>3
  <1>6. a[2] = Response(a[1], l, m)
    <2> HIDE DEF a
    <2> QED BY <1>3
  <1> QED BY <1>1, <1>4, <1>5, <1>6

\* What a line can be.
LEMMA BuilderLine ==
    ASSUME NEW c, NEW q \in Seq(Lines), q # <<>>, Builder(c, q)
    PROVE  Head(q) \in Harmless \cup Boots \cup Phases \cup Plain({"extended"})
  <1>1. Events \subseteq Harmless /\ Plain({"ok"}) \subseteq Harmless
        /\ \A k : Extended(k) \subseteq Plain({"extended"})
    BY DEF Events, Harmless, Plain, Extended
  <1>2. \A Q : All(q, Q) => Head(q) \in Q
    BY AllTaken
  <1>3. \A X, Q : One(q, X, Q) => Head(q) \in X \/ Head(q) \in Q
    BY OneTaken
  <1>4. StatusAnswer(q) => Head(q) \in Events \cup Phases
    BY AnswerStarts
  <1> QED BY <1>1, <1>2, <1>3, <1>4
          DEF Builder, Start, Setup, Checking, Creating, Building, Built

\* A reply of one line, or an event.
LEMMA BuilderReads ==
    ASSUME Setting, mode = "circuitBuild",
           NEW c \in Connections, NEW q \in Seq(Lines), q # <<>>, ~Head(q).more, Builder(c, q),
           NEW d, d = ProcessReply(c, <<Head(q)>>)
    PROVE  d \in Connections /\ Builder(d, Tail(q)) /\ d.lines = c.lines /\ d.reply = c.reply
  <1>1. PICK l \in Lines : l = Head(q)
    BY HeadTaken
  <1>2. l \in Harmless \cup Boots \cup Plain({"extended"})
    <2>1. l \notin Phases
      BY <1>1 DEF Phases
    <2> QED BY <1>1, <2>1, BuilderLine
  <1>3. <<l>>[1] = l
    OBVIOUS
  <1>4. l.kind \in {"ok", "error", "extended"} => d = CircuitBuildResponse(c, l, l)
    <2>1. l.kind \in {"ok", "error", "extended"} => d = Responses(c, <<l>>)
      BY <1>1, <1>3 DEF ProcessReply
    <2>2. Responses(c, <<l>>) = CircuitBuildResponse(c, l, l)
      BY OneLine DEF Response
    <2> QED BY <2>1, <2>2
  <1>5. CASE l.kind = "ok"
    <2>1. l \in Plain({"ok"})
      BY <1>1, <1>5 DEF Plain
    <2> QED BY <1>1, <1>4, <1>5, <2>1, BuilderOk
  <1>6. CASE l.kind = "error"
    <2>1. l \in Plain({"error"})
      BY <1>1, <1>6 DEF Plain
    <2>2. d = c /\ Builder(c, Tail(q))
      BY <1>1, <1>4, <1>6, <2>1, BuilderError
    <2> QED BY <2>2
  <1>7. CASE l.kind = "extended"
    <2>1. l \in Plain({"extended"})
      BY <1>1, <1>7 DEF Plain
    <2> QED BY <1>1, <1>4, <1>7, <2>1, BuilderExtended
  <1>8. CASE l.kind = "circ"
    <2>1. l \in Events /\ l.val \in Nat
      BY <1>1, <1>8 DEF Events, Plain, Lines
    <2>2. Builder(c, Tail(q))
      BY <1>1, <2>1, EventDropped
    <2>3. d = CircuitBuildCirc(c, l.val, l.status)
      BY <1>1, <1>3, <1>8 DEF ProcessReply, AsyncCircReply
    <2> QED BY <2>1, <2>2, <2>3, BuilderCirc
  <1>9. CASE l.kind = "stream"
    <2>1. l \in Events /\ l.val \in Nat
      BY <1>1, <1>9 DEF Events, Plain, Lines
    <2>2. Builder(c, Tail(q))
      BY <1>1, <2>1, EventDropped
    <2>3. PICK n \in Nat : n = l.val
      BY <2>1
    <2>4. d = CircuitBuildStream(c, n)
      BY <1>1, <1>3, <1>9, <2>3 DEF ProcessReply, AsyncStreamReply
    <2>5. d \in Connections /\ Builder(d, Tail(q)) /\ d.lines = c.lines /\ d.reply = c.reply
      BY <2>2, <2>4, BuilderStream
    <2> QED BY <2>5
  <1>10. CASE l.kind = "bootstrap"
    <2>1. l \in Boots
      BY <1>2, <1>10 DEF Harmless, Plain
    <2>2. d = CircuitBuildStatus(c, l.val)
      BY <1>1, <1>3, <1>10 DEF ProcessReply, AsyncStatusReply
    <2> QED BY <1>1, <2>1, <2>2, BuilderStatus
  <1> QED
    BY <1>2, <1>5, <1>6, <1>7, <1>8, <1>9, <1>10 DEF Harmless, Boots, Plain

\* Lines that come in.
LEMMA EventsAdded ==
    ASSUME NEW c, NEW q \in Seq(Lines), NEW r \in Seq(Lines), All(r, Events), Builder(c, q)
    PROVE  Builder(c, q \o r)
  <1>1. All(r, Harmless)
    BY Weaker DEF Events, Harmless, Plain
  <1>2. \A Q : All(q, Q) /\ All(r, Q) => All(q \o r, Q)
    BY AllJoined
  <1>3. \A X, Q : One(q, X, Q) /\ All(r, Q) => One(q \o r, X, Q)
    BY OneJoined
  <1>4. StatusAnswer(q) => StatusAnswer(q \o r)
    <2> SUFFICES ASSUME StatusAnswer(q)  PROVE  StatusAnswer(q \o r)
      OBVIOUS
    <2> DEFINE s == q \o r
    <2>1. PICK i \in 1..Len(q), k \in 1..Len(q) :
             /\ i + 1 \in 1..Len(q) /\ q[i] \in Phases /\ q[i + 1] \in Plain({"ok"})
             /\ IF booted /\ when = "after" THEN k > i + 1 /\ q[k] \in Boots ELSE k = i
             /\ \A j \in 1..Len(q) : j \notin {i, i + 1, k} => q[j] \in Events
      BY DEF StatusAnswer
    <2>2. \A j \in 1..Len(q) : j \in 1..Len(s) /\ s[j] = q[j]
      BY Joined
    <2>3. ASSUME NEW j \in 1..Len(s), j \notin {i, i + 1, k}
          PROVE  s[j] \in Events
      <3>1. CASE j \in 1..Len(q)
        BY <2>1, <2>2, <2>3, <3>1
      <3>2. CASE \E n \in 1..Len(r) : j = Len(q) + n
        BY <3>2, Joined DEF All
      <3> QED BY <3>1, <3>2, Joined
    <2> HIDE DEF s
    <2>4. StatusAnswer(s)
      BY <2>1, <2>2, <2>3 DEF StatusAnswer
    <2> QED BY <2>4 DEF s
  <1>5. Start(c, q) => Start(c, q \o r)
    BY <1>2 DEF Start
  <1>6. Setup(c, q) => Setup(c, q \o r)
    BY <1>2, <1>3 DEF Setup
  <1>7. Checking(c, q) => Checking(c, q \o r)
    BY <1>2, <1>4 DEF Checking
  <1>8. Creating(c, q) => Creating(c, q \o r)
    BY <1>2, <1>3 DEF Creating
  <1>9. Building(c, q) => Building(c, q \o r)
    BY <1>1, <1>2, <1>3 DEF Building
  <1>10. Built(c, q) => Built(c, q \o r)
    BY <1>1, <1>2 DEF Built
  <1> QED BY <1>5, <1>6, <1>7, <1>8, <1>9, <1>10 DEF Builder

-----------------------------------------------------------------------------
(* The builder: every step keeps its invariant.                            *)

LEMMA BuilderSetting ==
    ASSUME Types, InTime
    PROVE  Setting
  <1>1. AnyNet
    BY TorControlAssumption DEF Types, AnyNet
  <1>2. when \in {"before", "during", "after"}
    BY TorAssumption DEF Types
  <1> QED BY <1>1, <1>2 DEF Types, Setting

LEMMA DueType ==
    ASSUME Types
    PROVE  /\ Due \in Seq(Lines) /\ t.lines \o down \in Seq(Lines)
           /\ t.reply \in Seq(Lines) /\ t.lines \in Seq(Lines) /\ down \in Seq(Lines)
  <1>1. t.reply \in Seq(Lines) /\ t.lines \in Seq(Lines) /\ down \in Seq(Lines)
    BY DEF Types, Connections
  <1>2. t.lines \o down \in Seq(Lines)
    BY <1>1, ConcatProperties
  <1> QED BY <1>1, <1>2, ConcatProperties DEF Due

\* What the builder keeps is the same in c and d.
SameBuild(c, d) ==
    /\ d.state = c.state /\ d.nextState = c.nextState /\ d.waiting = c.waiting
    /\ d.bootstrapped = c.bootstrapped /\ d.queue = c.queue /\ d.circID = c.circID
    /\ d.timers = c.timers /\ d.crashed = c.crashed /\ Cmds(d) = Cmds(c)
    /\ Roomy(c) => Roomy(d)

\* The builder's part of a connection, and Tor where it looks at it, stay.
LEMMA BuilderStays ==
    ASSUME NEW c, NEW q, Builder(c, q),
           SameBuild(c, t'), Due' = q,
           UNCHANGED <<net, when, booted, asked, made>>
    PROVE  Builder(t, Due)'
  <1>0. Cmds(t)' = Cmds(c)
    BY DEF SameBuild, Cmds
  <1> USE <1>0 DEF SameBuild
  <1>1. Fresh(c) => Fresh(t)'
    BY DEF Fresh
  <1>2. Start(c, q) => Start(t, Due)'
    BY <1>1 DEF Start, All
  <1>3. Setup(c, q) => Setup(t, Due)'
    BY <1>1 DEF Setup, All, One
  <1>4. Checking(c, q) => Checking(t, Due)'
    BY <1>1 DEF Checking, StatusAnswer, All, One, Phases
  <1>5. Creating(c, q) => Creating(t, Due)'
    BY <1>1 DEF Creating, All, One
  <1>6. Building(c, q) => Building(t, Due)'
    BY DEF Building, All, One, Extended
  <1>7. Built(c, q) => Built(t, Due)'
    BY DEF Built, All, One
  <1>8. IdsReal(c) => IdsReal(t)'
    BY DEF IdsReal
  <1>9. Roomy(c) => Roomy(t)'
    BY DEF Roomy
  <1> QED BY <1>2, <1>3, <1>4, <1>5, <1>6, <1>7, <1>8, <1>9 DEF Builder

\* What a step of the plug-in leaves alone.
LEMMA BuilderPlugin ==
    ASSUME mode = "circuitBuild", Types, InTime,
           UNCHANGED <<mode, net, when, torVars>>, now' \in 0..NumCircuits,
           t' \in Connections, down' \in Seq(Lines), Begun',
           NEW c, NEW q, Builder(c, q), SameBuild(c, t'), Due' = q
    PROVE  BuilderInv'
  <1>1. UNCHANGED <<net, when, booted, asked, made>>
    BY DEF torVars
  <1>2. Builder(t, Due)'
    BY <1>1, BuilderStays
  <1>3. Types' /\ InTime'
    BY DEF Types, InTime, torVars
  <1> QED BY <1>2, <1>3 DEF BuilderInv

LEMMA ActivateOutBuilds ==
    ASSUME mode = "circuitBuild", BuilderInv, Setting, ActivateOut
    PROVE  BuilderInv'
  <1>1. Types /\ Begun /\ InTime /\ Builder(t, Due) /\ t \in Connections
    BY DEF BuilderInv, Types
  <1>2. PICK c : c = CircuitBuildInitialize(t)
    OBVIOUS
  <1>3. c \in Connections /\ Builder(c, Due) /\ c.lines = t.lines /\ c.reply = t.reply
    BY <1>1, <1>2, BuilderInitialize
  <1>4. /\ t' = IF c.sendBuf = <<>> THEN [c EXCEPT !.interest = "IN"] ELSE Put(c, c.sendBuf)
        /\ UNCHANGED <<mode, net, now, down, when, torVars>>
    BY <1>2 DEF ActivateOut, Initialize
  <1>5. t' \in Connections /\ SameBuild(c, t') /\ t'.lines = c.lines /\ t'.reply = c.reply
    <2>1. CASE c.sendBuf = <<>>
      <3>1. t' = [c EXCEPT !.interest = "IN"]
        BY <1>4, <2>1
      <3> QED BY <1>3, <3>1 DEF Connections, SameBuild, Cmds, Roomy
    <2>2. CASE c.sendBuf # <<>>
      <3>1. PICK b \in Seq(Commands) : b = c.sendBuf
        BY <1>3, CmdsType
      <3>2. t' = Put(c, b)
        BY <1>4, <2>2, <3>1
      <3>3. /\ Put(c, b) \in Connections /\ SameModule(c, Put(c, b))
            /\ Cmds(Put(c, b)) = c.up \o b
        <4>1. net # "tight"
          BY <1>3, <2>2 DEF Builder, Roomy
        <4> QED BY <1>3, <4>1, PutKeeps DEF Setting
      <3>4. c.up \o b = Cmds(c)
        BY <3>1 DEF Cmds
      <3> QED BY <3>2, <3>3, <3>4 DEF SameModule, SameData, SameBuild
    <2> QED BY <2>1, <2>2
  <1>6. Due' = Due
    BY <1>3, <1>4, <1>5 DEF Due
  <1>7. Begun'
    BY <1>1, <1>3, <1>4, <1>5 DEF Begun, Phases
  <1>8. UNCHANGED <<mode, net, when, torVars>> /\ now' \in 0..NumCircuits /\ down' \in Seq(Lines)
    BY <1>1, <1>4 DEF Types
  <1> QED BY <1>1, <1>3, <1>5, <1>6, <1>7, <1>8, BuilderPlugin

\* What was read is handled before the rest.
LEMMA LinesSplit ==
    ASSUME NEW r \in Seq(Lines), NEW n \in 1..Len(r)
    PROVE  /\ SubSeq(r, 1, n) \in Seq(Lines) /\ SubSeq(r, n + 1, Len(r)) \in Seq(Lines)
           /\ SubSeq(r, 1, n) \o SubSeq(r, n + 1, Len(r)) = r
  <1>1. Len(r) \in Nat /\ \A i \in 1..Len(r) : r[i] \in Lines
    BY LenProperties, ElementOfSeq
  <1>2. n \in Int /\ 1 \in Int /\ n + 1 \in Int /\ Len(r) \in Int
        /\ (\A i \in 1..n : i \in 1..Len(r)) /\ (\A i \in n + 1..Len(r) : i \in 1..Len(r))
    BY <1>1
  <1>3. SubSeq(r, 1, n) \in Seq(Lines)
    BY <1>1, <1>2, SubSeqProperties
  <1>4. SubSeq(r, n + 1, Len(r)) \in Seq(Lines)
    BY <1>1, <1>2, SubSeqProperties
  <1>5. SubSeq(r, 1, n) \o SubSeq(r, n + 1, Len(r)) = SubSeq(r, 1, Len(r))
    <2>1. 1 \in 1..Len(r) + 1 /\ n \in 1 - 1..Len(r) /\ Len(r) \in n..Len(r)
      BY <1>1
    <2> QED BY <2>1, ConcatAdjacentSubSeq
  <1>6. SubSeq(r, 1, Len(r)) = r
    BY SubSeqFull
  <1> QED BY <1>3, <1>4, <1>5, <1>6

LEMMA ActivateInBuilds ==
    ASSUME mode = "circuitBuild", BuilderInv, Setting, ActivateIn
    PROVE  BuilderInv'
  <1>1. Types /\ Begun /\ InTime /\ Builder(t, Due) /\ t \in Connections /\ down \in Seq(Lines)
    BY DEF BuilderInv, Types
  <1>2. PICK c : c = CircuitBuildInitialize(t)
    OBVIOUS
  <1>3. c \in Connections /\ Builder(c, Due) /\ c.lines = t.lines /\ c.reply = t.reply
    BY <1>1, <1>2, BuilderInitialize
  <1>4. PICK n \in 1..Len(down) :
           /\ t' = [c EXCEPT !.lines = SubSeq(down, 1, n)]
           /\ down' = SubSeq(down, n + 1, Len(down))
    BY <1>2 DEF ActivateIn, Initialize
  <1>5. t.lines = <<>> /\ UNCHANGED <<mode, net, now, when, torVars>>
    BY DEF ActivateIn, Busy
  <1>6. PICK a \in Seq(Lines), b \in Seq(Lines) :
           a = SubSeq(down, 1, n) /\ b = SubSeq(down, n + 1, Len(down)) /\ a \o b = down
    BY <1>1, LinesSplit
  <1>7. /\ t' \in Connections /\ SameBuild(c, t') /\ t'.lines = a /\ t'.reply = c.reply
        /\ down' = b
    BY <1>3, <1>4, <1>6 DEF Connections, SameBuild, Cmds, Roomy
  <1>8. Due' = Due
    <2>1. t.lines \o down = down
      BY <1>1, <1>5, ConcatEmptySeq
    <2> QED BY <1>3, <1>6, <1>7, <2>1 DEF Due
  <1>9. Begun'
    BY <1>1, <1>3, <1>5, <1>7 DEF Begun, Phases
  <1>10. UNCHANGED <<mode, net, when, torVars>> /\ now' \in 0..NumCircuits /\ down' \in Seq(Lines)
    BY <1>1, <1>5, <1>7 DEF Types
  <1> QED BY <1>1, <1>3, <1>7, <1>8, <1>9, <1>10, BuilderPlugin

LEMMA ReadLineBuilds ==
    ASSUME mode = "circuitBuild", BuilderInv, Setting, ReadLine
    PROVE  BuilderInv'
  <1>1. Types /\ Begun /\ InTime /\ Builder(t, Due) /\ t \in Connections /\ down \in Seq(Lines)
        /\ t.lines \in Seq(Lines)
    BY DueType DEF BuilderInv, Types
  <1>2. t.lines # <<>> /\ UNCHANGED <<mode, net, now, down, when, torVars>>
    BY DEF ReadLine, Busy
  <1>3. PICK l \in Lines, rest \in Seq(Lines) : l = Head(t.lines) /\ rest = Tail(t.lines)
    BY <1>1, <1>2, HeadTaken
  <1>4. PICK q : q = t.lines \o down
    OBVIOUS
  <1>5. q \in Seq(Lines) /\ q # <<>> /\ Head(q) = l /\ Tail(q) = rest \o down
    BY <1>1, <1>2, <1>3, <1>4, FrontFirst
  <1>6. PICK c : c = [t EXCEPT !.lines = rest, !.reply = <<>>]
    OBVIOUS
  <1>7. /\ c \in Connections /\ SameBuild(t, c) /\ c.lines = rest /\ c.reply = <<>>
    <2>1. <<>> \in Seq(Lines)
      BY EmptySeq
    <2> QED BY <1>1, <1>3, <1>6, <2>1 DEF Connections, SameBuild, Cmds, Roomy
  <1>8. \A r : Builder(t, r) => Builder(c, r)
    BY <1>7 DEF SameBuild, Builder, Start, Setup, Checking, Creating, Building, Built,
                Fresh, IdsReal
  <1>9. UNCHANGED <<mode, net, when, torVars>> /\ now' \in 0..NumCircuits /\ down' \in Seq(Lines)
    BY <1>1, <1>2 DEF Types
  \* A reply begins, or is one line.
  <1>10. CASE t.reply = <<>>
    <2>1. Due = q
      BY <1>4, <1>5, <1>10, ConcatEmptySeq DEF Due
    <2>2. CASE l.more
      <3>1. l \in Phases
        <4>1. l \in Harmless \cup Boots \cup Phases \cup Plain({"extended"})
          BY <1>1, <1>5, <2>1, BuilderLine
        <4> QED BY <2>2, <4>1 DEF Harmless, Boots, Plain
      <3>2. PICK r \in Seq(Lines) : r = <<l>>
        BY Single
      <3>3. Append(t.reply, l) = r
        BY <1>10, <3>2
      <3>4. t' = [t EXCEPT !.lines = rest, !.reply = r]
        BY <1>3, <2>2, <3>3 DEF ReadLine
      <3>5. t' \in Connections /\ SameBuild(t, t') /\ t'.lines = rest /\ t'.reply = r
        BY <1>1, <1>3, <3>4 DEF Connections, SameBuild, Cmds, Roomy
      <3>6. Due' = q
        <4>1. <<l>> \o (rest \o down) = q
          <5>1. q = <<Head(q)>> \o Tail(q)
            <6>1. Len(q) \in Nat \ {0} /\ Head(q) = q[1] /\ q = SubSeq(q, 1, Len(q))
                  /\ Tail(q) = SubSeq(q, 2, Len(q))
              BY <1>5, HeadTaken, SubSeqFull, TailIsSubSeq
            <6>2. 1 \in 1..Len(q) /\ Len(q) \in 1..Len(q)
              BY <6>1
            <6>3. SubSeq(q, 1, Len(q)) = <<q[1]>> \o SubSeq(q, 1 + 1, Len(q))
              BY <1>5, <6>2, SubSeqRecursiveFirst
            <6> QED BY <6>1, <6>3
          <5> QED BY <1>5, <5>1
        <4> QED BY <1>2, <3>2, <3>5, <4>1 DEF Due
      <3>7. Begun'
        <4>1. Len(r) = 1 /\ r[1] = l
          BY <3>2
        <4>2. when' = when /\ mode' = mode
          BY <1>2
        <4> QED BY <3>1, <3>5, <4>1, <4>2 DEF Begun, Phases
      <3>8. Builder(t, q)
        BY <1>1, <2>1
      <3> QED BY <1>1, <1>9, <3>5, <3>6, <3>7, <3>8, BuilderPlugin
    <2>3. CASE ~l.more
      <3>1. t' = ProcessReply(c, <<l>>)
        <4>1. Append(t.reply, l) = <<l>>
          BY <1>10
        <4>2. c = [[t EXCEPT !.lines = Tail(@)] EXCEPT !.reply = <<>>]
          BY <1>1, <1>3, <1>6 DEF Connections
        <4> QED BY <1>3, <2>3, <4>1, <4>2 DEF ReadLine
      <3>2. Builder(c, q)
        BY <1>1, <1>8, <2>1
      <3>3. PICK d : d = t'
        OBVIOUS
      <3>4. d \in Connections /\ Builder(d, Tail(q)) /\ d.lines = rest /\ d.reply = <<>>
        BY <1>5, <1>7, <2>3, <3>1, <3>2, <3>3, BuilderReads
      <3>5. Due' = Tail(q)
        <4>1. rest \o down \in Seq(Lines)
          BY <1>1, <1>3, ConcatProperties
        <4>2. <<>> \o (rest \o down) = rest \o down
          BY <4>1, ConcatEmptySeq
        <4> QED BY <1>2, <1>5, <3>3, <3>4, <4>2 DEF Due
      <3>6. Begun'
        BY <3>3, <3>4 DEF Begun
      <3>7. SameBuild(d, t') /\ t' \in Connections
        BY <3>3, <3>4 DEF SameBuild
      <3> QED BY <1>1, <1>9, <3>4, <3>5, <3>6, <3>7, BuilderPlugin
    <2> QED BY <2>2, <2>3
  \* The reply with the phase ends.
  <1>11. CASE t.reply # <<>>
    <2>1. Len(t.reply) = 1 /\ t.reply[1] \in Phases /\ t.reply \in Seq(Lines)
      BY <1>1, <1>11, DueType DEF Begun
    <2>2. PICK p \in Phases : p = t.reply[1] /\ p \in Lines
      BY <2>1 DEF Phases
    <2>3. Tail(t.reply) = <<>> /\ Head(t.reply) = p /\ Append(t.reply, l) = <<p, l>>
      <3>1. t.reply = <<p>>
        BY <2>1, <2>2
      <3>2. Tail(t.reply) \in Seq(Lines) /\ Len(Tail(t.reply)) = Len(t.reply) - 1
            /\ Head(t.reply) = t.reply[1]
        BY <1>11, <2>1, HeadTaken
      <3>3. Len(Tail(t.reply)) = 0
        BY <2>1, <3>2
      <3>4. Tail(t.reply) = <<>>
        BY <3>2, <3>3, EmptySeq
      <3>5. Append(<<p>>, l) = <<p, l>>
        BY <2>2, Two
      <3> QED BY <2>2, <3>1, <3>2, <3>4, <3>5
    <2>4. Due \in Seq(Lines) /\ Due # <<>> /\ Head(Due) = p /\ Tail(Due) = q
      <3>1. PICK a \in Seq(Lines), b \in Seq(Lines) :
               a = t.reply /\ b = q /\ a # <<>> /\ Tail(a) = <<>> /\ Head(a) = p
        BY <1>5, <1>11, <2>1, <2>3
      <3>2. a \o b \in Seq(Lines) /\ a \o b # <<>> /\ Head(a \o b) = Head(a)
            /\ Tail(a \o b) = Tail(a) \o b
        <4>1. a # <<>>
          BY <3>1
        <4> QED BY <4>1, FrontFirst
      <3>3. <<>> \o b = b
        BY ConcatEmptySeq
      <3>4. Due = a \o b
        BY <1>4, <3>1 DEF Due
      <3> QED BY <3>1, <3>2, <3>3, <3>4
    <2>5. StatusAnswer(Due)
      BY <1>1, <2>2, <2>4, PhaseFirst
    <2>6. l \in Plain({"ok"})
      BY <1>5, <2>2, <2>4, <2>5, AnswerNow
    <2>7. t' = ProcessReply(c, <<p, l>>)
      <3>1. c = [[t EXCEPT !.lines = Tail(@)] EXCEPT !.reply = <<>>]
        BY <1>1, <1>3, <1>6 DEF Connections
      <3>2. ~l.more
        BY <2>6 DEF Plain
      <3> QED BY <1>3, <2>3, <3>1, <3>2 DEF ReadLine
    <2>8. t' = CircuitBuildResponse(CircuitBuildResponse(c, p, p), p, l)
      <3>1. p.kind = "phase" /\ <<p, l>>[1] = p
        BY <2>2 DEF Phases
      <3>2. ProcessReply(c, <<p, l>>) = Responses(c, <<p, l>>)
        BY <3>1 DEF ProcessReply
      <3>3. Responses(c, <<p, l>>) = Response(Response(c, p, p), p, l)
        BY TwoLines
      <3> QED BY <2>7, <3>2, <3>3 DEF Response
    <2>9. PICK e : e = t'
      OBVIOUS
    <2>10. Builder(c, Due)
      BY <1>1, <1>8
    <2>11. PICK z \in Seq(Lines), r \in {Tail(Tail(Due))} :
              z = Due /\ z # <<>> /\ p = Head(z) /\ l = Head(Tail(z)) /\ r = Tail(Tail(z))
      BY <1>5, <2>4
    <2>12. Builder(c, z) /\ r = Tail(q)
      BY <2>4, <2>10, <2>11
    <2>13. e \in Connections /\ Builder(e, r) /\ e.lines = c.lines /\ e.reply = c.reply
      <3>1. Begins(z, p, l, r)
        BY <2>11 DEF Begins
      <3>2. e = CircuitBuildResponse(CircuitBuildResponse(c, p, p), p, l)
        BY <2>8, <2>9
      <3>3. Handled(c, e, r)
        BY <1>7, <2>12, <3>1, <3>2, BuilderPhase
      <3> QED BY <3>3 DEF Handled
    <2>14. Builder(e, Tail(q)) /\ e.lines = rest /\ e.reply = <<>>
      BY <1>7, <2>12, <2>13
    <2>15. Due' = Tail(q)
      <3>1. rest \o down \in Seq(Lines)
        BY <1>1, <1>3, ConcatProperties
      <3>2. <<>> \o (rest \o down) = rest \o down
        BY <3>1, ConcatEmptySeq
      <3> QED BY <1>2, <1>5, <2>9, <2>14, <3>2 DEF Due
    <2>16. Begun'
      BY <2>9, <2>14 DEF Begun
    <2>17. SameBuild(e, t') /\ t' \in Connections
      BY <2>9, <2>13 DEF SameBuild
    <2> QED BY <1>1, <1>9, <2>14, <2>15, <2>16, <2>17, BuilderPlugin
  <1> QED BY <1>10, <1>11

\* The pinger's timer never runs, the clock moves nothing.
LEMMA ClockBuilds ==
    ASSUME mode = "circuitBuild", BuilderInv, PingTimer \/ Clock
    PROVE  BuilderInv'
  <1>1. Types /\ Begun /\ InTime /\ Builder(t, Due) /\ t \in Connections
    BY DEF BuilderInv, Types
  <1>2. Clock
    BY <1>1 DEF PingTimer, Builder
  <1>3. UNCHANGED <<mode, t, net, down, when, torVars>> /\ now' \in 0..NumCircuits
    BY <1>1, <1>2, TorControlAssumption DEF Clock, Types
  <1>4. SameBuild(t, t') /\ Due' = Due /\ Begun' /\ t' \in Connections /\ down' \in Seq(Lines)
    BY <1>1, <1>3 DEF SameBuild, Due, Begun, Phases, Types
  <1> QED BY <1>1, <1>3, <1>4, BuilderPlugin

\* During set-up the socket stays open.
LEMMA NetBuilds ==
    ASSUME mode = "circuitBuild", BuilderInv, NetChange, odd' = {}
    PROVE  BuilderInv'
  <1>1. Types /\ Begun /\ InTime /\ Builder(t, Due) /\ t \in Connections
    BY DEF BuilderInv, Types
  <1>2. UNCHANGED <<mode, t, now, down, when, torVars>> /\ net' \in NetStates /\ net' # net
        /\ (net' = "open" \/ ~SettingUp)
    BY DEF NetChange
  <1>3. ~Start(t, Due) /\ ~Setup(t, Due) /\ ~Checking(t, Due)
    BY <1>2 DEF Start, Setup, Checking, SettingUp, SetupSteps
  <1>4. Creating(t, Due) \/ Building(t, Due) \/ Built(t, Due)
    BY <1>1, <1>3 DEF Builder
  <1>5. Due' = Due /\ Types' /\ InTime' /\ Begun' /\ Cmds(t)' = Cmds(t)
    BY <1>1, <1>2 DEF Due, Types, InTime, Begun, Phases, torVars, Cmds
  <1>6. UNCHANGED <<t, when, booted, asked, made>>
    BY <1>2 DEF torVars
  <1>7. Creating(t, Due) => Creating(t, Due)'
    BY <1>5, <1>6 DEF Creating, Fresh, All, One
  <1>8. Building(t, Due) => Building(t, Due)'
    BY <1>5, <1>6 DEF Building, Extended, All, One
  <1>9. Built(t, Due) => Built(t, Due)'
    BY <1>5, <1>6 DEF Built, All, One
  <1>10. IdsReal(t)' /\ ~t'.crashed /\ t'.timers = 0 /\ Roomy(t)'
    <2>1. net' = "tight" => t.sendBuf = <<>>
      BY DEF NetChange
    <2> QED BY <1>1, <1>6, <2>1 DEF Builder, IdsReal, Roomy
  <1>11. Builder(t, Due)'
    BY <1>4, <1>7, <1>8, <1>9, <1>10 DEF Builder
  <1> QED BY <1>5, <1>11 DEF BuilderInv

\* Lines that Tor sends come last.
LEMMA DueAdds ==
    ASSUME Types, NEW new \in Seq(Lines), down' = down \o new,
           t'.lines = t.lines, t'.reply = t.reply
    PROVE  Due' = Due \o new /\ down' \in Seq(Lines)
  <1>1. PICK a \in Seq(Lines), b \in Seq(Lines), c \in Seq(Lines) :
           a = t.reply /\ b = t.lines /\ c = down
    BY DueType
  <1>2. PICK bc \in Seq(Lines) : bc = b \o c
    BY ConcatProperties
  <1>3. InTurn(b, c, new) /\ InTurn(a, bc, new)
    BY JoinedInTurn
  <1>4. b \o (c \o new) = bc \o new
    BY <1>2, <1>3, Zenon DEF InTurn
  <1>5. a \o (bc \o new) = (a \o bc) \o new
    BY <1>3, Zenon DEF InTurn
  <1>6. a \o (b \o (c \o new)) = (a \o (b \o c)) \o new
    BY <1>2, <1>4, <1>5, Zenon
  <1>7. Due' = a \o (b \o (c \o new)) /\ Due = a \o (b \o c)
    BY <1>1, Zenon DEF Due
  <1>8. down' \in Seq(Lines)
    BY <1>1, ConcatProperties
  <1> QED BY <1>6, <1>7, <1>8, Zenon

LEMMA LineType ==
    ASSUME NEW kind \in Kinds, NEW val \in Nat
    PROVE  Line(kind, val) \in Plain({kind}) /\ Line(kind, val).val = val
  BY DEF Line, Plain, Lines

\* The command that Tor takes.
LEMMA CommandTaken ==
    ASSUME Types, TorAnswers
    PROVE  /\ t' \in Connections /\ SameModule(t, t') /\ Cmds(t) # <<>>
           /\ Cmds(t) \in Seq(Commands)
           /\ Head(Cmds(t)) = Head(t.up) /\ Cmds(t)' = Tail(Cmds(t))
           /\ t'.sendBuf = t.sendBuf /\ UNCHANGED <<mode, net, now, when>>
  <1>1. t \in Connections /\ t.up # <<>> /\ t' = [t EXCEPT !.up = Tail(@)]
        /\ UNCHANGED <<mode, net, now, when>>
    BY DEF Types, TorAnswers, exceptTor
  <1>2. PICK u \in Seq(Commands), b \in Seq(Commands) : u = t.up /\ b = t.sendBuf
    BY <1>1, CmdsType
  <1>3. u # <<>>
    BY <1>1, <1>2
  <1>4. Tail(u) \in Seq(Commands)
    BY <1>3, HeadTaken
  <1>5. /\ u \o b \in Seq(Commands) /\ u \o b # <<>>
        /\ Head(u \o b) = Head(u) /\ Tail(u \o b) = Tail(u) \o b
    BY <1>3, FrontFirst
  <1>6. t' \in Connections /\ SameModule(t, t') /\ t'.up = Tail(u) /\ t'.sendBuf = b
    BY <1>1, <1>2, <1>4 DEF Connections, SameModule, SameData, Roomy
  <1>7. Cmds(t) = u \o b /\ Cmds(t)' = Tail(u) \o b
    BY <1>2, <1>6 DEF Cmds
  <1> QED BY <1>1, <1>2, <1>5, <1>6, <1>7

\* An answer of one line to a command that makes no circuit.
LEMMA PlainAnswer ==
    ASSUME mode = "circuitBuild", BuilderInv, TorAnswers,
           NEW l \in Lines, down' = down \o <<l>>,
           UNCHANGED <<booted, asked, made, alive, streams>>, events' \in BOOLEAN,
           \A d : SameModule(t, d) /\ Cmds(d) = Tail(Cmds(t)) => Builder(d, Due \o <<l>>)
    PROVE  BuilderInv'
  <1>1. Types /\ Begun /\ InTime
    BY DEF BuilderInv
  <1>2. /\ t' \in Connections /\ SameModule(t, t') /\ Cmds(t)' = Tail(Cmds(t))
        /\ UNCHANGED <<mode, net, now, when>>
    BY <1>1, CommandTaken
  <1>3. <<l>> \in Seq(Lines)
    BY Single
  <1>4. Due' = Due \o <<l>> /\ down' \in Seq(Lines)
    BY <1>1, <1>2, <1>3, DueAdds DEF SameModule, SameData
  <1>5. PICK d, q : d = t' /\ q = Due \o <<l>>
    OBVIOUS
  <1>6. SameModule(t, d) /\ Cmds(d) = Tail(Cmds(t))
    BY <1>2, <1>5 DEF Cmds
  <1>7. Builder(d, q) /\ SameBuild(d, t') /\ Due' = q
    BY <1>4, <1>5, <1>6 DEF SameBuild
  <1>8. UNCHANGED <<net, when, booted, asked, made>>
    BY <1>2
  <1>9. Builder(t, Due)'
    BY <1>7, <1>8, BuilderStays
  <1>10. Types' /\ InTime' /\ Begun'
    BY <1>1, <1>2, <1>4 DEF Types, InTime, Begun, Phases, SameModule, SameData
  <1> QED BY <1>9, <1>10 DEF BuilderInv

\* Streams are attached, or not.
LEMMA AttachAnswered ==
    ASSUME mode = "circuitBuild", BuilderInv, TorAnswers, t.bootstrapped,
           Head(Cmds(t)) \in Attaching
    PROVE  BuilderInv'
  <1>1. Types /\ Builder(t, Due)
    BY DEF BuilderInv
  <1>2. Cmds(t) # <<>> /\ Cmds(t) \in Seq(Commands) /\ Head(t.up) = Head(Cmds(t))
    BY <1>1, CommandTaken
  <1>3. Head(t.up)[1] = "ATTACHSTREAM"
    BY <1>2 DEF Attaching
  <1>4. (down' = down \o <<Ok>> \/ down' = down \o <<Error>>) /\ UNCHANGED torVars
    BY <1>3 DEF TorAnswers, Send
  <1>5. PICK l \in Lines : down' = down \o <<l>> /\ l \in Harmless
    <2>1. Ok \in Plain({"ok"}) /\ Error \in Plain({"error"})
      BY LineType DEF Ok, Error, Kinds
    <2>2. Ok \in Harmless /\ Error \in Harmless /\ Ok \in Lines /\ Error \in Lines
      BY <2>1 DEF Harmless, Plain
    <2> QED BY <1>4, <2>2
  <1>6. All(<<l>>, Harmless) /\ <<l>> \in Seq(Lines) /\ Due \in Seq(Lines)
    BY <1>1, <1>5, Single, DueType
  <1>7. /\ All(Due, Harmless) => All(Due \o <<l>>, Harmless)
        /\ \A X : One(Due, X, Harmless) => One(Due \o <<l>>, X, Harmless)
    BY <1>6, AllJoined, OneJoined
  <1>8. /\ All(Cmds(t), Attaching) => All(Tail(Cmds(t)), Attaching)
        /\ \A X : One(Cmds(t), X, Attaching) /\ Head(Cmds(t)) \notin X
                     => One(Tail(Cmds(t)), X, Attaching)
    BY <1>2, AllTaken, OneTaken
  <1>9. Head(Cmds(t)) # <<"EXTENDCIRCUIT", Head(t.queue)>>
    BY DEF Attaching
  <1>10. Building(t, Due) \/ Built(t, Due)
    BY <1>1 DEF Builder, Start, Setup, Checking, Creating, Fresh
  <1>11. ASSUME NEW d, SameModule(t, d), Cmds(d) = Tail(Cmds(t))
         PROVE  Builder(d, Due \o <<l>>)
    <2>1. Building(t, Due) => Building(d, Due \o <<l>>)
      BY <1>7, <1>8, <1>9, <1>11 DEF Building, SameModule, SameData
    <2>2. Built(t, Due) => Built(d, Due \o <<l>>)
      BY <1>7, <1>8, <1>11 DEF Built, SameModule, SameData
    <2>3. ~d.crashed /\ d.timers = 0 /\ IdsReal(d) /\ Roomy(d)
      BY <1>1, <1>11 DEF Builder, IdsReal, SameModule, SameData
    <2> QED BY <1>10, <2>1, <2>2, <2>3 DEF Builder
  <1>12. UNCHANGED <<booted, asked, made, alive, streams>> /\ events' \in BOOLEAN
    BY <1>1, <1>4 DEF torVars, Types
  <1> QED BY <1>5, <1>11, <1>12, PlainAnswer

\* A step of the set-up is answered.
LEMMA SetupAnswered ==
    ASSUME mode = "circuitBuild", BuilderInv, TorAnswers, Setup(t, Due)
    PROVE  BuilderInv'
  <1>1. Types /\ Builder(t, Due)
    BY DEF BuilderInv
  <1>2. Cmds(t) # <<>> /\ Cmds(t) \in Seq(Commands) /\ Head(t.up) = Head(Cmds(t))
    BY <1>1, CommandTaken
  <1>3. PICK s \in SetupSteps :
           t.state = s[1] /\ t.nextState = s[2] /\ Cmds(t) = <<s[3]>> /\ All(Due, Events)
    BY <1>2 DEF Setup
  <1>4. Head(t.up) = s[3] /\ Tail(Cmds(t)) = <<>>
    <2>1. Tail(Cmds(t)) \in Seq(Commands) /\ Len(Tail(Cmds(t))) = Len(Cmds(t)) - 1
          /\ Head(Cmds(t)) = Cmds(t)[1]
      BY <1>2, HeadTaken
    <2>2. Len(Cmds(t)) = 1 /\ Cmds(t)[1] = s[3]
      BY <1>3
    <2>3. Len(Tail(Cmds(t))) = 0
      BY <2>1, <2>2
    <2>4. Tail(Cmds(t)) = <<>>
      BY <2>1, <2>3, EmptySeq
    <2> QED BY <1>2, <2>1, <2>2, <2>4
  <1>5. Head(t.up)[1] \in {"AUTHENTICATE", "SETCONF", "SETEVENTS"}
    BY <1>4 DEF SetupSteps
  <1>6. /\ down' = down \o <<Ok>> /\ events' \in BOOLEAN
        /\ UNCHANGED <<booted, asked, made, alive, streams>>
    BY <1>1, <1>5 DEF TorAnswers, Send, torVars, Types
  <1>7. Ok \in Plain({"ok"}) /\ Ok \in Lines
    <2>1. Ok \in Plain({"ok"})
      BY LineType DEF Ok, Kinds
    <2> QED BY <2>1 DEF Plain
  <1>8. One(<<Ok>>, Plain({"ok"}), Events) /\ <<Ok>> \in Seq(Lines) /\ Due \in Seq(Lines)
    BY <1>1, <1>7, Single, DueType
  <1>9. One(Due \o <<Ok>>, Plain({"ok"}), Events)
    BY <1>3, <1>8, OneJoined
  <1>10. ASSUME NEW d, SameModule(t, d), Cmds(d) = Tail(Cmds(t))
         PROVE  Builder(d, Due \o <<Ok>>)
    <2>1. Fresh(d) /\ d.waiting /\ d.state = s[1] /\ d.nextState = s[2] /\ Cmds(d) = <<>>
          /\ net = "open" /\ ~asked
      BY <1>3, <1>4, <1>10 DEF Setup, Fresh, SameModule, SameData
    <2>2. Setup(d, Due \o <<Ok>>)
      BY <1>9, <2>1 DEF Setup
    <2>3. ~d.crashed /\ d.timers = 0 /\ IdsReal(d) /\ Roomy(d)
      BY <1>1, <1>10 DEF Builder, IdsReal, SameModule, SameData
    <2> QED BY <2>2, <2>3 DEF Builder
  <1> QED BY <1>6, <1>7, <1>10, PlainAnswer

\* GETINFO is answered: the phase and the status of Tor come last.
LEMMA GetinfoAnswered ==
    ASSUME mode = "circuitBuild", BuilderInv, Setting, TorAnswers, Checking(t, Due)
    PROVE  BuilderInv'
  <1>1. Types /\ Begun /\ InTime /\ Builder(t, Due)
    BY DEF BuilderInv
  <1>2. /\ t' \in Connections /\ SameModule(t, t') /\ Cmds(t) # <<>>
        /\ Cmds(t) \in Seq(Commands) /\ Head(Cmds(t)) = Head(t.up) /\ Cmds(t)' = Tail(Cmds(t))
        /\ UNCHANGED <<mode, net, now, when>>
    BY <1>1, CommandTaken
  <1>3. Fresh(t) /\ net = "open" /\ t.state = "CHECKSTATUS" /\ t.waiting
        /\ ~asked /\ Cmds(t) = << <<"GETINFO">> >> /\ All(Due, Events)
    BY <1>2 DEF Checking
  <1>4. Head(t.up) = <<"GETINFO">> /\ Tail(Cmds(t)) = <<>>
    <2>1. Tail(Cmds(t)) \in Seq(Commands) /\ Len(Tail(Cmds(t))) = Len(Cmds(t)) - 1
          /\ Head(Cmds(t)) = Cmds(t)[1]
      BY <1>2, HeadTaken
    <2>2. Len(Cmds(t)) = 1 /\ Cmds(t)[1] = <<"GETINFO">>
      BY <1>3
    <2>3. Len(Tail(Cmds(t))) = 0
      BY <2>1, <2>2
    <2>4. Tail(Cmds(t)) = <<>>
      BY <2>1, <2>3, EmptySeq
    <2> QED BY <1>2, <2>1, <2>2, <2>4
  <1>5. PICK p : p = [Line("phase", Progress) EXCEPT !.more = TRUE]
    OBVIOUS
  <1>6. PICK new : new = <<p, Ok>>
    OBVIOUS
  <1>7. Head(t.up)[1] = "GETINFO"
    BY <1>4
  <1>8. asked' = TRUE /\ down' = down \o new
        /\ UNCHANGED <<booted, events, made, alive, extended, failed, losses, streams>>
    BY <1>5, <1>6, <1>7 DEF TorAnswers, Send
  <1>9. Ok \in Plain({"ok"}) /\ Ok \in Lines
    <2>1. Ok \in Plain({"ok"})
      BY LineType DEF Ok, Kinds
    <2> QED BY <2>1 DEF Plain
  <1>10. p \in Phases /\ p \in Lines
    <2>1. Progress = IF when = "before" THEN 100 ELSE 50
      BY <1>1, <1>3 DEF Setting, InTime, Progress
    <2> QED BY <1>5, <2>1 DEF Line, Phases, Lines, Kinds
  <1>11. new \in Seq(Lines) /\ Len(new) = 2 /\ new[1] = p /\ new[2] = Ok
    BY <1>6, <1>9, <1>10
  <1>12. Due' = Due \o new /\ down' \in Seq(Lines) /\ Due \in Seq(Lines)
    BY <1>1, <1>2, <1>8, <1>11, DueAdds, DueType DEF SameModule, SameData
  <1>13. PICK q \in Seq(Lines), n \in Nat, z \in Seq(Lines) :
            /\ q = Due /\ n = Len(q) /\ z = q \o new /\ Len(z) = n + 2
            /\ \A i \in 1..n : z[i] = q[i]
            /\ z[n + 1] = p /\ z[n + 2] = Ok
    <2>1. PICK q \in Seq(Lines) : q = Due
      BY <1>12
    <2>2. new \in Seq(Lines)
      BY <1>11
    <2>3. /\ q \o new \in Seq(Lines) /\ Len(q \o new) = Len(q) + Len(new) /\ Len(q) \in Nat
          /\ \A i \in 1..Len(q) : (q \o new)[i] = q[i]
          /\ \A i \in 1..Len(new) : (q \o new)[Len(q) + i] = new[i]
      BY <2>2, Joined
    <2>4. PICK n \in Nat, z \in Seq(Lines) : n = Len(q) /\ z = q \o new
      BY <2>3
    <2>5. 1 \in 1..Len(new) /\ 2 \in 1..Len(new)
      BY <1>11
    <2>6. z[n + 1] = new[1] /\ z[n + 2] = new[2]
      BY <2>3, <2>4, <2>5
    <2>7. Len(z) = n + 2 /\ \A i \in 1..n : z[i] = q[i]
      BY <1>11, <2>3, <2>4
    <2> QED BY <1>11, <2>1, <2>4, <2>6, <2>7
  <1>14. \A j \in 1..Len(z) : j \notin {n + 1, n + 2} => z[j] \in Events
    <2>1. \A j \in 1..n : z[j] \in Events
      BY <1>3, <1>13 DEF All
    <2>2. \A j \in 1..n + 2 : j \in 1..n \/ j = n + 1 \/ j = n + 2
      OBVIOUS
    <2> QED BY <1>13, <2>1, <2>2
  <1>15. ~(booted /\ when = "after") /\ when # "during"
    <2>1. when # "during"
      BY <1>1, <1>7 DEF InTime, TorAnswers
    <2> QED BY <1>1, <1>3, <2>1 DEF InTime
  <1>16. Due' = z /\ booted' = booted /\ when' = when /\ Phases' = Phases
    BY <1>2, <1>8, <1>12, <1>13 DEF Phases
  <1>17. PICK i \in 1..Len(z) : i = n + 1 /\ i + 1 = n + 2 /\ i + 1 \in 1..Len(z)
    BY <1>13
  <1>18. StatusAnswer(Due)'
    <2>1. z[i] \in Phases' /\ z[i + 1] \in Plain({"ok"})
      BY <1>9, <1>10, <1>13, <1>16, <1>17
    <2>2. \A j \in 1..Len(z) : j \notin {i, i + 1, i} => z[j] \in Events
      BY <1>14, <1>17
    <2>3. ~(booted' /\ when' = "after")
      BY <1>15, <1>16
    <2> QED BY <1>16, <1>17, <2>1, <2>2, <2>3 DEF StatusAnswer
  <1>19. Checking(t, Due)'
    <2>1. Fresh(t)' /\ net' = "open" /\ t'.state = "CHECKSTATUS" /\ t'.waiting
      BY <1>2, <1>3 DEF Fresh, SameModule, SameData
    <2> QED BY <1>2, <1>4, <1>8, <1>18, <2>1 DEF Checking
  <1>20. ~t'.crashed /\ t'.timers = 0 /\ IdsReal(t)' /\ Roomy(t)'
    BY <1>1, <1>2, <1>8 DEF Builder, IdsReal, SameModule, SameData, Roomy
  <1>21. Types' /\ InTime' /\ Begun'
    BY <1>1, <1>2, <1>8, <1>12, <1>15, <1>16
       DEF Types, InTime, Begun, SameModule, SameData
  <1> QED BY <1>19, <1>20, <1>21 DEF BuilderInv, Builder

\* The circuit is made for the head of the queue.
LEMMA ExtendAnswered ==
    ASSUME mode = "circuitBuild", BuilderInv, Setting, TorAnswers, Building(t, Due),
           Head(Cmds(t)) \notin Attaching
    PROVE  BuilderInv'
  <1>1. Types /\ Begun /\ InTime /\ Builder(t, Due)
    BY DEF BuilderInv
  <1>2. /\ t' \in Connections /\ SameModule(t, t') /\ Cmds(t) # <<>>
        /\ Cmds(t) \in Seq(Commands) /\ Head(Cmds(t)) = Head(t.up) /\ Cmds(t)' = Tail(Cmds(t))
        /\ UNCHANGED <<mode, net, now, when>>
    BY <1>1, CommandTaken
  <1>3. PICK k : k = Head(t.queue)
    OBVIOUS
  <1>4. Head(t.up) = <<"EXTENDCIRCUIT", k>> /\ All(Tail(Cmds(t)), Attaching)
        /\ All(Due, Harmless)
    <2>1. ~All(Cmds(t), Attaching)
      BY <1>2, AllTaken
    <2>2. One(Cmds(t), {<<"EXTENDCIRCUIT", k>>}, Attaching) /\ All(Due, Harmless)
      BY <1>3, <2>1 DEF Building
    <2>3. \/ Head(Cmds(t)) \in {<<"EXTENDCIRCUIT", k>>} /\ All(Tail(Cmds(t)), Attaching)
          \/ Head(Cmds(t)) \in Attaching /\ One(Tail(Cmds(t)), {<<"EXTENDCIRCUIT", k>>}, Attaching)
      BY <1>2, <2>2, OneTaken
    <2> QED BY <1>2, <2>2, <2>3
  <1>5. Head(t.up)[1] = "EXTENDCIRCUIT" /\ Head(t.up)[2] = k
    BY <1>4
  <1>6. booted /\ asked /\ t.bootstrapped /\ t.state = "GET_CIRC_ID" /\ t.waiting
        /\ t.queue # <<>>
    BY DEF Building
  <1>7. PICK l : l = Line("extended", Len(made) + 1)
    OBVIOUS
  <1>8. /\ made' = Append(made, k) /\ alive' = alive \cup {Len(made) + 1}
        /\ down' = down \o <<l>>
        /\ UNCHANGED <<booted, events, asked, extended, failed, losses, streams>>
    BY <1>5, <1>6, <1>7 DEF TorAnswers, Send
  <1>9. k \in 0..NumCircuits
    <2>1. t.queue \in Seq(Circuits)
      BY <1>1 DEF Types, Connections
    <2>2. k \in Circuits
      BY <1>3, <1>6, <2>1, HeadTaken
    <2> QED BY <2>2, TorControlAssumption DEF Circuits
  <1>10. /\ made \in Seq(0..NumCircuits) /\ Len(made) \in Nat
         /\ made' \in Seq(0..NumCircuits) /\ Len(made') = Len(made) + 1
         /\ \A i \in 1..Len(made) : made'[i] = made[i]
         /\ made'[Len(made) + 1] = k
    BY <1>1, <1>8, <1>9 DEF Types
  <1>11. DOMAIN made = 1..Len(made) /\ DOMAIN made' = 1..Len(made')
    BY <1>10
  <1>12. \A i \in DOMAIN made : i \in DOMAIN made' /\ made'[i] = made[i]
    BY <1>10, <1>11
  <1>13. l \in Plain({"extended"}) /\ l.val = Len(made) + 1 /\ l \in Lines
    <2>1. l \in Plain({"extended"}) /\ l.val = Len(made) + 1
      BY <1>7, <1>10, LineType DEF Kinds
    <2> QED BY <2>1 DEF Plain
  <1>14. l \in Extended(k)'
    <2>1. l.val \in DOMAIN made' /\ made'[l.val] = k
      BY <1>10, <1>11, <1>13
    <2> QED BY <1>13, <2>1 DEF Extended
  <1>15. <<l>> \in Seq(Lines) /\ Due \in Seq(Lines) /\ One(<<l>>, Extended(k)', Harmless)
    BY <1>1, <1>13, <1>14, Single, DueType
  <1>16. Due' = Due \o <<l>> /\ down' \in Seq(Lines)
    BY <1>1, <1>2, <1>8, <1>15, DueAdds DEF SameModule, SameData
  <1>17. One(Due', Extended(k)', Harmless)
    BY <1>4, <1>15, <1>16, OneJoined
  <1>18. Building(t, Due)'
    <2>1. t'.bootstrapped /\ booted' /\ asked' /\ t'.state = "GET_CIRC_ID" /\ t'.waiting
          /\ t'.queue # <<>> /\ Head(t'.queue) = k
      BY <1>2, <1>3, <1>6, <1>8 DEF SameModule, SameData
    <2>2. All(Cmds(t), Attaching)'
      BY <1>2, <1>4 DEF All
    <2>3. One(Due, Extended(Head(t.queue)), Harmless)'
      BY <1>17, <2>1 DEF One
    <2> QED BY <2>1, <2>2, <2>3 DEF Building
  <1>19. ~t'.crashed /\ t'.timers = 0 /\ IdsReal(t)' /\ Roomy(t)'
    BY <1>1, <1>2, <1>12 DEF Builder, IdsReal, SameModule, SameData, Roomy
  <1>20. Types' /\ InTime' /\ Begun'
    <2>1. Len(made) + 1 \in Nat /\ alive \in SUBSET Nat
      BY <1>1, <1>10 DEF Types
    <2>2. alive' \in SUBSET Nat
      BY <1>8, <2>1
    <2> QED BY <1>1, <1>2, <1>8, <1>10, <1>16, <2>2
               DEF Types, InTime, Begun, Phases, SameModule, SameData
  <1> QED BY <1>18, <1>19, <1>20 DEF BuilderInv, Builder

\* Tor's answer to any command.
LEMMA TorAnswersBuilds ==
    ASSUME mode = "circuitBuild", BuilderInv, Setting, TorAnswers
    PROVE  BuilderInv'
  <1>1. Types /\ Builder(t, Due)
    BY DEF BuilderInv
  <1>2. Cmds(t) # <<>> /\ Cmds(t) \in Seq(Commands)
    BY <1>1, CommandTaken
  <1>3. CASE Setup(t, Due)
    BY <1>3, SetupAnswered
  <1>4. CASE Checking(t, Due)
    BY <1>4, GetinfoAnswered
  <1>5. CASE Head(Cmds(t)) \in Attaching /\ t.bootstrapped
    BY <1>5, AttachAnswered
  <1>6. CASE Building(t, Due)
    <2>1. t.bootstrapped
      BY <1>6 DEF Building
    <2> QED BY <1>5, <1>6, <2>1, ExtendAnswered
  <1>7. CASE Built(t, Due)
    <2>1. t.bootstrapped /\ Head(Cmds(t)) \in Attaching
      BY <1>2, <1>7, AllTaken DEF Built
    <2> QED BY <1>5, <2>1
  <1> QED BY <1>1, <1>2, <1>3, <1>4, <1>6, <1>7 DEF Builder, Start, Creating

\* An event that moves nothing, whether Tor sends it or not.
LEMMA EventSent ==
    ASSUME mode = "circuitBuild", BuilderInv,
           NEW l \in Events, Emit(l), UNCHANGED <<exceptTor, t, booted, events, asked, made>>,
           alive' \in SUBSET Nat, streams' \in Nat
    PROVE  BuilderInv'
  <1>1. Types /\ Begun /\ InTime /\ Builder(t, Due) /\ t \in Connections
    BY DEF BuilderInv, Types
  <1>2. UNCHANGED <<mode, net, now, when>>
    BY DEF exceptTor
  <1>3. PICK new \in Seq(Lines) : All(new, Events) /\ down' = down \o new
    <2>1. CASE events
      <3>1. l \in Lines
        BY DEF Events, Plain
      <3>2. <<l>> \in Seq(Lines) /\ All(<<l>>, Events)
        BY <3>1, Single
      <3>3. down \in Seq(Lines)
        BY <1>1, DueType
      <3>4. down' = down \o <<l>>
        BY <2>1, <3>1, <3>3, AppendIsConcat DEF Emit
      <3> QED BY <3>2, <3>4
    <2>2. CASE ~events
      <3>1. <<>> \in Seq(Lines) /\ All(<<>>, Events)
        BY EmptySeq, NoneAtAll
      <3>2. down \in Seq(Lines)
        BY <1>1, DueType
      <3>3. down' = down \o <<>>
        BY <2>2, <3>2, ConcatEmptySeq DEF Emit
      <3> QED BY <3>1, <3>3
    <2> QED BY <2>1, <2>2
  <1>4. Due' = Due \o new /\ down' \in Seq(Lines) /\ Due \in Seq(Lines)
    BY <1>1, <1>3, DueAdds, DueType
  <1>5. PICK q \in Seq(Lines) : q = Due
    BY <1>4
  <1>6. Builder(t, q)
    BY <1>1, <1>5
  <1>7. Builder(t, q \o new)
    BY <1>3, <1>6, EventsAdded
  <1>8. PICK c, r : c = t /\ r = q \o new
    OBVIOUS
  <1>9. Builder(c, r) /\ SameBuild(c, t') /\ Due' = r
    BY <1>4, <1>5, <1>7, <1>8 DEF SameBuild
  <1>10. UNCHANGED <<net, when, booted, asked, made>>
    BY <1>2
  <1>11. Builder(t, Due)'
    BY <1>9, <1>10, BuilderStays
  <1>12. Types' /\ InTime' /\ Begun'
    BY <1>1, <1>2, <1>4 DEF Types, InTime, Begun, Phases
  <1> QED BY <1>11, <1>12 DEF BuilderInv

\* Circuits are lost, streams opened.
LEMMA EventsBuild ==
    ASSUME mode = "circuitBuild", BuilderInv, TorExtends \/ TorLoses \/ StreamOpens
    PROVE  BuilderInv'
  <1>1. alive \in SUBSET Nat /\ streams \in Nat
    BY DEF BuilderInv, Types
  <1>2. CASE TorLoses
    <2>1. PICK id \in alive, status \in {"FAILED", "CLOSED"} :
             alive' = alive \ {id} /\ Emit(CircLine(id, status))
      BY <1>2 DEF TorLoses
    <2>2. CircLine(id, status) \in Events
      BY <1>1, <2>1 DEF CircLine, Line, Events, Plain, Lines, Kinds
    <2>3. UNCHANGED <<exceptTor, t, booted, events, asked, made>> /\ streams' = streams
      BY <1>2 DEF TorLoses
    <2>4. alive' \in SUBSET Nat
      BY <1>1, <2>1
    <2> QED BY <1>1, <2>1, <2>2, <2>3, <2>4, EventSent
  <1>3. CASE StreamOpens
    <2>1. Line("stream", streams + 1) \in Events
      <3>1. Line("stream", streams + 1) \in Plain({"stream"})
        BY <1>1, LineType DEF Kinds
      <3> QED BY <3>1 DEF Events, Plain
    <2>2. UNCHANGED <<exceptTor, t, booted, events, asked, made>> /\ alive' = alive
          /\ streams' = streams + 1 /\ Emit(Line("stream", streams + 1))
      BY <1>3 DEF StreamOpens
    <2>3. streams' \in Nat
      BY <1>1, <2>2
    <2> QED BY <1>1, <2>1, <2>2, <2>3, EventSent
  <1> QED BY <1>2, <1>3 DEF TorExtends

\* Tor boots while the builder waits for it.
LEMMA TorBootsBuilds ==
    ASSUME mode = "circuitBuild", BuilderInv, Setting, TorBoots, when # "during"
    PROVE  BuilderInv'
  <1>1. Types /\ Begun /\ InTime /\ Builder(t, Due) /\ t \in Connections
    BY DEF BuilderInv, Types
  <1>2. /\ ~booted /\ booted' /\ events
        /\ UNCHANGED <<mode, net, now, when, t, events, asked, made, alive, streams>>
        /\ down' = Append(down, Line("bootstrap", 100))
    BY DEF TorBoots, exceptTor, Emit
  <1>3. when = "after" /\ asked
    BY <1>1, <1>2 DEF TorBoots, InTime, Setting
  <1>4. PICK l : l = Line("bootstrap", 100)
    OBVIOUS
  <1>5. l \in Boots /\ l \in Lines
    <2>1. l \in Plain({"bootstrap"}) /\ l.val = 100
      BY <1>4, LineType DEF Kinds
    <2> QED BY <2>1 DEF Boots, Plain
  <1>6. <<l>> \in Seq(Lines) /\ One(<<l>>, Boots, Events)
    BY <1>5, Single
  <1>7. down' = down \o <<l>>
    <2>1. down \in Seq(Lines)
      BY <1>1, DueType
    <2> QED BY <1>2, <1>4, <1>5, <2>1, AppendIsConcat
  <1>8. Due' = Due \o <<l>> /\ down' \in Seq(Lines) /\ Due \in Seq(Lines)
    BY <1>1, <1>2, <1>6, <1>7, DueAdds, DueType
  <1>9. Phases' = Phases
    BY <1>2 DEF Phases
  <1>10. Fresh(t) => Fresh(t)'
    BY <1>2 DEF Fresh
  <1>11. ASSUME Checking(t, Due)  PROVE Checking(t, Due)'
    <2>1. Fresh(t) /\ net = "open" /\ t.state = "CHECKSTATUS" /\ t.waiting
          /\ Cmds(t) = <<>> /\ StatusAnswer(Due)
      BY <1>3, <1>11 DEF Checking
    <2>2. PICK q \in Seq(Lines), z \in Seq(Lines), n \in Nat :
             /\ q = Due /\ z = q \o <<l>> /\ n = Len(q) /\ Len(z) = n + 1 /\ z[n + 1] = l
             /\ \A j \in 1..n : z[j] = q[j]
      <3>1. PICK q \in Seq(Lines) : q = Due
        BY <1>8
      <3>2. /\ q \o <<l>> \in Seq(Lines) /\ Len(q \o <<l>>) = Len(q) + Len(<<l>>)
            /\ Len(q) \in Nat /\ \A i \in 1..Len(q) : (q \o <<l>>)[i] = q[i]
            /\ \A i \in 1..Len(<<l>>) : (q \o <<l>>)[Len(q) + i] = <<l>>[i]
        BY <1>6, Joined
      <3>3. 1 \in 1..Len(<<l>>) /\ Len(<<l>>) = 1 /\ <<l>>[1] = l
        OBVIOUS
      <3>4. (q \o <<l>>)[Len(q) + 1] = l
        BY <3>2, <3>3
      <3> QED BY <3>1, <3>2, <3>3, <3>4
    <2>3. PICK i \in 1..n :
             /\ i + 1 \in 1..n /\ q[i] \in Phases /\ q[i + 1] \in Plain({"ok"})
             /\ \A j \in 1..n : j \notin {i, i + 1} => q[j] \in Events
      <3>1. PICK i \in 1..n, k \in 1..n :
               /\ i + 1 \in 1..n /\ q[i] \in Phases /\ q[i + 1] \in Plain({"ok"}) /\ k = i
               /\ \A j \in 1..n : j \notin {i, i + 1, k} => q[j] \in Events
        BY <1>2, <2>1, <2>2 DEF StatusAnswer
      <3> QED BY <3>1
    <2>4. PICK k \in 1..Len(z) : k = n + 1 /\ k > i + 1
      BY <2>2, <2>3
    <2>5. i \in 1..Len(z) /\ i + 1 \in 1..Len(z) /\ z[k] \in Boots
          /\ z[i] \in Phases /\ z[i + 1] \in Plain({"ok"})
      BY <1>5, <2>2, <2>3, <2>4
    <2>6. ASSUME NEW j \in 1..Len(z), j \notin {i, i + 1, k}
          PROVE  z[j] \in Events
      <3>1. j \in 1..n
        BY <2>2, <2>4, <2>6
      <3> QED BY <2>2, <2>3, <2>6, <3>1
    <2>7. Due' = z /\ booted' /\ when' = "after"
      BY <1>2, <1>3, <1>8, <2>2
    <2>8. StatusAnswer(Due)'
      BY <1>9, <2>4, <2>5, <2>6, <2>7 DEF StatusAnswer
    <2>9. Checking(t, Due)'
      BY <1>2, <1>3, <1>10, <2>1, <2>8 DEF Checking, Cmds
    <2> QED BY <2>9
  <1>12. ASSUME Creating(t, Due)  PROVE Creating(t, Due)'
    <2>1. All(Due, Events)
      BY <1>2, <1>12 DEF Creating
    <2>2. One(Due \o <<l>>, Boots, Events)
      BY <1>6, <1>8, <2>1, OneJoined
    <2>3. One(Due, Boots, Events)'
      BY <1>8, <2>2 DEF One
    <2>4. Creating(t, Due)'
      BY <1>2, <1>10, <1>12, <2>3 DEF Creating, Cmds
    <2> QED BY <2>4
  <1>13. Checking(t, Due) \/ Creating(t, Due)
    BY <1>1, <1>2, <1>3 DEF Builder, Start, Setup, Building, Built
  <1>14. ~t'.crashed /\ t'.timers = 0 /\ IdsReal(t)' /\ Roomy(t)'
    BY <1>1, <1>2 DEF Builder, IdsReal, Roomy
  <1>15. Types' /\ InTime' /\ Begun'
    BY <1>1, <1>2, <1>3, <1>8, <1>9 DEF Types, InTime, Begun
  <1>16. Builder(t, Due)'
    BY <1>11, <1>12, <1>13, <1>14 DEF Builder
  <1> QED BY <1>15, <1>16 DEF BuilderInv

LEMMA BuilderInit ==
    CtlInit => BuilderInv
  <1> SUFFICES ASSUME CtlInit, mode = "circuitBuild"
               PROVE  Types /\ Begun /\ InTime /\ Builder(t, Due)
    BY DEF BuilderInv
  <1>1. t = TorControlNew("circuitBuild") /\ net = "open" /\ now = 0 /\ down = <<>>
        /\ when \in BootTimes /\ booted = (when = "before") /\ events = FALSE /\ asked = FALSE
        /\ made = <<>> /\ alive = {} /\ streams = 0 /\ mode \in Modes
    BY DEF CtlInit
  <1>2. PICK ks : ks = [k \in Circuits |-> k]
    OBVIOUS
  <1>3. ks \in Seq(Circuits) /\ ks # <<>>
    <2>1. ks \in Seq(Circuits) /\ Len(ks) = NumCircuits
      BY <1>2, TorControlAssumption DEF Circuits
    <2> QED BY <2>1, TorControlAssumption
  <1>4. PICK ids : ids = [k \in Circuits |-> -1]
    OBVIOUS
  <1>5. ids \in [Circuits -> Int] /\ \A k \in Circuits : ids[k] = -1
    BY <1>4
  <1>6. t = [sendBuf |-> <<>>, up |-> <<>>, interest |-> "OUT", lines |-> <<>>,
             reply |-> <<>>, state |-> "AUTHENTICATE", nextState |-> "AUTHENTICATE",
             waiting |-> FALSE, bootstrapped |-> FALSE, queue |-> ks, circID |-> ids,
             outstanding |-> {}, timers |-> 0, crashed |-> FALSE]
    BY <1>1, <1>2, <1>4 DEF TorControlNew
  <1>7. <<>> \in Seq(Lines) /\ <<>> \in Seq(Commands) /\ <<>> \in Seq(0..NumCircuits)
        /\ <<>> \o <<>> = <<>>
    BY EmptySeq, ConcatEmptySeq
  <1>8. t \in Connections
    BY <1>3, <1>5, <1>6, <1>7 DEF Connections, States
  <1>9. Types
    <2>1. booted \in BOOLEAN
      BY <1>1
    <2>2. mode \in Modes /\ net \in NetStates /\ when \in BootTimes
          /\ events \in BOOLEAN /\ asked \in BOOLEAN
      BY <1>1, TorControlAssumption
    <2>3. down \in Seq(Lines) /\ made \in Seq(0..NumCircuits)
      BY <1>1, <1>7
    <2>4. now \in 0..NumCircuits /\ alive \in SUBSET Nat /\ streams \in Nat
      BY <1>1, TorControlAssumption
    <2> QED BY <1>8, <2>1, <2>2, <2>3, <2>4 DEF Types
  <1>10. Due = <<>> /\ Cmds(t) = <<>>
    BY <1>1, <1>6, <1>7 DEF Due, Cmds
  <1>11. Start(t, Due)
    BY <1>1, <1>3, <1>5, <1>6, <1>10, NoneAtAll DEF Start, Fresh
  <1>12. ~t.crashed /\ t.timers = 0 /\ IdsReal(t) /\ Roomy(t)
    BY <1>5, <1>6 DEF IdsReal, Roomy
  <1>13. Begun /\ InTime
    <2>1. t.reply = <<>>
      BY <1>6
    <2>2. (booted <=> when = "before") /\ ~asked
      BY <1>1
    <2> QED BY <2>1, <2>2 DEF Begun, InTime
  <1> QED BY <1>9, <1>11, <1>12, <1>13 DEF Builder

-----------------------------------------------------------------------------
(* The race: until the news that Tor has bootstrapped is read, the builder *)
(* goes on with its set-up.                                                *)

LEMMA NewsLater ==
    ASSUME NEW q \in Seq(Lines), NewsComes(q)
    PROVE  /\ q # <<>> /\ Head(q) \in Boots \cup NoNews
           /\ Head(q) \notin Boots => NewsComes(Tail(q))
  <1>1. PICK n \in 1..Len(q) :
           q[n] \in Boots /\ \A i \in 1..Len(q) : i < n => q[i] \in NoNews
    BY DEF NewsComes
  <1>2. q # <<>>
    <2>1. q = <<>> => Len(q) = 0
      OBVIOUS
    <2> QED BY <1>1, <2>1
  <1>3. Head(q) = q[1] /\ 1 \in 1..Len(q)
    BY <1>2, HeadTaken
  <1>4. Head(q) \in Boots \cup NoNews
    <2>1. CASE n = 1
      BY <1>1, <1>3, <2>1
    <2>2. CASE n # 1
      <3>1. 1 < n
        BY <2>2
      <3> QED BY <1>1, <1>3, <3>1
    <2> QED BY <2>1, <2>2
  <1>5. ASSUME Head(q) \notin Boots
        PROVE  NewsComes(Tail(q))
    <2>1. n # 1
      BY <1>1, <1>3, <1>5
    <2>2. n - 1 \in 1..Len(Tail(q)) /\ Tail(q)[n - 1] = q[n]
      BY <1>2, <2>1, HeadTaken
    <2>3. ASSUME NEW i \in 1..Len(Tail(q)), i < n - 1
          PROVE  Tail(q)[i] \in NoNews
      <3>1. i + 1 \in 1..Len(q) /\ Tail(q)[i] = q[i + 1]
        BY <1>2, HeadTaken
      <3>2. i + 1 < n
        BY <2>3
      <3> QED BY <1>1, <3>1, <3>2
    <2> QED BY <1>1, <2>2, <2>3 DEF NewsComes
  <1> QED BY <1>2, <1>4, <1>5

LEMMA NewsKept ==
    ASSUME NEW q \in Seq(Lines), NEW r \in Seq(Lines)
    PROVE  /\ NewsComes(q) => NewsComes(q \o r)
           /\ All(q, NoNews) /\ r # <<>> /\ Head(r) \in Boots => NewsComes(q \o r)
  <1>1. /\ Len(q) \in Nat /\ Len(r) \in Nat /\ Len(q \o r) = Len(q) + Len(r)
        /\ \A i \in 1..Len(q) : i \in 1..Len(q \o r) /\ (q \o r)[i] = q[i]
        /\ \A i \in 1..Len(r) : Len(q) + i \in 1..Len(q \o r) /\ (q \o r)[Len(q) + i] = r[i]
    BY Joined
  <1>2. ASSUME NewsComes(q)
        PROVE  NewsComes(q \o r)
    <2>1. PICK n \in 1..Len(q) :
             q[n] \in Boots /\ \A i \in 1..Len(q) : i < n => q[i] \in NoNews
      BY <1>2 DEF NewsComes
    <2>2. \A i \in 1..Len(q \o r) : i < n => i \in 1..Len(q)
      BY <1>1
    <2>3. n \in 1..Len(q \o r) /\ (q \o r)[n] \in Boots
      BY <1>1, <2>1
    <2>4. \A i \in 1..Len(q \o r) : i < n => (q \o r)[i] \in NoNews
      BY <1>1, <2>1, <2>2
    <2> QED BY <2>3, <2>4 DEF NewsComes
  <1>3. ASSUME All(q, NoNews), r # <<>>, Head(r) \in Boots
        PROVE  NewsComes(q \o r)
    <2>1. 1 \in 1..Len(r) /\ r[1] \in Boots
      BY <1>3, HeadTaken
    <2>2. PICK n : n = Len(q) + 1
      OBVIOUS
    <2>3. n \in 1..Len(q \o r) /\ (q \o r)[n] \in Boots
      BY <1>1, <2>1, <2>2
    <2>4. \A i \in 1..Len(q \o r) : i < n => i \in 1..Len(q)
      BY <1>1, <2>2
    <2>5. \A i \in 1..Len(q \o r) : i < n => (q \o r)[i] \in NoNews
      BY <1>1, <1>3, <2>4 DEF All
    <2> QED BY <2>3, <2>5 DEF NewsComes
  <1> QED BY <1>2, <1>3

\* Set-up goes on.
LEMMA RaceInitialize ==
    ASSUME AnyNet, NEW c \in Connections, NEW q, Racing(c, q),
           NEW d, d = CircuitBuildInitialize(c)
    PROVE  d \in Connections /\ Racing(d, q) /\ d.lines = c.lines /\ d.reply = c.reply
  <1>1. CASE c.waiting
    BY <1>1 DEF CircuitBuildInitialize
  <1>2. CASE ~c.waiting
    <2>1. c.state \in InSetup /\ net = "open" /\ All(Cmds(c), Setters)
      BY DEF Racing
    <2>2. PICK cmd \in Setters, s \in InSetup, next \in States :
             /\ d = Asks(c, cmd, s, next) /\ (s # "CHECKSTATUS" => next \in InSetup)
      BY <1>2, <2>1 DEF CircuitBuildInitialize, Asks, InSetup, Setters, States
    <2>3. cmd \in Commands /\ s \in States
      BY DEF Setters, Commands, InSetup, States
    <2>4. Asked(c, cmd, s, next, d)
      BY <2>1, <2>2, <2>3, AskSends
    <2>5. /\ d \in Connections /\ Cmds(d) = Cmds(c) \o <<cmd>> /\ SameData(c, d)
          /\ d.state = s /\ d.nextState = next
      BY <2>4 DEF Asked
    <2>6. All(Cmds(d), Setters)
      <3>1. Cmds(c) \in Seq(Commands) /\ <<cmd>> \in Seq(Commands) /\ All(<<cmd>>, Setters)
        BY <2>3, CmdsType, Single
      <3> QED BY <2>1, <2>5, <3>1, AllJoined
    <2>7. Racing(d, q)
      BY <2>2, <2>5, <2>6 DEF Racing, SameData, Fresh
    <2> QED BY <2>5, <2>7 DEF SameData
  <1> QED
    <2>1. c.waiting \in BOOLEAN
      BY DEF Connections
    <2> QED BY <1>1, <1>2, <2>1

\* A line before the news moves the set-up on, or nothing.
LEMMA RaceReads ==
    ASSUME AnyNet, mode = "circuitBuild", NEW c \in Connections, NEW q \in Seq(Lines),
           Racing(c, q), Head(q) \notin Boots, NEW d, d = ProcessReply(c, <<Head(q)>>)
    PROVE  d \in Connections /\ Racing(d, Tail(q)) /\ d.lines = c.lines /\ d.reply = c.reply
  <1>1. q # <<>> /\ Head(q) \in NoNews /\ NewsComes(Tail(q)) /\ All(Tail(q), OtherLines)
    <2>1. NewsComes(q) /\ All(q, OtherLines)
      BY DEF Racing
    <2>2. q # <<>> /\ Head(q) \in NoNews /\ NewsComes(Tail(q))
      BY <2>1, NewsLater
    <2> QED BY <2>1, <2>2, AllTaken
  <1>2. PICK l \in NoNews : l = Head(q)
    BY <1>1
  <1>3. l.val \in Nat /\ l.kind \in {"ok", "stream", "circ"} /\ <<l>>[1] = l
    BY DEF NoNews, Plain, Lines
  <1>4. Racing(c, Tail(q))
    BY <1>1 DEF Racing
  <1>5. CASE l.kind = "ok"
    <2>1. d = CircuitBuildResponse(c, l, l)
      <3>1. d = Responses(c, <<l>>)
        BY <1>2, <1>3, <1>5 DEF ProcessReply
      <3> QED BY <3>1, OneLine DEF Response
    <2>2. c.state \in InSetup
      BY DEF Racing
    <2>3. PICK e : e = IF c.state # "CHECKSTATUS"
                       THEN [c EXCEPT !.state = c.nextState, !.waiting = FALSE] ELSE c
      OBVIOUS
    <2>4. d = CircuitBuildInitialize(e)
      BY <1>5, <2>1, <2>2, <2>3 DEF CircuitBuildResponse, HasData, InSetup
    <2>5. e \in Connections /\ Racing(e, Tail(q)) /\ e.lines = c.lines /\ e.reply = c.reply
      <3>1. CASE c.state = "CHECKSTATUS"
        BY <1>4, <2>3, <3>1
      <3>2. CASE c.state # "CHECKSTATUS"
        <4>1. c.nextState \in InSetup
          BY <3>2 DEF Racing
        <4>2. e = [c EXCEPT !.state = c.nextState, !.waiting = FALSE]
          BY <2>3, <3>2
        <4>3. e \in Connections /\ Cmds(e) = Cmds(c) /\ e.state = c.nextState
              /\ e.nextState = c.nextState /\ SameData(c, e)
          BY <4>2 DEF Connections, Cmds, SameData, Roomy
        <4>4. Racing(e, Tail(q))
          BY <1>4, <4>1, <4>3 DEF Racing, Fresh, SameData
        <4> QED BY <4>3, <4>4 DEF SameData
      <3> QED BY <3>1, <3>2
    <2>6. d \in Connections /\ Racing(d, Tail(q)) /\ d.lines = e.lines /\ d.reply = e.reply
      BY <2>4, <2>5, RaceInitialize
    <2> QED BY <2>5, <2>6
  <1>6. CASE l.kind # "ok"
    <2>1. ~c.bootstrapped /\ \A k \in Circuits : c.circID[k] # l.val
      BY <1>3 DEF Racing, Fresh
    <2>2. d = c
      BY <1>2, <1>3, <1>6, <2>1
         DEF ProcessReply, AsyncCircReply, AsyncStreamReply, CircuitBuildCirc, CircuitBuildStream
    <2> QED BY <1>4, <2>2
  <1> QED BY <1>5, <1>6

\* What the race keeps of a step.
LEMMA RaceStays ==
    ASSUME mode = "circuitBuild", Types, mode' = mode, t' \in Connections,
           down' \in Seq(Lines), net' = "open", now' \in 0..NumCircuits, when' = when,
           booted' \in BOOLEAN, events' \in BOOLEAN, asked' \in BOOLEAN,
           made' \in Seq(0..NumCircuits), alive' \in SUBSET Nat, streams' \in Nat,
           NEW c, NEW q, Racing(c, q), SameBuild(c, t'), Due' = q, t'.reply = <<>>, booted'
    PROVE  RaceInv'
  <1>1. Racing(t, Due)'
    BY DEF Racing, SameBuild, Fresh, Cmds, All, NewsComes
  <1>2. Types'
    BY TorControlAssumption DEF Types
  <1> QED BY <1>1, <1>2 DEF RaceInv

LEMMA RacePlugin ==
    ASSUME mode = "circuitBuild", Types, UNCHANGED <<mode, net, when, torVars>>,
           now' \in 0..NumCircuits, t' \in Connections, down' \in Seq(Lines),
           NEW c, NEW q, Racing(c, q), SameBuild(c, t'), Due' = q, t'.reply = <<>>
    PROVE  RaceInv'
  <1>1. /\ mode' = mode /\ net' = "open" /\ when' = when /\ booted'
        /\ booted' \in BOOLEAN /\ events' \in BOOLEAN /\ asked' \in BOOLEAN
        /\ made' \in Seq(0..NumCircuits) /\ alive' \in SUBSET Nat /\ streams' \in Nat
    BY DEF Types, torVars, Racing
  <1> QED BY <1>1, RaceStays

LEMMA RaceActivates ==
    ASSUME mode = "circuitBuild", RaceInv, AnyNet, ActivateOut \/ ActivateIn
    PROVE  RaceInv'
  <1>1. Types /\ t.reply = <<>> /\ Racing(t, Due) /\ t \in Connections /\ down \in Seq(Lines)
    BY DEF RaceInv, Types
  <1>2. PICK c : c = CircuitBuildInitialize(t)
    OBVIOUS
  <1>3. c \in Connections /\ Racing(c, Due) /\ c.lines = t.lines /\ c.reply = <<>>
    BY <1>1, <1>2, RaceInitialize
  <1>4. CASE ActivateOut
    <2>1. /\ t' = IF c.sendBuf = <<>> THEN [c EXCEPT !.interest = "IN"] ELSE Put(c, c.sendBuf)
          /\ UNCHANGED <<mode, net, now, down, when, torVars>>
      BY <1>2, <1>4 DEF ActivateOut, Initialize
    <2>2. t' \in Connections /\ SameBuild(c, t') /\ t'.lines = c.lines /\ t'.reply = <<>>
      <3>1. CASE c.sendBuf = <<>>
        <4>1. t' = [c EXCEPT !.interest = "IN"]
          BY <2>1, <3>1
        <4> QED BY <1>3, <4>1 DEF Connections, SameBuild, Cmds, Roomy
      <3>2. CASE c.sendBuf # <<>>
        <4>1. PICK b \in Seq(Commands) : b = c.sendBuf
          BY <1>3, CmdsType
        <4>2. t' = Put(c, b)
          BY <2>1, <3>2, <4>1
        <4>3. /\ Put(c, b) \in Connections /\ SameModule(c, Put(c, b))
              /\ Cmds(Put(c, b)) = c.up \o b
          <5>1. net # "tight"
            BY <1>3 DEF Racing
          <5> QED BY <1>3, <5>1, PutKeeps
        <4>4. c.up \o b = Cmds(c)
          BY <4>1 DEF Cmds
        <4> QED BY <1>3, <4>2, <4>3, <4>4 DEF SameModule, SameData, SameBuild
      <3> QED BY <3>1, <3>2
    <2>3. Due' = Due
      BY <1>1, <1>3, <2>1, <2>2 DEF Due
    <2>4. down' \in Seq(Lines) /\ UNCHANGED <<mode, net, when, torVars>>
          /\ now' \in 0..NumCircuits
      BY <1>1, <2>1 DEF Types
    <2> QED BY <1>1, <1>3, <2>2, <2>3, <2>4, RacePlugin
  <1>5. CASE ActivateIn
    <2>1. PICK n \in 1..Len(down) :
             /\ t' = [c EXCEPT !.lines = SubSeq(down, 1, n)]
             /\ down' = SubSeq(down, n + 1, Len(down))
      BY <1>2, <1>5 DEF ActivateIn, Initialize
    <2>2. t.lines = <<>> /\ UNCHANGED <<mode, net, now, when, torVars>>
      BY <1>5 DEF ActivateIn, Busy
    <2>3. PICK a \in Seq(Lines), b \in Seq(Lines) :
             a = SubSeq(down, 1, n) /\ b = SubSeq(down, n + 1, Len(down)) /\ a \o b = down
      BY <1>1, LinesSplit
    <2>4. /\ t' \in Connections /\ SameBuild(c, t') /\ t'.lines = a /\ t'.reply = <<>>
          /\ down' = b
      BY <1>3, <2>1, <2>3 DEF Connections, SameBuild, Cmds, Roomy
    <2>5. Due' = Due
      <3>1. t.lines \o down = down
        BY <1>1, <2>2, ConcatEmptySeq
      <3> QED BY <1>1, <1>3, <2>3, <2>4, <3>1 DEF Due
    <2>6. down' \in Seq(Lines) /\ UNCHANGED <<mode, net, when, torVars>>
          /\ now' \in 0..NumCircuits
      BY <1>1, <2>2, <2>4 DEF Types
    <2> QED BY <1>1, <1>3, <2>4, <2>5, <2>6, RacePlugin
  <1> QED BY <1>4, <1>5

\* The line that is read is not the news: that would be an odd event.
LEMMA RaceReadLine ==
    ASSUME mode = "circuitBuild", RaceInv, AnyNet, ReadLine, odd' = {}
    PROVE  RaceInv'
  <1>1. Types /\ t.reply = <<>> /\ Racing(t, Due) /\ t \in Connections
        /\ down \in Seq(Lines) /\ t.lines \in Seq(Lines)
    BY DueType DEF RaceInv, Types
  <1>2. t.lines # <<>> /\ UNCHANGED <<mode, net, now, down, when, torVars>>
    BY <1>1 DEF ReadLine, Busy, Racing
  <1>3. PICK l \in Lines, rest \in Seq(Lines) : l = Head(t.lines) /\ rest = Tail(t.lines)
    BY <1>1, <1>2, HeadTaken
  <1>4. PICK q : q = t.lines \o down
    OBVIOUS
  <1>5. q \in Seq(Lines) /\ q # <<>> /\ Head(q) = l /\ Tail(q) = rest \o down
    BY <1>1, <1>2, <1>3, <1>4, FrontFirst
  <1>6. Due = q
    BY <1>1, <1>4, <1>5, ConcatEmptySeq DEF Due
  <1>7. l \notin Boots
    <2>1. ~Early(l)
      BY <1>3 DEF ReadLine
    <2>2. SettingUp
      BY <1>1 DEF Racing, InSetup, SettingUp
    <2> QED BY <2>1, <2>2 DEF Early, Boots, Plain
  <1>8. ~l.more
    <2>1. l \in Boots \cup NoNews
      BY <1>1, <1>5, <1>6, NewsLater DEF Racing
    <2> QED BY <2>1 DEF Boots, NoNews, Plain
  <1>9. PICK c : c = [t EXCEPT !.lines = rest, !.reply = <<>>]
    OBVIOUS
  <1>10. /\ c \in Connections /\ SameBuild(t, c) /\ c.lines = rest /\ c.reply = <<>>
    <2>1. <<>> \in Seq(Lines)
      BY EmptySeq
    <2> QED BY <1>1, <1>3, <1>9, <2>1 DEF Connections, SameBuild, Cmds, Roomy
  <1>11. Racing(c, q)
    BY <1>1, <1>6, <1>10 DEF Racing, SameBuild, Fresh
  <1>12. t' = ProcessReply(c, <<l>>)
    <2>1. Append(t.reply, l) = <<l>>
      BY <1>1
    <2>2. c = [[t EXCEPT !.lines = Tail(@)] EXCEPT !.reply = <<>>]
      BY <1>1, <1>3, <1>9 DEF Connections
    <2> QED BY <1>3, <1>8, <2>1, <2>2 DEF ReadLine
  <1>13. PICK d : d = t'
    OBVIOUS
  <1>14. d \in Connections /\ Racing(d, Tail(q)) /\ d.lines = rest /\ d.reply = <<>>
    <2>1. Head(q) \notin Boots /\ d = ProcessReply(c, <<Head(q)>>)
      BY <1>5, <1>7, <1>12, <1>13
    <2>2. d \in Connections /\ Racing(d, Tail(q)) /\ d.lines = c.lines /\ d.reply = c.reply
      BY <1>5, <1>10, <1>11, <2>1, RaceReads
    <2> QED BY <1>10, <2>2
  <1>15. Due' = Tail(q)
    <2>1. rest \o down \in Seq(Lines)
      BY <1>1, <1>3, ConcatProperties
    <2>2. <<>> \o (rest \o down) = rest \o down
      BY <2>1, ConcatEmptySeq
    <2> QED BY <1>2, <1>5, <1>13, <1>14, <2>2 DEF Due
  <1>16. SameBuild(d, t') /\ t' \in Connections /\ t'.reply = <<>>
    BY <1>13, <1>14 DEF SameBuild
  <1>17. down' \in Seq(Lines) /\ UNCHANGED <<mode, net, when, torVars>> /\ now' \in 0..NumCircuits
    BY <1>1, <1>2 DEF Types
  <1> QED BY <1>1, <1>14, <1>15, <1>16, <1>17, RacePlugin

\* Tor's answers and events come last.
LEMMA RaceAdds ==
    ASSUME mode = "circuitBuild", RaceInv,
           NEW new \in Seq(Lines), All(new, OtherLines), down' = down \o new,
           t' \in Connections, SameModule(t, t'), All(Cmds(t)', Setters),
           UNCHANGED <<mode, net, now, when, booted, made, alive>>,
           events' \in BOOLEAN, asked' \in BOOLEAN, streams' \in Nat
    PROVE  RaceInv'
  <1>1. Types /\ t.reply = <<>> /\ Racing(t, Due)
    BY DEF RaceInv
  <1>2. Due' = Due \o new /\ down' \in Seq(Lines) /\ Due \in Seq(Lines)
    BY <1>1, DueAdds, DueType DEF SameModule, SameData
  <1>3. PICK q \in Seq(Lines) : q = Due
    BY <1>2
  <1>4. All(q \o new, OtherLines) /\ NewsComes(q \o new)
    BY <1>1, <1>3, AllJoined, NewsKept DEF Racing
  <1>5. PICK c, r : c = t' /\ r = q \o new
    OBVIOUS
  <1>6. Racing(c, r)
    <2>1. Cmds(c) = Cmds(t)'
      BY <1>5 DEF Cmds
    <2>2. All(Cmds(c), Setters)
      BY <2>1 DEF All
    <2> QED BY <1>1, <1>4, <1>5, <2>2 DEF Racing, SameModule, SameData, Fresh
  <1>7. SameBuild(c, t') /\ Due' = r /\ t'.reply = <<>>
    BY <1>1, <1>2, <1>3, <1>5 DEF SameBuild, SameModule, SameData
  <1>8. /\ mode' = mode /\ net' = "open" /\ when' = when /\ booted' /\ booted' \in BOOLEAN
        /\ now' \in 0..NumCircuits /\ made' \in Seq(0..NumCircuits) /\ alive' \in SUBSET Nat
    BY <1>1 DEF Types, Racing
  <1> QED BY <1>1, <1>2, <1>6, <1>7, <1>8, RaceStays

LEMMA RaceAnswered ==
    ASSUME mode = "circuitBuild", RaceInv, TorAnswers
    PROVE  RaceInv'
  <1>1. Types /\ t.reply = <<>> /\ Racing(t, Due)
    BY DEF RaceInv
  <1>2. /\ t' \in Connections /\ SameModule(t, t') /\ Cmds(t) # <<>>
        /\ Cmds(t) \in Seq(Commands) /\ Head(Cmds(t)) = Head(t.up) /\ Cmds(t)' = Tail(Cmds(t))
        /\ UNCHANGED <<mode, net, now, when>>
    BY <1>1, CommandTaken
  <1>3. Head(t.up) \in Setters /\ All(Cmds(t)', Setters)
    BY <1>1, <1>2, AllTaken DEF Racing
  <1>4. Head(t.up)[1] \in {"AUTHENTICATE", "SETCONF", "SETEVENTS", "GETINFO"}
    BY <1>3 DEF Setters
  <1>5. /\ events \in BOOLEAN /\ asked \in BOOLEAN /\ streams \in Nat /\ booted
    BY <1>1 DEF Types, Racing
  <1>6. /\ UNCHANGED <<booted, made, alive>>
        /\ events' \in BOOLEAN /\ asked' \in BOOLEAN /\ streams' \in Nat
    BY <1>4, <1>5 DEF TorAnswers, torVars
  <1>7. PICK p : p = [Line("phase", Progress) EXCEPT !.more = TRUE]
    OBVIOUS
  <1>8. p \in OtherLines /\ Ok \in OtherLines
    <2>1. Progress \in Nat
      BY DEF Progress
    <2> QED BY <1>7, <2>1 DEF Line, Ok, Lines, Kinds, OtherLines, Made
  <1>9. PICK new \in Seq(Lines) : All(new, OtherLines) /\ down' = down \o new
    <2>1. down' = down \o <<p, Ok>> \/ down' = down \o <<Ok>>
      BY <1>4, <1>7 DEF TorAnswers, Send
    <2>2. /\ <<p, Ok>> \in Seq(Lines) /\ <<Ok>> \in Seq(Lines)
          /\ All(<<p, Ok>>, OtherLines) /\ All(<<Ok>>, OtherLines)
      BY <1>8 DEF All, OtherLines
    <2> QED BY <2>1, <2>2
  <1> QED BY <1>2, <1>3, <1>6, <1>9, RaceAdds

LEMMA RaceEvents ==
    ASSUME mode = "circuitBuild", RaceInv, TorLoses \/ StreamOpens
    PROVE  RaceInv'
  <1>1. Types /\ t.reply = <<>> /\ Racing(t, Due) /\ t \in Connections /\ down \in Seq(Lines)
    BY DEF RaceInv, Types
  <1>2. /\ UNCHANGED <<mode, net, now, when, t, booted, events, asked, made>>
        /\ alive' \in SUBSET Nat /\ streams' \in Nat
    <2>1. alive \in SUBSET Nat /\ streams \in Nat
      BY <1>1 DEF Types
    <2>2. CASE TorLoses
      BY <2>1, <2>2 DEF TorLoses, exceptTor
    <2>3. CASE StreamOpens
      BY <2>1, <2>3 DEF StreamOpens, exceptTor
    <2> QED BY <2>2, <2>3
  <1>3. PICK l \in OtherLines : Emit(l)
    <2>1. CASE TorLoses
      <3>1. PICK id \in Nat, status \in {"FAILED", "CLOSED"} : Emit(CircLine(id, status))
        BY <1>1, <2>1 DEF TorLoses, Types
      <3>2. CircLine(id, status) \in OtherLines
        BY DEF CircLine, Line, Lines, Kinds, OtherLines, Made
      <3> QED BY <3>1, <3>2
    <2>2. CASE StreamOpens
      <3>1. Line("stream", streams + 1) \in Plain({"stream"})
        BY <1>1, LineType DEF Kinds, Types
      <3>2. Line("stream", streams + 1) \in OtherLines
        BY <3>1 DEF Plain, OtherLines, Made
      <3> QED BY <2>2, <3>2 DEF StreamOpens
    <2> QED BY <2>1, <2>2
  <1>4. PICK new \in Seq(Lines) : All(new, OtherLines) /\ down' = down \o new
    <2>1. l \in Lines
      BY DEF OtherLines
    <2>2. CASE events
      <3>1. <<l>> \in Seq(Lines) /\ All(<<l>>, OtherLines)
        BY <2>1, Single
      <3>2. down' = down \o <<l>>
        BY <1>1, <1>3, <2>1, <2>2, AppendIsConcat DEF Emit
      <3> QED BY <3>1, <3>2
    <2>3. CASE ~events
      <3>1. <<>> \in Seq(Lines) /\ All(<<>>, OtherLines)
        BY EmptySeq, NoneAtAll
      <3>2. down' = down \o <<>>
        BY <1>1, <1>3, <2>3, ConcatEmptySeq DEF Emit
      <3> QED BY <3>1, <3>2
    <2> QED BY <2>2, <2>3
  <1>5. PICK c, q : c = t /\ q = Due \o new
    OBVIOUS
  <1>6. Due' = q /\ down' \in Seq(Lines) /\ Due \in Seq(Lines)
    BY <1>1, <1>2, <1>4, <1>5, DueAdds, DueType
  <1>7. Racing(c, q)
    <2>1. PICK r \in Seq(Lines) : r = Due
      BY <1>6
    <2>2. All(r \o new, OtherLines) /\ NewsComes(r \o new)
      BY <1>1, <1>4, <2>1, AllJoined, NewsKept DEF Racing
    <2> QED BY <1>1, <1>5, <2>1, <2>2 DEF Racing
  <1>8. SameBuild(c, t') /\ t' \in Connections /\ t'.reply = <<>>
    BY <1>1, <1>2, <1>5 DEF SameBuild, Cmds, Roomy
  <1>9. /\ net' = "open" /\ now' \in 0..NumCircuits /\ booted' /\ booted' \in BOOLEAN
        /\ events' \in BOOLEAN /\ asked' \in BOOLEAN /\ made' \in Seq(0..NumCircuits)
        /\ mode' = mode /\ when' = when
    BY <1>1, <1>2 DEF Types, Racing
  <1> QED BY <1>1, <1>2, <1>6, <1>7, <1>8, <1>9, RaceStays

LEMMA RaceStep ==
    ASSUME mode = "circuitBuild", RaceInv, AnyNet, CtlNext, odd' = {}
    PROVE  RaceInv'
  <1>1. Types /\ t.reply = <<>> /\ Racing(t, Due) /\ t \in Connections /\ down \in Seq(Lines)
    BY DEF RaceInv, Types
  <1>2. CASE Clock
    <2>1. UNCHANGED <<mode, t, net, down, when, torVars>> /\ now' \in 0..NumCircuits
      BY <1>1, <1>2, TorControlAssumption DEF Clock, Types
    <2>2. PICK c, q : c = t /\ q = Due
      OBVIOUS
    <2>3. Racing(c, q) /\ SameBuild(c, t') /\ Due' = q /\ t'.reply = <<>> /\ t' \in Connections
          /\ down' \in Seq(Lines)
      BY <1>1, <2>1, <2>2 DEF SameBuild, Due
    <2> QED BY <1>1, <2>1, <2>3, RacePlugin
  <1>3. ~PingTimer /\ ~TorBoots /\ ~TorExtends
    BY <1>1 DEF PingTimer, TorBoots, TorExtends, Racing
  <1>4. ~NetChange
    BY <1>1 DEF NetChange, Racing, SettingUp, InSetup
  <1> QED BY <1>2, <1>3, <1>4, RaceActivates, RaceReadLine, RaceAnswered, RaceEvents DEF CtlNext

\* The race begins when Tor bootstraps during set-up.
LEMMA RaceBegins ==
    ASSUME mode = "circuitBuild", BuilderInv, TorBoots, when = "during"
    PROVE  RaceInv'
  <1>1. Types /\ Begun /\ InTime /\ Builder(t, Due) /\ t \in Connections
    BY DEF BuilderInv, Types
  <1>2. /\ ~booted /\ booted' /\ ~asked
        /\ UNCHANGED <<mode, net, now, when, t, events, asked, made, alive, streams>>
        /\ down' = Append(down, Line("bootstrap", 100))
    BY <1>1 DEF TorBoots, exceptTor, Emit, InTime
  <1>3. PICK l \in Boots : l = Line("bootstrap", 100) /\ l \in Lines
    <2>1. Line("bootstrap", 100) \in Plain({"bootstrap"}) /\ Line("bootstrap", 100).val = 100
      BY LineType DEF Kinds
    <2> QED BY <2>1 DEF Boots, Plain
  <1>4. <<l>> \in Seq(Lines) /\ l \in OtherLines
    BY <1>3, Single DEF Boots, Plain, OtherLines, Made
  <1>5. down' = down \o <<l>>
    <2>1. down \in Seq(Lines)
      BY <1>1, DueType
    <2> QED BY <1>2, <1>3, <2>1, AppendIsConcat
  <1>6. Due' = Due \o <<l>> /\ down' \in Seq(Lines) /\ Due \in Seq(Lines)
    BY <1>1, <1>2, <1>4, <1>5, DueAdds, DueType
  <1>7. Start(t, Due) \/ Setup(t, Due) \/ Checking(t, Due)
    BY <1>1, <1>2 DEF Builder, Creating, Building, Built
  <1>8. Fresh(t) /\ net = "open" /\ t.state \in InSetup
        /\ (t.state # "CHECKSTATUS" => t.nextState \in InSetup)
    <2>1. CASE Start(t, Due)
      <3>1. t.nextState \in InSetup
        BY <2>1 DEF Start, InSetup
      <3> QED BY <2>1, <3>1 DEF Start, InSetup
    <2>2. CASE Setup(t, Due)
      BY <2>2 DEF Setup, SetupSteps, InSetup
    <2>3. CASE Checking(t, Due)
      BY <2>3 DEF Checking, InSetup
    <2> QED BY <1>7, <2>1, <2>2, <2>3
  <1>9. All(Due, NoNews)
    <2>1. Events \subseteq NoNews /\ Plain({"ok"}) \subseteq NoNews
      BY DEF Events, NoNews, Plain
    <2>2. All(Due, Events) => All(Due, NoNews)
      BY <2>1, Weaker
    <2>3. One(Due, Plain({"ok"}), Events) => All(Due, NoNews)
      BY <2>1 DEF One, All
    <2> QED BY <1>2, <1>7, <2>2, <2>3 DEF Start, Setup, Checking
  <1>10. All(Cmds(t), Setters)
    <2>1. ASSUME NEW x, x \in Setters
          PROVE  All(<<x>>, Setters)
      BY <2>1 DEF All
    <2>2. \A s \in SetupSteps : s[3] \in Setters
      BY DEF SetupSteps, Setters
    <2>3. <<"GETINFO">> \in Setters
      BY DEF Setters
    <2> QED BY <1>2, <1>7, <2>1, <2>2, <2>3, NoneAtAll DEF Start, Setup, Checking
  <1>11. t.reply = <<>>
    <2>1. ASSUME t.reply # <<>>
          PROVE  FALSE
      <3>1. Len(t.reply) = 1 /\ t.reply[1] \in Phases
        BY <1>1, <2>1 DEF Begun
      <3>2. PICK a \in Seq(Lines), b \in Seq(Lines) : a = t.reply /\ b = t.lines \o down
        BY <1>1, DueType
      <3>3. 1 \in 1..Len(a)
        BY <3>1, <3>2
      <3>4. 1 \in 1..Len(a \o b) /\ (a \o b)[1] = a[1]
        BY <3>3, Joined
      <3>5. a[1] \in NoNews
        BY <1>9, <3>2, <3>4 DEF All, Due
      <3> QED BY <3>1, <3>2, <3>5 DEF NoNews, Plain, Phases
    <2> QED BY <2>1
  <1>12. All(Due \o <<l>>, OtherLines) /\ NewsComes(Due \o <<l>>)
    <2>1. PICK q \in Seq(Lines) : q = Due
      BY <1>6
    <2>2. NoNews \subseteq OtherLines
      BY DEF NoNews, Plain, OtherLines, Made
    <2>3. All(q, NoNews) /\ All(q, OtherLines)
      BY <1>9, <2>1, <2>2, Weaker
    <2>4. PICK r \in Seq(Lines) : r = <<l>> /\ r # <<>> /\ Head(r) = l /\ All(r, OtherLines)
      <3>1. <<l>> # <<>> /\ Head(<<l>>) = l /\ All(<<l>>, OtherLines)
        BY <1>4 DEF All
      <3> QED BY <1>4, <3>1
    <2>5. All(q \o r, OtherLines) /\ NewsComes(q \o r)
      BY <2>3, <2>4, AllJoined, NewsKept
    <2> QED BY <2>1, <2>4, <2>5
  <1>13. ~t.crashed /\ t.timers = 0
    BY <1>1 DEF Builder
  <1>14. Racing(t, Due)'
    <2>1. All(Cmds(t), Setters)' /\ Fresh(t)'
      BY <1>2, <1>8, <1>10 DEF Cmds, All, Fresh
    <2>2. NewsComes(Due)' /\ All(Due, OtherLines)'
      BY <1>6, <1>12 DEF NewsComes, All
    <2> QED BY <1>2, <1>8, <1>13, <2>1, <2>2 DEF Racing
  <1>15. Types'
    BY <1>1, <1>2, <1>6 DEF Types
  <1> QED BY <1>2, <1>11, <1>14, <1>15 DEF RaceInv

LEMMA BuilderStep ==
    ASSUME BuilderInv, [CtlNext]_ctlVars, odd' = {}
    PROVE  BuilderInv' \/ RaceInv'
  <1>1. CASE mode # "circuitBuild"
    <2>1. mode' = mode
      BY DEF CtlNext, ctlVars, ActivateOut, ActivateIn, ReadLine, PingTimer, Clock, NetChange,
             TorAnswers, TorBoots, TorExtends, TorLoses, StreamOpens, exceptTor
    <2> QED BY <1>1, <2>1 DEF BuilderInv
  <1>2. CASE mode = "circuitBuild"
    <2>1. Types /\ Begun /\ InTime /\ Builder(t, Due) /\ Setting
      BY <1>2, BuilderSetting DEF BuilderInv
    <2>2. CASE ActivateOut
      BY <1>2, <2>1, <2>2, ActivateOutBuilds
    <2>3. CASE ActivateIn
      BY <1>2, <2>1, <2>3, ActivateInBuilds
    <2>4. CASE ReadLine
      BY <1>2, <2>1, <2>4, ReadLineBuilds
    <2>5. CASE PingTimer \/ Clock
      BY <1>2, <2>5, ClockBuilds
    <2>6. CASE NetChange
      BY <1>2, <2>6, NetBuilds
    <2>7. CASE TorAnswers
      BY <1>2, <2>1, <2>7, TorAnswersBuilds
    <2>8. CASE TorBoots
      BY <1>2, <2>1, <2>8, TorBootsBuilds, RaceBegins
    <2>9. CASE TorExtends \/ TorLoses \/ StreamOpens
      BY <1>2, <2>9, EventsBuild
    <2>10. CASE UNCHANGED ctlVars
      <3>1. UNCHANGED <<mode, net, when, torVars, now, t, down>>
        BY <2>10 DEF ctlVars
      <3>2. Due' = Due /\ Begun' /\ t' \in Connections /\ SameBuild(t, t')
            /\ now' \in 0..NumCircuits /\ down' \in Seq(Lines)
        BY <2>1, <3>1 DEF Due, Begun, Phases, SameBuild, Types
      <3> QED BY <1>2, <2>1, <3>1, <3>2, BuilderPlugin
    <2> QED BY <2>2, <2>3, <2>4, <2>5, <2>6, <2>7, <2>8, <2>9, <2>10 DEF CtlNext
  <1> QED BY <1>1, <1>2

LEMMA InOrderStep ==
    ASSUME InOrder, [CtlNext]_ctlVars
    PROVE  InOrder'
  <1> SUFFICES ASSUME odd' = {}  PROVE BuilderInv' \/ RaceInv'
    BY DEF InOrder
  <1>1. odd = {}
    BY DEF CtlNext, ctlVars, ActivateOut, ActivateIn, ReadLine, PingTimer, Clock, NetChange,
           TorAnswers, TorBoots, TorExtends, TorLoses, StreamOpens, exceptTor
  <1>2. CASE BuilderInv
    BY <1>2, BuilderStep
  <1>3. CASE RaceInv /\ mode # "circuitBuild"
    <2>1. BuilderInv
      BY <1>3 DEF BuilderInv
    <2> QED BY <2>1, BuilderStep
  <1>4. CASE RaceInv /\ mode = "circuitBuild"
    <2>1. Types /\ t.reply = <<>> /\ Racing(t, Due) /\ AnyNet
      BY <1>4, TorControlAssumption DEF RaceInv, Types, AnyNet
    <2>2. CASE CtlNext
      BY <1>4, <2>1, <2>2, RaceStep
    <2>3. CASE UNCHANGED ctlVars
      <3>1. UNCHANGED <<mode, net, when, torVars, now, t, down>>
        BY <2>3 DEF ctlVars
      <3>2. PICK c, q : c = t /\ q = Due
        OBVIOUS
      <3>3. Due' = q /\ t'.reply = <<>> /\ t' \in Connections /\ SameBuild(c, t')
            /\ now' \in 0..NumCircuits /\ down' \in Seq(Lines) /\ Racing(c, q)
        BY <2>1, <3>1, <3>2 DEF Due, SameBuild, Types
      <3> QED BY <1>4, <2>1, <3>1, <3>3, RacePlugin
    <2> QED BY <2>2, <2>3
  <1> QED BY <1>1, <1>2, <1>3, <1>4 DEF InOrder

-----------------------------------------------------------------------------
(* Counting commands and replies, wherever they are.                       *)

At(s, M) == {i \in 1..Len(s) : s[i] \in M}
Count(s, r, M) == Cardinality(At(s, M)) + Cardinality(At(r, M))

LEMMA Found ==
    ASSUME NEW S, NEW s \in Seq(S), NEW M, NEW Q, Q \cap M = {}
    PROVE  /\ All(s, Q) => Cardinality(At(s, M)) = 0
           /\ One(s, M, Q) => Cardinality(At(s, M)) = 1
  <1>1. All(s, Q) => At(s, M) = {}
    BY DEF All, At
  <1>2. ASSUME One(s, M, Q)
        PROVE  \E i : At(s, M) = {i}
    <2>1. PICK i \in 1..Len(s) : s[i] \in M /\ \A j \in 1..Len(s) : j # i => s[j] \in Q
      BY <1>2 DEF One
    <2>2. At(s, M) = {i}
      BY <2>1 DEF At
    <2> QED BY <2>2
  <1>3. Cardinality({}) = 0 /\ \A i : Cardinality({i}) = 1
    BY FS_EmptySet, FS_Singleton
  <1> QED BY <1>1, <1>2, <1>3

LEMMA Split ==
    ASSUME NEW S, NEW s \in Seq(S), NEW r \in Seq(S), NEW X, NEW Q
    PROVE  /\ All(s \o r, Q) => All(s, Q) /\ All(r, Q)
           /\ One(s \o r, X, Q) => \/ One(s, X, Q) /\ All(r, Q)
                                   \/ All(s, Q) /\ One(r, X, Q)
  <1>1. All(s \o r, Q) => All(s, Q) /\ All(r, Q)
    <2>1. All(s \o r, Q) => All(s, Q)
      BY Joined DEF All
    <2>2. ASSUME All(s \o r, Q), NEW i \in 1..Len(r)
          PROVE  r[i] \in Q
      <3>1. Len(s) + i \in 1..Len(s \o r) /\ (s \o r)[Len(s) + i] = r[i]
        BY Joined
      <3> QED BY <2>2, <3>1 DEF All
    <2> QED BY <2>1, <2>2 DEF All
  <1>2. ASSUME One(s \o r, X, Q)
        PROVE  (One(s, X, Q) /\ All(r, Q)) \/ (All(s, Q) /\ One(r, X, Q))
    <2>1. PICK n \in 1..Len(s \o r) :
             (s \o r)[n] \in X /\ \A j \in 1..Len(s \o r) : j # n => (s \o r)[j] \in Q
      BY <1>2 DEF One
    <2>2. /\ Len(s) \in Nat
          /\ \A i \in 1..Len(s) : i \in 1..Len(s \o r) /\ (s \o r)[i] = s[i]
          /\ \A i \in 1..Len(r) : Len(s) + i \in 1..Len(s \o r) /\ (s \o r)[Len(s) + i] = r[i]
      BY Joined
    <2>3. CASE n \in 1..Len(s)
      <3>1. One(s, X, Q)
        BY <2>1, <2>2, <2>3 DEF One
      <3>2. ASSUME NEW i \in 1..Len(r)
            PROVE  r[i] \in Q
        <4>1. Len(s) + i # n
          BY <2>2, <2>3
        <4> QED BY <2>1, <2>2, <4>1
      <3> QED BY <3>1, <3>2 DEF All
    <2>4. CASE \E i \in 1..Len(r) : n = Len(s) + i
      <3>1. PICK i \in 1..Len(r) : n = Len(s) + i
        BY <2>4
      <3>2. \A j \in 1..Len(s) : j # n
        BY <2>2, <3>1
      <3>3. All(s, Q)
        BY <2>1, <2>2, <3>2 DEF All
      <3>4. r[i] \in X
        BY <2>1, <2>2, <3>1
      <3>5. ASSUME NEW j \in 1..Len(r), j # i
            PROVE  r[j] \in Q
        <4>1. Len(s) + j # n
          BY <2>2, <3>1, <3>5
        <4> QED BY <2>1, <2>2, <4>1
      <3> QED BY <3>3, <3>4, <3>5 DEF One
    <2> QED BY <2>3, <2>4, Joined
  <1> QED BY <1>1, <1>2

LEMMA CountTwo ==
    ASSUME NEW S, NEW s \in Seq(S), NEW r \in Seq(S), NEW M, NEW Q, Q \cap M = {}
    PROVE  /\ All(s \o r, Q) => Count(s, r, M) = 0
           /\ One(s \o r, M, Q) => Count(s, r, M) = 1
  <1>1. /\ All(s, Q) => Cardinality(At(s, M)) = 0
        /\ One(s, M, Q) => Cardinality(At(s, M)) = 1
    BY Found
  <1>2. /\ All(r, Q) => Cardinality(At(r, M)) = 0
        /\ One(r, M, Q) => Cardinality(At(r, M)) = 1
    BY Found
  <1>3. /\ All(s \o r, Q) => All(s, Q) /\ All(r, Q)
        /\ One(s \o r, M, Q) => \/ One(s, M, Q) /\ All(r, Q)
                                \/ All(s, Q) /\ One(r, M, Q)
    BY Split
  <1> QED BY <1>1, <1>2, <1>3 DEF Count

\* What the properties count.
LEMMA Counts ==
    ASSUME Types
    PROVE  /\ Waiting("EXTENDCIRCUIT") = Count(t.up, t.sendBuf, Asking)
           /\ Answers("extended") = Count(t.lines, down, Made)
           /\ Waiting("EXTENDCIRCUIT") \in Nat /\ Answers("extended") \in Nat
  <1>1. t.up \in Seq(Commands) /\ t.sendBuf \in Seq(Commands)
        /\ t.lines \in Seq(Lines) /\ down \in Seq(Lines)
    BY DEF Types, Connections
  <1>2. ASSUME NEW s \in Seq(Commands)
        PROVE  {i \in 1..Len(s) : s[i][1] = "EXTENDCIRCUIT"} = At(s, Asking)
    BY DEF At, Asking
  <1>3. ASSUME NEW s \in Seq(Lines)
        PROVE  {i \in 1..Len(s) : s[i].kind = "extended"} = At(s, Made)
    BY DEF At, Made
  <1>4. ASSUME NEW S, NEW s \in Seq(S), NEW M
        PROVE  Cardinality(At(s, M)) \in Nat
    <2>1. Len(s) \in Nat /\ At(s, M) \in SUBSET (1..Len(s))
      BY LenProperties DEF At
    <2>2. IsFiniteSet(1..Len(s))
      BY <2>1, FS_Interval
    <2>3. IsFiniteSet(At(s, M))
      BY <2>1, <2>2, FS_Subset
    <2> QED BY <2>3, FS_CardinalityType
  <1>5. Waiting("EXTENDCIRCUIT")
          = Cardinality(At(t.sendBuf, Asking)) + Cardinality(At(t.up, Asking))
    BY <1>1, <1>2 DEF Waiting
  <1>6. Answers("extended") = Cardinality(At(down, Made)) + Cardinality(At(t.lines, Made))
    BY <1>1, <1>3 DEF Answers
  <1>7. /\ Cardinality(At(t.sendBuf, Asking)) \in Nat /\ Cardinality(At(t.up, Asking)) \in Nat
        /\ Cardinality(At(down, Made)) \in Nat /\ Cardinality(At(t.lines, Made)) \in Nat
    BY <1>1, <1>4
  <1> QED BY <1>5, <1>6, <1>7 DEF Count

\* What is counted, from what is known of all commands and all lines that are due.
LEMMA CountAll ==
    ASSUME Types, Begun
    PROVE  /\ All(Cmds(t), OtherCommands) => Waiting("EXTENDCIRCUIT") = 0
           /\ One(Cmds(t), Asking, OtherCommands) => Waiting("EXTENDCIRCUIT") = 1
           /\ All(Due, OtherLines) => Answers("extended") = 0
           /\ One(Due, Made, OtherLines) => Answers("extended") = 1
  <1>1. t.up \in Seq(Commands) /\ t.sendBuf \in Seq(Commands)
    BY DEF Types, Connections
  <1>2. /\ All(Cmds(t), OtherCommands) => Count(t.up, t.sendBuf, Asking) = 0
        /\ One(Cmds(t), Asking, OtherCommands) => Count(t.up, t.sendBuf, Asking) = 1
    <2>1. OtherCommands \cap Asking = {}
      BY DEF OtherCommands
    <2>2. Cmds(t) = t.up \o t.sendBuf
      BY DEF Cmds
    <2> QED BY <1>1, <2>1, <2>2, CountTwo
  <1>3. PICK r \in Seq(Lines), a \in Seq(Lines), b \in Seq(Lines), ab \in Seq(Lines) :
           r = t.reply /\ a = t.lines /\ b = down /\ ab = a \o b /\ Due = r \o ab
    BY DueType DEF Due
  <1>4. OtherLines \cap Made = {}
    BY DEF OtherLines
  <1>5. /\ All(r \o ab, OtherLines) => All(ab, OtherLines)
        /\ One(r \o ab, Made, OtherLines) => \/ One(r, Made, OtherLines)
                                             \/ One(ab, Made, OtherLines)
    BY Split
  <1>6. ~One(r, Made, OtherLines)
    <2>1. \A i \in 1..Len(r) : i = 1 /\ r[i] \in Phases
      BY <1>3 DEF Begun
    <2> QED BY <2>1 DEF One, Phases, Made
  <1>7. /\ All(a \o b, OtherLines) => Count(a, b, Made) = 0
        /\ One(a \o b, Made, OtherLines) => Count(a, b, Made) = 1
    BY <1>4, CountTwo
  <1> QED BY <1>2, <1>3, <1>5, <1>6, <1>7, Counts

LEMMA OneIsAll ==
    ASSUME NEW s, NEW X, NEW Q, NEW P, One(s, X, Q), X \subseteq P, Q \subseteq P
    PROVE  All(s, P)
  BY DEF One, All

\* In every stage but one nothing was asked for.
LEMMA StageCounts ==
    ASSUME BuilderInv, mode = "circuitBuild"
    PROVE  \/ /\ t.state # "GET_CIRC_ID" /\ All(Cmds(t), OtherCommands) /\ All(Due, OtherLines)
           \/ /\ t.state = "GET_CIRC_ID" /\ t.queue # <<>>
              /\ \/ One(Cmds(t), Asking, OtherCommands) /\ All(Due, OtherLines)
                 \/ All(Cmds(t), OtherCommands) /\ One(Due, Made, OtherLines)
  <1>1. Types /\ Builder(t, Due)
    BY DEF BuilderInv
  <1>2. /\ Events \subseteq OtherLines /\ Harmless \subseteq OtherLines
        /\ Boots \subseteq OtherLines /\ Phases \subseteq OtherLines
        /\ Plain({"ok"}) \subseteq OtherLines /\ Events \subseteq Harmless
        /\ \A k : Extended(k) \subseteq Made
    BY DEF Events, Harmless, Boots, Phases, Plain, Extended, OtherLines, Made
  <1>3. Attaching \subseteq OtherCommands
    BY DEF Attaching, OtherCommands, Asking, Commands
  <1>4. \A q : All(q, Events) \/ All(q, Harmless) => All(q, OtherLines)
    BY <1>2, Weaker
  <1>5. \A c : All(Cmds(c), Attaching) => All(Cmds(c), OtherCommands)
    BY <1>3, Weaker
  <1>6. \A c : Cmds(c) = <<>> => All(Cmds(c), OtherCommands)
    BY NoneAtAll
  <1>7. CASE Start(t, Due)
    BY <1>4, <1>6, <1>7 DEF Start
  <1>8. CASE Setup(t, Due)
    <2>1. PICK s \in SetupSteps :
             /\ t.state = s[1]
             /\ \/ Cmds(t) = <<s[3]>> /\ All(Due, Events)
                \/ Cmds(t) = <<>> /\ One(Due, Plain({"ok"}), Events)
      BY <1>8 DEF Setup
    <2>2. t.state # "GET_CIRC_ID" /\ s[3] \in OtherCommands
      BY <2>1 DEF SetupSteps, OtherCommands, Commands, Asking
    <2>3. All(<<s[3]>>, OtherCommands)
      BY <2>2, Single
    <2>4. One(Due, Plain({"ok"}), Events) => All(Due, OtherLines)
      BY <1>2, OneIsAll
    <2> QED BY <1>4, <1>6, <2>1, <2>2, <2>3, <2>4
  <1>9. CASE Checking(t, Due)
    <2>1. <<"GETINFO">> \in OtherCommands
      BY DEF OtherCommands, Commands, Asking
    <2>2. All(<< <<"GETINFO">> >>, OtherCommands)
      BY <2>1, Single
    <2>3. StatusAnswer(Due) => All(Due, OtherLines)
      <3>1. ASSUME StatusAnswer(Due), NEW n \in 1..Len(Due)
            PROVE  Due[n] \in OtherLines
        <4>1. PICK i \in 1..Len(Due), k \in 1..Len(Due) :
                 /\ Due[i] \in Phases /\ Due[i + 1] \in Plain({"ok"})
                 /\ Due[k] \in Boots \/ k = i
                 /\ \A j \in 1..Len(Due) : j \notin {i, i + 1, k} => Due[j] \in Events
          BY <3>1 DEF StatusAnswer
        <4> QED BY <1>2, <4>1
      <3> QED BY <3>1 DEF All
    <2> QED BY <1>4, <1>6, <1>9, <2>2, <2>3 DEF Checking
  <1>10. CASE Creating(t, Due)
    <2>1. One(Due, Boots, Events) => All(Due, OtherLines)
      BY <1>2, OneIsAll
    <2> QED BY <1>4, <1>6, <1>10, <2>1 DEF Creating
  <1>11. CASE Building(t, Due)
    <2>1. Head(t.queue) \in Circuits
      <3>1. t.queue \in Seq(Circuits) /\ t.queue # <<>>
        BY <1>1, <1>11 DEF Types, Connections, Building
      <3> QED BY <3>1, HeadTaken
    <2>2. {<<"EXTENDCIRCUIT", Head(t.queue)>>} \subseteq Asking
      BY <2>1, TorControlAssumption DEF Asking, Commands, Extending, Circuits
    <2>3. One(Cmds(t), {<<"EXTENDCIRCUIT", Head(t.queue)>>}, Attaching)
            => One(Cmds(t), Asking, OtherCommands)
      BY <1>3, <2>2, Weaker
    <2>4. One(Due, Extended(Head(t.queue)), Harmless) => One(Due, Made, OtherLines)
      BY <1>2, Weaker
    <2> QED BY <1>4, <1>5, <1>11, <2>3, <2>4 DEF Building
  <1>12. CASE Built(t, Due)
    BY <1>4, <1>5, <1>12 DEF Built
  <1> QED BY <1>1, <1>7, <1>8, <1>9, <1>10, <1>11, <1>12 DEF Builder

\* The builder asks for one circuit at a time, and is waiting for the answer in the
\* state GET_CIRC_ID and in no other: whatever closes or opens meanwhile, its queue is
\* not empty when the answer comes (torcontrol-circuitbuild.c).  Until an odd event: that
\* Tor bootstraps during set-up is none, that the builder reads of it too early is one.
THEOREM BuildsOneByOne == CtlSpec => []OneBuild
  <1>1. CtlInit => InOrder
    BY BuilderInit DEF InOrder
  <1>2. InOrder /\ [CtlNext]_ctlVars => InOrder'
    BY InOrderStep
  <1>3. InOrder => OneBuild
    <2> SUFFICES ASSUME InOrder, mode = "circuitBuild", odd = {}  PROVE OneBuild
      BY DEF OneBuild
    <2>1. CASE BuilderInv
      <3>1. Types /\ Begun /\ ~t.crashed
        BY <2>1 DEF BuilderInv, Builder
      <3>2. t.state = "GET_CIRC_ID" => t.queue # <<>>
        BY <2>1, StageCounts
      <3>3. Waiting("EXTENDCIRCUIT") + Answers("extended")
              = IF t.state = "GET_CIRC_ID" THEN 1 ELSE 0
        BY <2>1, <3>1, StageCounts, CountAll
      <3> QED BY <3>1, <3>2, <3>3 DEF OneBuild
    <2>2. CASE RaceInv
      <3>1. Types /\ Begun /\ Racing(t, Due)
        BY <2>2 DEF RaceInv, Begun
      <3>2. Setters \subseteq OtherCommands
        BY DEF Setters, OtherCommands, Commands, Asking
      <3>3. All(Cmds(t), OtherCommands) /\ All(Due, OtherLines)
        BY <3>1, <3>2, Weaker DEF Racing
      <3>4. Waiting("EXTENDCIRCUIT") = 0 /\ Answers("extended") = 0
        BY <3>1, <3>3, CountAll
      <3>5. t.state # "GET_CIRC_ID" /\ ~t.crashed
        BY <3>1 DEF Racing, InSetup
      <3> QED BY <3>4, <3>5 DEF OneBuild
    <2> QED BY <2>1, <2>2 DEF InOrder
  <1> QED BY <1>1, <1>2, <1>3, PTL DEF CtlSpec

-----------------------------------------------------------------------------
(* The logger and the pinger.                                              *)

\* What they keep is the same in c and d; d has the same lines to read.
SameManaged(c, d) ==
    /\ d.circID = c.circID /\ d.outstanding = c.outstanding /\ d.timers = c.timers
SameLines(c, d) == d.lines = c.lines /\ d.reply = c.reply

\* So are its commands, as far as pings hang on them.
SameAsked(c, d) ==
    /\ All(Cmds(c), Quiet) => All(Cmds(d), Quiet)
    /\ AsksOnce(c) => AsksOnce(d)

\* d is what a handler made of c, with q left to read.
Manages(c, d, q) == d \in Connections /\ Managed(d, q) /\ SameLines(c, d)

LEMMA ManagedKinds ==
    /\ Quiet \cup {<<"EXTENDCIRCUIT", 0>>} \subseteq Commands
    /\ Murmurs \subseteq Lines /\ Plain({"extended"}) \subseteq Lines
    /\ Murmurs \cap Plain({"extended"}) = {}
  <1>1. 0 \in 0..NumCircuits
    BY TorControlAssumption
  <1> QED BY <1>1 DEF Quiet, Commands, Extending, Murmurs, Plain

\* No ping hangs on the line that goes.
LEMMA MurmurDropped ==
    ASSUME NEW c, NEW q \in Seq(Lines), q # <<>>, Head(q) \in Murmurs, Managed(c, q)
    PROVE  Managed(c, Tail(q))
  <1>1. All(q, Murmurs) => All(Tail(q), Murmurs)
    BY AllTaken
  <1>2. One(q, Plain({"extended"}), Murmurs) => One(Tail(q), Plain({"extended"}), Murmurs)
    BY ManagedKinds, OneTaken
  <1>3. NoPing(c, q) => NoPing(c, Tail(q))
    BY <1>1 DEF NoPing
  <1>4. Pinging(c, q) => Pinging(c, Tail(q))
    BY <1>1, <1>2 DEF Pinging
  <1> QED BY <1>3, <1>4 DEF Managed

LEMMA MurmursAdded ==
    ASSUME NEW c, NEW q \in Seq(Lines), NEW r \in Seq(Lines), All(r, Murmurs), Managed(c, q)
    PROVE  Managed(c, q \o r)
  <1>1. All(q, Murmurs) => All(q \o r, Murmurs)
    BY AllJoined
  <1>2. One(q, Plain({"extended"}), Murmurs) => One(q \o r, Plain({"extended"}), Murmurs)
    BY OneJoined
  <1>3. NoPing(c, q) => NoPing(c, q \o r)
    BY <1>1 DEF NoPing
  <1>4. Pinging(c, q) => Pinging(c, q \o r)
    BY <1>1, <1>2 DEF Pinging
  <1> QED BY <1>3, <1>4 DEF Managed

\* A send of a part of the buffer repeats commands, but none that a ping hangs on.
LEMMA PutManaged ==
    ASSUME AnyNet, NEW c \in Connections, NEW cmds \in Seq(Commands), cmds # <<>>,
           NEW e, e = [c EXCEPT !.sendBuf = cmds], NEW d, d = Put(c, cmds)
    PROVE  /\ d \in Connections /\ SameManaged(c, d) /\ SameLines(c, d)
           /\ d.state = c.state /\ d.nextState = c.nextState /\ SameAsked(e, d)
  <1> DEFINE X == {<<"EXTENDCIRCUIT", 0>>}
             Last(s) == \A i \in 1..Len(s) : i < Len(s) => s[i] \in Quiet
  <1>1. c.up \in Seq(Commands) /\ Len(cmds) \in Nat \ {0} /\ 1 \in 1..Len(cmds)
        /\ cmds[1] \in Commands
    BY HeadTaken DEF Connections
  <1>2. e.up = c.up /\ e.sendBuf = cmds /\ Cmds(e) = c.up \o cmds
    BY DEF Connections, Cmds
  <1>3. d.sendBuf = <<>> \/ d.sendBuf = cmds
    BY DEF Connections, Put, Unsent
  <1>4. AsksOnce(e) => Last(d.sendBuf)
    BY <1>2, <1>3 DEF AsksOnce
  <1>5. CASE ~(net = "tight" /\ Len(cmds) # 1)
    <2>1. Put(c, cmds) \in Connections /\ SameModule(c, Put(c, cmds))
          /\ Cmds(Put(c, cmds)) = c.up \o cmds
      BY <1>5, PutKeeps
    <2>2. Cmds(d) = Cmds(e)
      BY <1>2, <2>1
    <2>3. SameAsked(e, d)
      BY <1>4, <2>2 DEF SameAsked, AsksOnce
    <2> QED BY <2>1, <2>3 DEF SameModule, SameData, SameManaged, SameLines
  <1>6. CASE net = "tight" /\ Len(cmds) # 1
    <2>1. PICK x \in Commands : x = cmds[1]
      BY <1>1
    <2>2. Taken(cmds) = 1 /\ ~(1 >= Len(cmds)) /\ 1 < Len(cmds)
      <3>1. net = "tight" /\ net # "open"
        BY <1>6
      <3>2. Taken(cmds) = 1
        BY <3>1 DEF Taken
      <3>3. PICK m \in Nat : m = Len(cmds) /\ m # 0 /\ m # 1
        BY <1>1, <1>6
      <3>4. ~(1 >= m) /\ 1 < m
        BY <3>3
      <3> QED BY <3>2, <3>3, <3>4
    <2>3. SubSeq(cmds, 1, 1) = <<x>>
      <3>1. 1 \in 1..Len(cmds) + 1 /\ 1 \in 0..Len(cmds)
        BY <1>1
      <3>2. SubSeq(cmds, 1, 1) = <<cmds[1]>> \o SubSeq(cmds, 1 + 1, 1)
        BY <1>1, SubSeqRecursiveFirst
      <3>3. SubSeq(cmds, 1 + 1, 1) = <<>>
        BY <1>1, SubSeqEmpty
      <3>4. <<x>> \o <<>> = <<x>>
        BY Single, ConcatEmptySeq
      <3> QED BY <2>1, <3>2, <3>3, <3>4
    <2>4. c.up \o <<x>> \in Seq(Commands) /\ <<x>> \in Seq(Commands)
      BY <1>1, <2>1, ConcatProperties
    <2>5. PICK u \in Seq(Commands) : u = c.up \o <<x>>
      BY <2>4
    <2>6. d = [c EXCEPT !.up = u, !.sendBuf = cmds, !.interest = "OUT"]
      BY <2>2, <2>3, <2>5 DEF Put, Unsent, WaitFor
    <2>7. /\ d \in Connections /\ SameManaged(c, d) /\ SameLines(c, d)
          /\ d.state = c.state /\ d.nextState = c.nextState /\ d.up = u /\ d.sendBuf = cmds
      BY <2>6 DEF Connections, SameManaged, SameLines
    <2>8. /\ All(c.up \o cmds, Quiet) => All(c.up, Quiet) /\ All(cmds, Quiet)
          /\ One(c.up \o cmds, X, Quiet) => \/ One(c.up, X, Quiet) /\ All(cmds, Quiet)
                                            \/ All(c.up, Quiet) /\ One(cmds, X, Quiet)
      BY <1>1, Split
    <2>9. Cmds(d) = u \o cmds
      BY <2>7 DEF Cmds
    <2>10. All(c.up \o cmds, Quiet) => All(Cmds(d), Quiet)
      <3>1. All(cmds, Quiet) => All(<<x>>, Quiet)
        BY <1>1, <2>1 DEF All
      <3>2. All(c.up, Quiet) /\ All(<<x>>, Quiet) => All(u, Quiet)
        BY <1>1, <2>4, <2>5, AllJoined
      <3>3. All(u, Quiet) /\ All(cmds, Quiet) => All(u \o cmds, Quiet)
        BY AllJoined
      <3> QED BY <2>8, <2>9, <3>1, <3>2, <3>3
    <2>11. One(c.up \o cmds, X, Quiet) /\ Last(cmds) => One(Cmds(d), X, Quiet)
      <3>1. All(cmds, Quiet) \/ Last(cmds) => All(<<x>>, Quiet)
        BY <1>1, <2>1, <2>2 DEF All
      <3>2. /\ All(c.up, Quiet) /\ All(<<x>>, Quiet) => All(u, Quiet)
            /\ One(c.up, X, Quiet) /\ All(<<x>>, Quiet) => One(u, X, Quiet)
        BY <1>1, <2>4, <2>5, AllJoined, OneJoined
      <3>3. /\ One(u, X, Quiet) /\ All(cmds, Quiet) => One(u \o cmds, X, Quiet)
            /\ All(u, Quiet) /\ One(cmds, X, Quiet) => One(u \o cmds, X, Quiet)
        BY OneJoined
      <3> QED BY <2>8, <2>9, <3>1, <3>2, <3>3
    <2>12. SameAsked(e, d)
      BY <1>2, <1>4, <2>10, <2>11 DEF SameAsked, AsksOnce
    <2> QED BY <2>7, <2>12
  <1> QED BY <1>5, <1>6

\* One command more, while no ping is asked for.
LEMMA SendManaged ==
    ASSUME AnyNet, NEW c \in Connections, NEW cmd \in Commands, All(Cmds(c), Quiet),
           NEW d, d = SendCommand(c, cmd)
    PROVE  /\ d \in Connections /\ SameManaged(c, d) /\ SameLines(c, d)
           /\ d.state = c.state /\ d.nextState = c.nextState
           /\ cmd \in Quiet => All(Cmds(d), Quiet)
           /\ cmd = <<"EXTENDCIRCUIT", 0>> => AsksOnce(d)
  <1>1. c.up \in Seq(Commands) /\ c.sendBuf \in Seq(Commands) /\ <<cmd>> \in Seq(Commands)
    BY CmdsType, Single
  <1>2. PICK b \in Seq(Commands), n \in Nat :
           /\ b = c.sendBuf \o <<cmd>> /\ b = Append(c.sendBuf, cmd) /\ n = Len(c.sendBuf)
           /\ Len(b) = n + 1 /\ \A i \in 1..n : b[i] = c.sendBuf[i]
    <2>1. Append(c.sendBuf, cmd) = c.sendBuf \o <<cmd>>
      BY <1>1, AppendIsConcat
    <2>2. /\ c.sendBuf \o <<cmd>> \in Seq(Commands) /\ Len(c.sendBuf) \in Nat
          /\ Len(c.sendBuf \o <<cmd>>) = Len(c.sendBuf) + 1
          /\ \A i \in 1..Len(c.sendBuf) : (c.sendBuf \o <<cmd>>)[i] = c.sendBuf[i]
      BY <1>1, Joined, Single
    <2> QED BY <2>1, <2>2
  <1>3. b # <<>> /\ \A i \in 1..Len(b) : i < Len(b) => i \in 1..n
    <2>1. b = <<>> => Len(b) = 0
      OBVIOUS
    <2> QED BY <1>2, <2>1
  <1>4. PICK e : e = [c EXCEPT !.sendBuf = b]
    OBVIOUS
  <1>5. e.up = c.up /\ e.sendBuf = b
    BY <1>4 DEF Connections
  <1>6. Cmds(e) = Cmds(c) \o <<cmd>>
    <2>1. c.up \in Seq(Commands) /\ c.sendBuf \in Seq(Commands) /\ <<cmd>> \in Seq(Commands)
      BY <1>1, CmdsType
    <2>2. InTurn(c.up, c.sendBuf, <<cmd>>)
      BY <2>1, JoinedInTurn
    <2>3. b = c.sendBuf \o <<cmd>>
      BY <1>2
    <2> QED BY <1>5, <2>2, <2>3, Zenon DEF Cmds, InTurn
  <1>7. All(c.up, Quiet) /\ All(c.sendBuf, Quiet) /\ Cmds(c) \in Seq(Commands)
    BY <1>1, CmdsType, Split DEF Cmds
  <1>8. cmd \in Quiet => All(Cmds(e), Quiet)
    <2>1. cmd \in Quiet => All(<<cmd>>, Quiet)
      BY DEF All
    <2> QED BY <1>1, <1>6, <1>7, <2>1, AllJoined
  <1>9. cmd = <<"EXTENDCIRCUIT", 0>> => AsksOnce(e)
    <2>1. cmd = <<"EXTENDCIRCUIT", 0>> => One(<<cmd>>, {<<"EXTENDCIRCUIT", 0>>}, Quiet)
      BY DEF One
    <2>2. cmd = <<"EXTENDCIRCUIT", 0>> => One(Cmds(e), {<<"EXTENDCIRCUIT", 0>>}, Quiet)
      BY <1>1, <1>6, <1>7, <2>1, OneJoined
    <2>3. \A i \in 1..Len(b) : i < Len(b) => b[i] \in Quiet
      BY <1>2, <1>3, <1>7 DEF All
    <2> QED BY <1>5, <2>2, <2>3 DEF AsksOnce
  <1>10. d = Put(c, b)
    BY <1>2 DEF SendCommand
  <1>11. /\ d \in Connections /\ SameManaged(c, d) /\ SameLines(c, d)
         /\ d.state = c.state /\ d.nextState = c.nextState /\ SameAsked(e, d)
    BY <1>3, <1>4, <1>10, PutManaged
  <1> QED BY <1>8, <1>9, <1>11 DEF SameAsked

\* A step of the set-up, of which there is none once there is a ping.
Tries(c, cmd, s, next) == Try(c, cmd, s, next, FALSE)

LEMMA SetupTries ==
    ASSUME AnyNet, NEW c \in Connections, NEW q, NoPing(c, q),
           \A k \in Circuits : c.circID[k] = -1,
           NEW cmd \in {<<"AUTHENTICATE">>, <<"SETEVENTS">>}, NEW next \in States,
           NEW d, d = Tries(c, cmd, "IDLE", next)
    PROVE  Manages(c, d, q)
  <1>1. cmd \in Quiet /\ cmd \in Commands
    BY DEF Quiet, Commands
  <1>2. PICK e : e = SendCommand(c, cmd)
    OBVIOUS
  <1>3. /\ e \in Connections /\ All(Cmds(e), Quiet) /\ SameManaged(c, e) /\ SameLines(c, e)
    BY <1>1, <1>2, SendManaged DEF NoPing
  <1>4. d = e \/ d = [e EXCEPT !.state = "IDLE", !.nextState = next, !.waiting = FALSE]
    BY <1>2 DEF Tries, Try
  <1>5. "IDLE" \in States
    BY DEF States
  <1>6. d \in Connections /\ d.up = e.up /\ d.sendBuf = e.sendBuf
        /\ SameManaged(e, d) /\ SameLines(e, d)
    BY <1>3, <1>4, <1>5 DEF Connections, SameManaged, SameLines
  <1>7. NoPing(d, q)
    BY <1>3, <1>6 DEF NoPing, SameManaged, Cmds
  <1> QED BY <1>3, <1>6, <1>7 DEF Manages, Managed, SameManaged, SameLines

\* The pinger asks for a circuit.
LEMMA PingAsked ==
    ASSUME AnyNet, mode = "ping", NEW c \in Connections, NEW q, NoPing(c, q),
           \A k \in Circuits : c.circID[k] = -1,
           c.state = "IDLE", c.nextState = "IDLE",
           NEW d, d = SendCommand(c, <<"EXTENDCIRCUIT", 0>>)
    PROVE  Manages(c, d, q)
  <1>1. PICK cmd \in Commands : cmd = <<"EXTENDCIRCUIT", 0>>
    BY ManagedKinds
  <1>2. /\ d \in Connections /\ SameManaged(c, d) /\ SameLines(c, d)
        /\ d.state = c.state /\ d.nextState = c.nextState /\ AsksOnce(d)
    BY <1>1, SendManaged DEF NoPing
  <1>3. Pinging(d, q)
    BY <1>2 DEF Pinging, NoPing, SameManaged
  <1> QED BY <1>2, <1>3 DEF Manages, Managed, SameManaged

LEMMA ManageStateManages ==
    ASSUME AnyNet, mode # "circuitBuild", NEW c \in Connections, NEW q, Managed(c, q),
           NEW d, d = ManageState(c)
    PROVE  Manages(c, d, q)
  <1>1. CASE c.state = "SEND_AUTHENTICATE"
    <2>1. NoPing(c, q) /\ \A k \in Circuits : c.circID[k] = -1
      BY <1>1 DEF Managed
    <2>2. d = Tries(c, <<"AUTHENTICATE">>, "IDLE", "RECV_AUTHENTICATE")
      BY <1>1 DEF ManageState, Tries
    <2>3. "RECV_AUTHENTICATE" \in States
      BY DEF States
    <2> QED BY <2>1, <2>2, <2>3, SetupTries
  <1>2. CASE c.state \in {"RECV_AUTHENTICATE", "SEND_SETEVENTS"}
    <2>1. NoPing(c, q) /\ \A k \in Circuits : c.circID[k] = -1
      BY <1>2 DEF Managed
    <2>2. PICK e : e = [c EXCEPT !.state = "SEND_SETEVENTS"]
      OBVIOUS
    <2>3. e \in Connections /\ SameManaged(c, e) /\ SameLines(c, e)
          /\ e.up = c.up /\ e.sendBuf = c.sendBuf
      BY <2>2 DEF Connections, States, SameManaged, SameLines
    <2>4. NoPing(e, q) /\ \A k \in Circuits : e.circID[k] = -1
      BY <2>1, <2>3 DEF NoPing, SameManaged, Cmds
    <2>5. d = Tries(e, <<"SETEVENTS">>, "IDLE", "RECV_SETEVENTS")
      BY <1>2, <2>2 DEF ManageState, Tries
    <2>6. "RECV_SETEVENTS" \in States
      BY DEF States
    <2>7. Manages(e, d, q)
      BY <2>3, <2>4, <2>5, <2>6, SetupTries
    <2> QED BY <2>3, <2>7 DEF Manages, SameLines
  <1>3. CASE c.state = "RECV_SETEVENTS"
    <2>1. NoPing(c, q) /\ \A k \in Circuits : c.circID[k] = -1
      BY <1>3 DEF Managed
    <2>2. PICK e : e = [c EXCEPT !.state = "IDLE", !.nextState = "IDLE"]
      OBVIOUS
    <2>3. e \in Connections /\ SameManaged(c, e) /\ SameLines(c, e)
          /\ e.up = c.up /\ e.sendBuf = c.sendBuf /\ e.state = "IDLE" /\ e.nextState = "IDLE"
      BY <2>2 DEF Connections, States, SameManaged, SameLines
    <2>4. NoPing(e, q) /\ \A k \in Circuits : e.circID[k] = -1
      BY <2>1, <2>3 DEF NoPing, SameManaged, Cmds
    <2>5. d = IF mode = "ping" THEN SendCommand(e, <<"EXTENDCIRCUIT", 0>>) ELSE e
      BY <1>3, <2>2 DEF ManageState
    <2>6. Manages(e, d, q)
      <3>1. CASE mode = "ping"
        BY <2>3, <2>4, <2>5, <3>1, PingAsked
      <3>2. CASE mode # "ping"
        BY <2>3, <2>4, <2>5, <3>2 DEF Manages, Managed, SameLines
      <3> QED BY <3>1, <3>2
    <2> QED BY <2>3, <2>6 DEF Manages, SameLines
  <1>4. CASE c.state \notin {"SEND_AUTHENTICATE", "RECV_AUTHENTICATE", "SEND_SETEVENTS",
                             "RECV_SETEVENTS"}
    <2>1. d = c
      BY <1>4 DEF ManageState
    <2> QED BY <2>1 DEF Manages, SameLines
  <1> QED BY <1>1, <1>2, <1>3, <1>4

\* A reply that is no circuit moves the set-up on, or nothing.
LEMMA MurmurHandled ==
    ASSUME AnyNet, mode # "circuitBuild", NEW c \in Connections,
           NEW q \in Seq(Lines), q # <<>>, Head(q) \in Murmurs, Managed(c, q),
           NEW d, d = ManagedResponse(c, Head(q), Head(q))
    PROVE  Manages(c, d, Tail(q))
  <1>1. Managed(c, Tail(q))
    BY MurmurDropped
  <1>2. CASE Head(q).kind = "error"
    <2>1. d = c
      BY <1>2 DEF ManagedResponse
    <2> QED BY <1>1, <2>1 DEF Manages, SameLines
  <1>3. CASE Head(q).kind # "error"
    <2>1. Head(q).kind # "extended"
      BY DEF Murmurs, Plain
    <2>2. PICK e : e = [c EXCEPT !.state = c.nextState]
      OBVIOUS
    <2>3. e \in Connections /\ SameManaged(c, e) /\ SameLines(c, e)
          /\ e.up = c.up /\ e.sendBuf = c.sendBuf /\ e.nextState = c.nextState
          /\ e.state = c.nextState
      BY <2>2 DEF Connections, SameManaged, SameLines
    <2>4. [c EXCEPT !.state = c.nextState, !.outstanding = @] = e
      BY <2>2 DEF Connections
    <2>5. d = ManageState(e)
      BY <1>3, <2>1, <2>4 DEF ManagedResponse
    <2>6. Managed(e, Tail(q))
      <3>1. NoPing(c, Tail(q)) => NoPing(e, Tail(q))
        BY <2>3 DEF NoPing, SameManaged, Cmds
      <3>2. Pinging(c, Tail(q)) => Pinging(e, Tail(q))
        BY <2>3 DEF Pinging, AsksOnce, SameManaged, Cmds
      <3> QED BY <1>1, <2>3, <3>1, <3>2 DEF Managed, SameManaged
    <2>7. Manages(e, d, Tail(q))
      BY <2>3, <2>5, <2>6, ManageStateManages
    <2> QED BY <2>3, <2>7 DEF Manages, SameLines
  <1> QED BY <1>2, <1>3

\* The circuit of a ping is up: it is the one that was asked for.
LEMMA PingStarts ==
    ASSUME AnyNet, mode # "circuitBuild", NEW c \in Connections,
           NEW q \in Seq(Lines), q # <<>>, Head(q) \in Plain({"extended"}), Managed(c, q),
           NEW d, d = ManagedResponse(c, Head(q), Head(q))
    PROVE  Manages(c, d, Tail(q))
  <1>1. Head(q) \notin Murmurs
    BY ManagedKinds
  <1>2. ~All(q, Murmurs)
    BY <1>1, AllTaken
  <1>3. /\ mode = "ping" /\ c.state = "IDLE" /\ c.nextState = "IDLE"
        /\ One(q, Plain({"extended"}), Murmurs)
        /\ All(Cmds(c), Quiet) /\ c.outstanding = {} /\ c.timers = 0
        /\ \A k \in Circuits : c.circID[k] = -1
    BY <1>2 DEF Managed, NoPing, Pinging
  <1>4. All(Tail(q), Murmurs)
    BY <1>1, <1>3, OneTaken
  <1>5. PICK id \in Nat : id = Head(q).val
    BY DEF Plain, Lines
  <1>6. PICK e : e = [c EXCEPT !.outstanding = {id}]
    OBVIOUS
  <1>7. e \in Connections /\ SameLines(c, e) /\ e.state = "IDLE" /\ e.nextState = "IDLE"
        /\ e.circID = c.circID /\ e.timers = 0 /\ e.outstanding = {id}
        /\ e.up = c.up /\ e.sendBuf = c.sendBuf
    BY <1>3, <1>6 DEF Connections, SameLines
  <1>8. d = ManageState(e)
    <2>1. Head(q).kind = "extended"
      BY DEF Plain
    <2>2. d = ManageState([c EXCEPT !.state = c.nextState,
                                    !.outstanding = c.outstanding \cup {id}])
      BY <1>3, <1>5, <2>1 DEF ManagedResponse
    <2>3. [c EXCEPT !.state = c.nextState, !.outstanding = c.outstanding \cup {id}] = e
      BY <1>3, <1>6 DEF Connections
    <2> QED BY <2>2, <2>3
  <1>9. d = e
    BY <1>7, <1>8 DEF ManageState
  <1>10. Pinging(e, Tail(q))
    <2>1. All(Cmds(e), Quiet)
      BY <1>3, <1>7 DEF Cmds
    <2> QED BY <1>4, <1>7, <2>1 DEF Pinging
  <1> QED BY <1>3, <1>7, <1>9, <1>10 DEF Manages, Managed

\* A ping ends, and the next one is due.
LEMMA PingEnds ==
    ASSUME AnyNet, mode = "ping", NEW c \in Connections, NEW q, Managed(c, q),
           NEW id \in Nat, NEW status, NEW d, d = PingerCirc(c, id, status)
    PROVE  Manages(c, d, q)
  <1>1. CASE id \notin c.outstanding \/ ~EndsPing(status)
    <2>1. d = c
      BY <1>1 DEF PingerCirc
    <2> QED BY <2>1 DEF Manages, SameLines
  <1>2. CASE id \in c.outstanding /\ EndsPing(status)
    <2>1. /\ c.outstanding = {id} /\ All(Cmds(c), Quiet) /\ All(q, Murmurs) /\ c.timers = 0
          /\ c.state = "IDLE" /\ c.nextState = "IDLE" /\ \A k \in Circuits : c.circID[k] = -1
      BY <1>2 DEF Managed, NoPing, Pinging
    <2>2. PICK cmd \in Commands : cmd = <<"CLOSECIRCUIT", id>> /\ cmd \in Quiet
      BY DEF Commands, Quiet, Closing
    <2>3. PICK b : b = [c EXCEPT !.outstanding = {}]
      OBVIOUS
    <2>4. b \in Connections /\ b.outstanding = {} /\ b.timers = 0 /\ b.state = "IDLE"
          /\ b.nextState = "IDLE" /\ b.circID = c.circID /\ SameLines(c, b)
          /\ b.up = c.up /\ b.sendBuf = c.sendBuf
      BY <2>1, <2>3 DEF Connections, SameLines
    <2>5. PICK e : e = SendCommand(b, cmd)
      OBVIOUS
    <2>6. /\ e \in Connections /\ SameManaged(b, e) /\ SameLines(b, e)
          /\ e.state = b.state /\ e.nextState = b.nextState /\ All(Cmds(e), Quiet)
      <3>1. All(Cmds(b), Quiet)
        BY <2>1, <2>4 DEF Cmds
      <3> QED BY <2>2, <2>4, <2>5, <3>1, SendManaged
    <2>7. d = [e EXCEPT !.timers = @ + 1]
      <3>1. OutstandingAfter(c, id) = {}
        BY <2>1 DEF OutstandingAfter
      <3> QED BY <1>2, <2>2, <2>3, <2>5, <3>1 DEF PingerCirc
    <2>8. d \in Connections /\ d.timers = 1 /\ d.outstanding = {} /\ d.state = "IDLE"
          /\ d.nextState = "IDLE" /\ d.circID = c.circID /\ SameLines(c, d)
          /\ d.up = e.up /\ d.sendBuf = e.sendBuf
      <3>1. e.timers = 0 /\ e.outstanding = {} /\ e.state = "IDLE" /\ e.nextState = "IDLE"
            /\ e.circID = c.circID /\ SameLines(c, e)
        BY <2>4, <2>6 DEF SameManaged, SameLines
      <3>2. e \in Connections /\ d = [e EXCEPT !.timers = 1]
        BY <2>6, <2>7, <3>1 DEF Connections
      <3>3. d \in Connections /\ d.timers = 1
        <4>1. PICK n \in Nat : n = 1
          OBVIOUS
        <4>2. [e EXCEPT !.timers = n] \in Connections /\ [e EXCEPT !.timers = n].timers = n
          BY <3>2 DEF Connections
        <4> QED BY <3>2, <4>1, <4>2
      <3>4. d.outstanding = e.outstanding /\ d.state = e.state /\ d.nextState = e.nextState
            /\ d.circID = e.circID /\ d.lines = e.lines /\ d.reply = e.reply
            /\ d.up = e.up /\ d.sendBuf = e.sendBuf
        BY <2>6, <3>2 DEF Connections
      <3> QED BY <3>1, <3>3, <3>4 DEF SameLines
    <2>9. All(Cmds(d), Quiet)
      BY <2>6, <2>8 DEF Cmds
    <2>10. Pinging(d, q)
      BY <2>1, <2>8, <2>9 DEF Pinging
    <2> QED BY <2>1, <2>8, <2>10 DEF Manages, Managed
  <1> QED BY <1>1, <1>2

\* A line is read.
LEMMA ManagedReads ==
    ASSUME AnyNet, mode \in {"log", "ping"}, NEW c \in Connections,
           NEW q \in Seq(Lines), q # <<>>, Managed(c, q),
           NEW d, d = ProcessReply(c, <<Head(q)>>)
    PROVE  Manages(c, d, Tail(q))
  <1>1. PICK l \in Lines : l = Head(q)
    BY HeadTaken
  <1>2. l \in Murmurs \/ l \in Plain({"extended"})
    <2>1. \A Q : All(q, Q) => Head(q) \in Q
      BY AllTaken
    <2>2. \A X, Q : One(q, X, Q) => Head(q) \in X \/ Head(q) \in Q
      BY OneTaken
    <2> QED BY <1>1, <2>1, <2>2 DEF Managed, NoPing, Pinging
  <1>3. <<l>>[1] = l
    OBVIOUS
  <1>4. l.kind \in {"ok", "error", "extended"} => d = ManagedResponse(c, l, l)
    <2>1. l.kind \in {"ok", "error", "extended"} => d = Responses(c, <<l>>)
      BY <1>1, <1>3 DEF ProcessReply
    <2>2. Responses(c, <<l>>) = ManagedResponse(c, l, l)
      BY OneLine DEF Response
    <2> QED BY <2>1, <2>2
  <1>5. CASE l \in Plain({"extended"})
    <2>1. d = ManagedResponse(c, Head(q), Head(q))
      BY <1>1, <1>4, <1>5 DEF Plain
    <2> QED BY <1>1, <1>5, <2>1, PingStarts
  <1>6. CASE l \in Murmurs
    <2>1. l.kind \in {"ok", "error", "circ", "stream", "bootstrap"}
      BY <1>6 DEF Murmurs, Plain
    <2>2. Managed(c, Tail(q))
      BY <1>1, <1>6, MurmurDropped
    <2>3. CASE l.kind \in {"ok", "error"}
      <3>1. d = ManagedResponse(c, Head(q), Head(q))
        BY <1>1, <1>4, <2>3
      <3> QED BY <1>1, <1>6, <3>1, MurmurHandled
    <2>4. CASE l.kind = "circ" /\ mode = "ping"
      <3>1. PICK id \in Nat, status \in {l.status} : id = l.val /\ status = l.status
        BY DEF Lines
      <3>2. d = PingerCirc(c, id, status)
        BY <1>1, <1>3, <2>4, <3>1 DEF ProcessReply, AsyncCircReply
      <3> QED BY <2>2, <2>4, <3>2, PingEnds
    <2>5. CASE l.kind \in {"circ", "stream", "bootstrap"} /\ ~(l.kind = "circ" /\ mode = "ping")
      <3>1. d = c
        BY <1>1, <1>3, <2>5
           DEF ProcessReply, AsyncCircReply, AsyncStreamReply, AsyncStatusReply
      <3> QED BY <2>2, <3>1 DEF Manages, SameLines
    <2> QED BY <2>1, <2>3, <2>4, <2>5
  <1> QED BY <1>2, <1>5, <1>6

\* What a step of the plug-in, or of Tor, leaves of the invariant.
LEMMA ManagedStays ==
    ASSUME mode # "circuitBuild", Types, mode' = mode, t' \in Connections,
           down' \in Seq(Lines), net' \in NetStates, now' \in 0..NumCircuits, when' = when,
           booted' \in BOOLEAN, events' \in BOOLEAN, asked' \in BOOLEAN,
           made' \in Seq(0..NumCircuits), alive' \in SUBSET Nat, streams' \in Nat,
           NEW q, Managed(t', q), Due' = q, t'.reply = <<>>
    PROVE  ManagedInv'
  <1>1. Managed(t, Due)'
    <2>1. NoPing(t', q) => NoPing(t, Due)'
      BY DEF NoPing, Cmds, All
    <2>2. Pinging(t', q) => Pinging(t, Due)'
      BY DEF Pinging, AsksOnce, Cmds, All, One
    <2> QED BY <2>1, <2>2 DEF Managed
  <1>2. Types'
    BY DEF Types
  <1> QED BY <1>1, <1>2 DEF ManagedInv

\* The same for a step of the plug-in.
LEMMA ManagedPlugin ==
    ASSUME mode # "circuitBuild", Types, UNCHANGED <<mode, net, now, when, torVars>>,
           t' \in Connections, down' \in Seq(Lines),
           NEW q, Managed(t', q), Due' = q, t'.reply = <<>>
    PROVE  ManagedInv'
  <1>1. /\ mode' = mode /\ net' \in NetStates /\ now' \in 0..NumCircuits /\ when' = when
        /\ booted' \in BOOLEAN /\ events' \in BOOLEAN /\ asked' \in BOOLEAN
        /\ made' \in Seq(0..NumCircuits) /\ alive' \in SUBSET Nat /\ streams' \in Nat
    BY DEF Types, torVars
  <1> QED BY <1>1, ManagedStays

LEMMA ManagedActivates ==
    ASSUME mode # "circuitBuild", ManagedInv, AnyNet, ActivateOut \/ ActivateIn
    PROVE  ManagedInv'
  <1>1. Types /\ t.reply = <<>> /\ Managed(t, Due) /\ t \in Connections /\ down \in Seq(Lines)
    BY DEF ManagedInv, Types
  <1>2. PICK c : c = ManageState(t)
    OBVIOUS
  <1>3. c \in Connections /\ Managed(c, Due) /\ c.lines = t.lines /\ c.reply = <<>>
    <2>1. Manages(t, c, Due)
      BY <1>1, <1>2, ManageStateManages
    <2> QED BY <1>1, <2>1 DEF Manages, SameLines
  <1>4. ASSUME NEW d, SameManaged(c, d), d.state = c.state, d.nextState = c.nextState,
               SameAsked(c, d)
        PROVE  Managed(d, Due)
    BY <1>3, <1>4 DEF Managed, NoPing, Pinging, SameManaged, SameAsked
  <1>5. CASE ActivateOut
    <2>1. /\ t' = IF c.sendBuf = <<>> THEN [c EXCEPT !.interest = "IN"] ELSE Put(c, c.sendBuf)
          /\ UNCHANGED <<mode, net, now, down, when, torVars>>
      BY <1>2, <1>5 DEF ActivateOut, Initialize
    <2>2. /\ t' \in Connections /\ SameManaged(c, t') /\ t'.lines = c.lines /\ t'.reply = c.reply
          /\ t'.state = c.state /\ t'.nextState = c.nextState /\ SameAsked(c, t')
      <3>1. CASE c.sendBuf = <<>>
        <4>1. t' = [c EXCEPT !.interest = "IN"]
          BY <2>1, <3>1
        <4>2. t'.up = c.up /\ t'.sendBuf = c.sendBuf
          BY <1>3, <4>1 DEF Connections
        <4>3. SameAsked(c, t')
          BY <4>2 DEF SameAsked, AsksOnce, Cmds
        <4> QED BY <1>3, <4>1, <4>3 DEF Connections, SameManaged
      <3>2. CASE c.sendBuf # <<>>
        <4>1. PICK b \in Seq(Commands) : b = c.sendBuf
          BY <1>3, CmdsType
        <4>2. t' = Put(c, b)
          BY <2>1, <3>2, <4>1
        <4>3. PICK d : d = t'
          OBVIOUS
        <4>4. [c EXCEPT !.sendBuf = b] = c
          BY <1>3, <4>1 DEF Connections
        <4>5. /\ d \in Connections /\ SameManaged(c, d) /\ SameLines(c, d)
              /\ d.state = c.state /\ d.nextState = c.nextState /\ SameAsked(c, d)
          BY <1>3, <3>2, <4>1, <4>2, <4>3, <4>4, PutManaged
        <4> QED BY <4>3, <4>5 DEF SameLines
      <3> QED BY <3>1, <3>2
    <2>3. Managed(t', Due)
      BY <1>4, <2>2
    <2>4. Due' = Due /\ t'.reply = <<>>
      BY <1>1, <1>3, <2>1, <2>2 DEF Due
    <2>5. down' \in Seq(Lines) /\ UNCHANGED <<mode, net, now, when, torVars>>
      BY <1>1, <2>1
    <2> QED BY <1>1, <2>2, <2>3, <2>4, <2>5, ManagedPlugin
  <1>6. CASE ActivateIn
    <2>1. PICK n \in 1..Len(down) :
             /\ t' = [c EXCEPT !.lines = SubSeq(down, 1, n)]
             /\ down' = SubSeq(down, n + 1, Len(down))
      BY <1>2, <1>6 DEF ActivateIn, Initialize
    <2>2. t.lines = <<>> /\ UNCHANGED <<mode, net, now, when, torVars>>
      BY <1>6 DEF ActivateIn, Busy
    <2>3. PICK a \in Seq(Lines), b \in Seq(Lines) :
             a = SubSeq(down, 1, n) /\ b = SubSeq(down, n + 1, Len(down)) /\ a \o b = down
      BY <1>1, LinesSplit
    <2>4. /\ t' \in Connections /\ SameManaged(c, t') /\ t'.lines = a /\ t'.reply = c.reply
          /\ t'.state = c.state /\ t'.nextState = c.nextState /\ SameAsked(c, t')
          /\ down' = b
      BY <1>3, <2>1, <2>3 DEF Connections, SameManaged, SameAsked, AsksOnce, Cmds
    <2>5. Due' = Due
      <3>1. t.lines \o down = down
        BY <1>1, <2>2, ConcatEmptySeq
      <3> QED BY <1>1, <1>3, <2>3, <2>4, <3>1 DEF Due
    <2>6. Managed(t', Due)
      BY <1>4, <2>4
    <2>7. t'.reply = <<>> /\ down' \in Seq(Lines)
      BY <1>3, <2>4
    <2> QED BY <1>1, <2>2, <2>4, <2>5, <2>6, <2>7, ManagedPlugin
  <1> QED BY <1>5, <1>6

LEMMA ManagedReadLine ==
    ASSUME mode \in {"log", "ping"}, ManagedInv, AnyNet, ReadLine
    PROVE  ManagedInv'
  <1>1. Types /\ t.reply = <<>> /\ Managed(t, Due) /\ t \in Connections
        /\ down \in Seq(Lines) /\ t.lines \in Seq(Lines)
    BY DueType DEF ManagedInv, Types
  <1>2. t.lines # <<>> /\ UNCHANGED <<mode, net, now, down, when, torVars>>
    BY DEF ReadLine, Busy
  <1>3. PICK l \in Lines, rest \in Seq(Lines) : l = Head(t.lines) /\ rest = Tail(t.lines)
    BY <1>1, <1>2, HeadTaken
  <1>4. PICK q : q = t.lines \o down
    OBVIOUS
  <1>5. q \in Seq(Lines) /\ q # <<>> /\ Head(q) = l /\ Tail(q) = rest \o down
    BY <1>1, <1>2, <1>3, <1>4, FrontFirst
  <1>6. Due = q
    BY <1>1, <1>4, <1>5, ConcatEmptySeq DEF Due
  <1>7. ~l.more
    <2>1. \A Q : All(q, Q) => Head(q) \in Q
      BY <1>5, AllTaken
    <2>2. \A X, Q : One(q, X, Q) => Head(q) \in X \/ Head(q) \in Q
      BY <1>5, OneTaken
    <2>3. l \in Murmurs \/ l \in Plain({"extended"})
      BY <1>1, <1>5, <1>6, <2>1, <2>2 DEF Managed, NoPing, Pinging
    <2> QED BY <2>3 DEF Murmurs, Plain
  <1>8. PICK c : c = [t EXCEPT !.lines = rest, !.reply = <<>>]
    OBVIOUS
  <1>9. /\ c \in Connections /\ SameManaged(t, c) /\ c.lines = rest /\ c.reply = <<>>
        /\ c.state = t.state /\ c.nextState = t.nextState /\ SameAsked(t, c)
    <2>1. <<>> \in Seq(Lines)
      BY EmptySeq
    <2> QED BY <1>1, <1>3, <1>8, <2>1 DEF Connections, SameManaged, SameAsked, AsksOnce, Cmds
  <1>10. Managed(c, q)
    BY <1>1, <1>6, <1>9 DEF Managed, NoPing, Pinging, SameManaged, SameAsked
  <1>11. t' = ProcessReply(c, <<l>>)
    <2>1. Append(t.reply, l) = <<l>>
      BY <1>1
    <2>2. c = [[t EXCEPT !.lines = Tail(@)] EXCEPT !.reply = <<>>]
      BY <1>1, <1>3, <1>8 DEF Connections
    <2> QED BY <1>3, <1>7, <2>1, <2>2 DEF ReadLine
  <1>12. PICK d : d = t'
    OBVIOUS
  <1>13. Manages(c, d, Tail(q))
    BY <1>5, <1>9, <1>10, <1>11, <1>12, ManagedReads
  <1>14. t' \in Connections /\ Managed(t', Tail(q)) /\ t'.lines = rest /\ t'.reply = <<>>
    BY <1>9, <1>12, <1>13 DEF Manages, SameLines
  <1>15. Due' = Tail(q)
    <2>1. rest \o down \in Seq(Lines)
      BY <1>1, <1>3, ConcatProperties
    <2>2. <<>> \o (rest \o down) = rest \o down
      BY <2>1, ConcatEmptySeq
    <2> QED BY <1>2, <1>5, <1>14, <2>2 DEF Due
  <1>16. down' \in Seq(Lines) /\ UNCHANGED <<mode, net, now, when, torVars>>
    BY <1>1, <1>2
  <1> QED BY <1>1, <1>14, <1>15, <1>16, ManagedPlugin

\* The next ping.
LEMMA ManagedTimer ==
    ASSUME mode \in {"log", "ping"}, ManagedInv, AnyNet, PingTimer
    PROVE  ManagedInv'
  <1>1. Types /\ t.reply = <<>> /\ Managed(t, Due) /\ t \in Connections /\ down \in Seq(Lines)
    BY DEF ManagedInv, Types
  <1>2. t.timers > 0 /\ UNCHANGED <<mode, net, now, down, when, torVars>>
        /\ t' = SendCommand([t EXCEPT !.timers = @ - 1], <<"EXTENDCIRCUIT", 0>>)
    BY DEF PingTimer
  <1>3. /\ mode = "ping" /\ t.state = "IDLE" /\ t.nextState = "IDLE" /\ t.timers = 1
        /\ All(Cmds(t), Quiet) /\ All(Due, Murmurs) /\ t.outstanding = {}
        /\ \A k \in Circuits : t.circID[k] = -1
    BY <1>1, <1>2 DEF Managed, NoPing, Pinging
  <1>4. PICK c : c = [t EXCEPT !.timers = 0]
    OBVIOUS
  <1>5. c = [t EXCEPT !.timers = @ - 1]
    BY <1>1, <1>3, <1>4 DEF Connections
  <1>6. /\ c \in Connections /\ c.timers = 0 /\ c.outstanding = {} /\ c.state = "IDLE"
        /\ c.nextState = "IDLE" /\ c.circID = t.circID /\ SameLines(t, c) /\ Cmds(c) = Cmds(t)
    BY <1>1, <1>3, <1>4 DEF Connections, SameLines, Cmds
  <1>7. NoPing(c, Due)
    BY <1>3, <1>6 DEF NoPing
  <1>8. PICK d : d = t'
    OBVIOUS
  <1>9. d = SendCommand(c, <<"EXTENDCIRCUIT", 0>>)
    BY <1>2, <1>5, <1>8
  <1>10. Manages(c, d, Due)
    BY <1>3, <1>6, <1>7, <1>9, PingAsked
  <1>11. t' \in Connections /\ Managed(t', Due) /\ SameLines(t, t')
    BY <1>6, <1>8, <1>10 DEF Manages, SameLines
  <1>12. Due' = Due /\ t'.reply = <<>>
    BY <1>1, <1>2, <1>11 DEF Due, SameLines
  <1>13. down' \in Seq(Lines) /\ UNCHANGED <<mode, net, now, when, torVars>>
    BY <1>1, <1>2
  <1> QED BY <1>1, <1>11, <1>12, <1>13, ManagedPlugin

\* Tor adds what no ping hangs on, and the plug-in does nothing.
LEMMA MurmursSent ==
    ASSUME mode # "circuitBuild", ManagedInv,
           NEW new \in Seq(Lines), All(new, Murmurs), down' = down \o new,
           UNCHANGED <<mode, net, now, when, t>>,
           booted' \in BOOLEAN, events' \in BOOLEAN, asked' \in BOOLEAN,
           made' \in Seq(0..NumCircuits), alive' \in SUBSET Nat, streams' \in Nat
    PROVE  ManagedInv'
  <1>1. Types /\ t.reply = <<>> /\ Managed(t, Due) /\ t \in Connections
    BY DEF ManagedInv, Types
  <1>2. Due' = Due \o new /\ down' \in Seq(Lines) /\ Due \in Seq(Lines)
    BY <1>1, DueAdds, DueType
  <1>3. PICK q \in Seq(Lines) : q = Due
    BY <1>2
  <1>4. Managed(t, q \o new)
    BY <1>1, <1>3, MurmursAdded
  <1>5. PICK r : r = q \o new
    OBVIOUS
  <1>6. Managed(t', r) /\ Due' = r /\ t'.reply = <<>> /\ t' \in Connections
    BY <1>1, <1>2, <1>3, <1>4, <1>5
  <1>7. net' \in NetStates /\ now' \in 0..NumCircuits /\ mode' = mode /\ when' = when
    BY <1>1 DEF Types
  <1> QED BY <1>1, <1>2, <1>6, <1>7, ManagedStays

LEMMA EmitsMurmur ==
    ASSUME Types, NEW l \in Murmurs, Emit(l)
    PROVE  \E new \in Seq(Lines) : All(new, Murmurs) /\ down' = down \o new
  <1>1. l \in Lines /\ down \in Seq(Lines)
    BY DueType DEF Murmurs, Plain
  <1>2. CASE events
    <2>1. <<l>> \in Seq(Lines) /\ All(<<l>>, Murmurs)
      BY <1>1, Single
    <2>2. down' = down \o <<l>>
      BY <1>1, <1>2, AppendIsConcat DEF Emit
    <2> QED BY <2>1, <2>2
  <1>3. CASE ~events
    <2>1. <<>> \in Seq(Lines) /\ All(<<>>, Murmurs)
      BY EmptySeq, NoneAtAll
    <2>2. down' = down \o <<>>
      BY <1>1, <1>3, ConcatEmptySeq DEF Emit
    <2> QED BY <2>1, <2>2
  <1> QED BY <1>2, <1>3

LEMMA ManagedEvents ==
    ASSUME mode # "circuitBuild", ManagedInv,
           TorBoots \/ TorExtends \/ TorLoses \/ StreamOpens
    PROVE  ManagedInv'
  <1>1. Types
    BY DEF ManagedInv
  <1>2. /\ booted \in BOOLEAN /\ events \in BOOLEAN /\ asked \in BOOLEAN
        /\ made \in Seq(0..NumCircuits) /\ alive \in SUBSET Nat /\ streams \in Nat
    BY <1>1 DEF Types
  <1>3. UNCHANGED <<mode, net, now, when, t, events, asked, made>>
    BY DEF TorBoots, TorExtends, TorLoses, StreamOpens, exceptTor
  <1>4. booted' \in BOOLEAN
    BY <1>2 DEF TorBoots, TorExtends, TorLoses, StreamOpens
  <1>5. alive' \in SUBSET Nat
    BY <1>2 DEF TorBoots, TorExtends, TorLoses, StreamOpens
  <1>6. streams' \in Nat
    BY <1>2 DEF TorBoots, TorExtends, TorLoses, StreamOpens
  <1>7. PICK l \in Murmurs : Emit(l)
    <2>1. CASE TorBoots
      <3>1. Line("bootstrap", 100) \in Plain({"bootstrap"})
        BY LineType DEF Kinds
      <3> QED BY <2>1, <3>1 DEF TorBoots, Murmurs, Plain
    <2>2. CASE StreamOpens
      <3>1. Line("stream", streams + 1) \in Plain({"stream"})
        BY <1>2, LineType DEF Kinds
      <3> QED BY <2>2, <3>1 DEF StreamOpens, Murmurs, Plain
    <2>3. ASSUME NEW id \in Nat, NEW status \in {"EXTENDED", "FAILED", "CLOSED"}
          PROVE  CircLine(id, status) \in Murmurs
      BY DEF CircLine, Line, Murmurs, Plain, Lines, Kinds
    <2>4. CASE TorExtends
      <3>1. PICK id \in Nat : Emit(CircLine(id, "EXTENDED"))
        BY <1>2, <2>4 DEF TorExtends
      <3> QED BY <2>3, <3>1
    <2>5. CASE TorLoses
      <3>1. PICK id \in Nat, status \in {"FAILED", "CLOSED"} : Emit(CircLine(id, status))
        BY <1>2, <2>5 DEF TorLoses
      <3> QED BY <2>3, <3>1
    <2> QED BY <2>1, <2>2, <2>4, <2>5
  <1>8. PICK new \in Seq(Lines) : All(new, Murmurs) /\ down' = down \o new
    BY <1>1, <1>7, EmitsMurmur
  <1>9. events' \in BOOLEAN /\ asked' \in BOOLEAN /\ made' \in Seq(0..NumCircuits)
    BY <1>2, <1>3
  <1> QED BY <1>3, <1>4, <1>5, <1>6, <1>8, <1>9, MurmursSent

\* Tor answers a command that no ping hangs on.
LEMMA QuietAnswered ==
    ASSUME mode # "circuitBuild", ManagedInv, TorAnswers, Head(Cmds(t)) \in Quiet
    PROVE  ManagedInv'
  <1>1. Types /\ t.reply = <<>> /\ Managed(t, Due)
    BY DEF ManagedInv
  <1>2. /\ t' \in Connections /\ SameModule(t, t') /\ Cmds(t) # <<>>
        /\ Cmds(t) \in Seq(Commands) /\ Head(Cmds(t)) = Head(t.up) /\ Cmds(t)' = Tail(Cmds(t))
        /\ UNCHANGED <<mode, net, now, when>>
    BY <1>1, CommandTaken
  <1>3. PICK cmd : cmd = Head(t.up) /\ cmd \in Quiet
    BY <1>2
  <1>4. /\ booted \in BOOLEAN /\ events \in BOOLEAN /\ asked \in BOOLEAN
        /\ made \in Seq(0..NumCircuits) /\ alive \in SUBSET Nat /\ streams \in Nat
    BY <1>1 DEF Types
  <1>5. Ok \in Murmurs /\ Error \in Murmurs /\ Ok \in Lines /\ Error \in Lines
    <2>1. Ok \in Plain({"ok"}) /\ Error \in Plain({"error"})
      BY LineType DEF Ok, Error, Kinds
    <2> QED BY <2>1 DEF Murmurs, Plain
  <1>6. /\ \A l \in Lines : l \in Murmurs => <<l>> \in Seq(Lines) /\ All(<<l>>, Murmurs)
        /\ \A l, m \in Lines : l \in Murmurs /\ m \in Murmurs
                                  => <<l, m>> \in Seq(Lines) /\ All(<<l, m>>, Murmurs)
    BY DEF All
  <1>7. PICK new \in Seq(Lines) : All(new, Murmurs) /\ down' = down \o new
    <2>1. CASE cmd \in Closing
      <3>1. PICK id \in Nat : cmd = <<"CLOSECIRCUIT", id>>
        BY <2>1 DEF Closing
      <3>2. PICK m \in Lines : m = CircLine(id, "CLOSED") /\ m \in Murmurs
        <4>1. CircLine(id, "CLOSED") \in Murmurs
          BY DEF CircLine, Line, Murmurs, Plain, Lines, Kinds
        <4> QED BY <4>1, ManagedKinds
      <3>3. cmd[1] = "CLOSECIRCUIT" /\ cmd[2] = id
        BY <3>1
      <3>4. down' = down \o IF cmd[2] \in alive THEN <<Ok, CircLine(cmd[2], "CLOSED")>>
                            ELSE <<Error>>
        BY <1>3, <3>3 DEF TorAnswers, Send
      <3>5. down' = down \o <<Ok, m>> \/ down' = down \o <<Error>>
        BY <3>2, <3>3, <3>4
      <3> QED BY <1>5, <1>6, <3>2, <3>5
    <2>2. CASE cmd \in {<<"AUTHENTICATE">>, <<"SETEVENTS">>}
      <3>1. cmd[1] \in {"AUTHENTICATE", "SETEVENTS"}
        BY <2>2
      <3>2. down' = down \o <<Ok>>
        BY <1>3, <3>1 DEF TorAnswers, Send
      <3> QED BY <1>5, <1>6, <3>2
    <2> QED BY <1>3, <2>1, <2>2 DEF Quiet
  <1>8. cmd[1] \in {"AUTHENTICATE", "SETEVENTS", "CLOSECIRCUIT"}
    BY <1>3 DEF Quiet, Closing
  <1>9. /\ booted' \in BOOLEAN /\ events' \in BOOLEAN /\ asked' \in BOOLEAN
        /\ made' \in Seq(0..NumCircuits) /\ alive' \in SUBSET Nat /\ streams' \in Nat
    BY <1>3, <1>4, <1>8 DEF TorAnswers, torVars
  <1>10. Due' = Due \o new /\ down' \in Seq(Lines) /\ Due \in Seq(Lines)
    BY <1>1, <1>2, <1>7, DueAdds, DueType DEF SameModule, SameData
  <1>11. PICK q \in Seq(Lines), d \in {t'}, r \in {Due \o new} :
           q = Due /\ d = t' /\ r = q \o new
    BY <1>10
  <1>12. Managed(t, r)
    BY <1>1, <1>7, <1>11, MurmursAdded
  <1>13. Managed(d, r)
    <2>1. Cmds(d) = Tail(Cmds(t)) /\ SameModule(t, d)
      BY <1>2, <1>11 DEF Cmds
    <2>2. All(Cmds(t), Quiet) => All(Cmds(d), Quiet)
      BY <1>2, <2>1, AllTaken
    <2>3. Head(Cmds(t)) \notin {<<"EXTENDCIRCUIT", 0>>}
      BY DEF Quiet, Closing
    <2>4. AsksOnce(t) => AsksOnce(d)
      <3>1. One(Cmds(t), {<<"EXTENDCIRCUIT", 0>>}, Quiet)
              => One(Cmds(d), {<<"EXTENDCIRCUIT", 0>>}, Quiet)
        BY <1>2, <2>1, <2>3, OneTaken
      <3>2. d.sendBuf = t.sendBuf
        BY <1>1, <1>11, CommandTaken
      <3> QED BY <3>1, <3>2 DEF AsksOnce
    <2>5. NoPing(t, r) => NoPing(d, r)
      BY <2>1, <2>2 DEF NoPing, SameModule, SameData
    <2>6. Pinging(t, r) => Pinging(d, r)
      BY <2>1, <2>2, <2>4 DEF Pinging, SameModule, SameData
    <2> QED BY <1>12, <2>1, <2>5, <2>6 DEF Managed, SameModule, SameData
  <1>14. t' \in Connections /\ Managed(t', r) /\ Due' = r /\ t'.reply = <<>>
    BY <1>1, <1>2, <1>10, <1>11, <1>13 DEF SameModule, SameData
  <1>15. mode' = mode /\ net' \in NetStates /\ now' \in 0..NumCircuits /\ when' = when
    BY <1>1, <1>2 DEF Types
  <1> QED BY <1>1, <1>9, <1>10, <1>14, <1>15, ManagedStays

\* Tor makes the circuit of a ping, or has not bootstrapped.
LEMMA PingAnswered ==
    ASSUME mode # "circuitBuild", ManagedInv, TorAnswers, Head(Cmds(t)) \notin Quiet
    PROVE  ManagedInv'
  <1>1. Types /\ t.reply = <<>> /\ Managed(t, Due)
    BY DEF ManagedInv
  <1>2. /\ t' \in Connections /\ SameModule(t, t') /\ Cmds(t) # <<>>
        /\ Cmds(t) \in Seq(Commands) /\ Head(Cmds(t)) = Head(t.up) /\ Cmds(t)' = Tail(Cmds(t))
        /\ UNCHANGED <<mode, net, now, when>>
    BY <1>1, CommandTaken
  <1>3. ~All(Cmds(t), Quiet)
    BY <1>2, AllTaken
  <1>4. /\ One(Cmds(t), {<<"EXTENDCIRCUIT", 0>>}, Quiet)
        /\ All(Due, Murmurs) /\ t.outstanding = {} /\ t.timers = 0
        /\ mode = "ping" /\ t.state = "IDLE" /\ t.nextState = "IDLE"
        /\ \A k \in Circuits : t.circID[k] = -1
    BY <1>1, <1>3 DEF Managed, NoPing, Pinging, AsksOnce
  <1>5. Head(t.up) = <<"EXTENDCIRCUIT", 0>> /\ All(Tail(Cmds(t)), Quiet)
    <2>1. \/ Head(Cmds(t)) \in {<<"EXTENDCIRCUIT", 0>>} /\ All(Tail(Cmds(t)), Quiet)
          \/ Head(Cmds(t)) \in Quiet /\ One(Tail(Cmds(t)), {<<"EXTENDCIRCUIT", 0>>}, Quiet)
      BY <1>2, <1>4, OneTaken
    <2> QED BY <1>2, <2>1
  <1>6. Head(t.up)[1] = "EXTENDCIRCUIT" /\ Head(t.up)[2] = 0
    BY <1>5
  <1>7. /\ booted \in BOOLEAN /\ events \in BOOLEAN /\ asked \in BOOLEAN
        /\ made \in Seq(0..NumCircuits) /\ alive \in SUBSET Nat /\ streams \in Nat
        /\ Len(made) \in Nat
    BY <1>1 DEF Types
  <1>8. PICK l \in Lines :
           /\ down' = down \o <<l>> /\ (l \in Murmurs \/ l \in Plain({"extended"}))
    <2>1. CASE booted
      <3>1. down' = down \o <<Line("extended", Len(made) + 1)>>
        BY <1>6, <2>1 DEF TorAnswers, Send
      <3>2. Line("extended", Len(made) + 1) \in Plain({"extended"})
        BY <1>7, LineType DEF Kinds
      <3> QED BY <3>1, <3>2 DEF Plain
    <2>2. CASE ~booted
      <3>1. down' = down \o <<Error>>
        BY <1>6, <2>2 DEF TorAnswers, Send
      <3>2. Error \in Plain({"error"})
        BY LineType DEF Error, Kinds
      <3> QED BY <3>1, <3>2 DEF Plain, Murmurs
    <2> QED BY <2>1, <2>2
  <1>9. /\ booted' \in BOOLEAN /\ events' \in BOOLEAN /\ asked' \in BOOLEAN
        /\ made' \in Seq(0..NumCircuits) /\ alive' \in SUBSET Nat /\ streams' \in Nat
    <2>1. CASE booted
      <3>1. /\ made' = Append(made, 0) /\ alive' = alive \cup {Len(made) + 1}
            /\ UNCHANGED <<booted, events, asked, streams>>
        BY <1>6, <2>1 DEF TorAnswers
      <3>2. 0 \in 0..NumCircuits
        BY TorControlAssumption
      <3>3. made' \in Seq(0..NumCircuits)
        BY <1>7, <3>1, <3>2
      <3>4. alive' \in SUBSET Nat
        <4>1. PICK id \in Nat : id = Len(made) + 1
          BY <1>7
        <4> QED BY <1>7, <3>1, <4>1
      <3> QED BY <1>7, <3>1, <3>3, <3>4
    <2>2. CASE ~booted
      <3>1. UNCHANGED torVars
        BY <1>6, <2>2 DEF TorAnswers
      <3> QED BY <1>7, <3>1 DEF torVars
    <2> QED BY <2>1, <2>2
  <1>10. <<l>> \in Seq(Lines)
    BY Single
  <1>11. Due' = Due \o <<l>> /\ down' \in Seq(Lines) /\ Due \in Seq(Lines)
    BY <1>1, <1>2, <1>8, <1>10, DueAdds, DueType DEF SameModule, SameData
  <1>12. PICK q \in Seq(Lines), d \in {t'}, r \in {Due \o <<l>>} :
           q = Due /\ d = t' /\ r = q \o <<l>>
    BY <1>11
  <1>13. /\ All(Cmds(d), Quiet) /\ d.outstanding = {} /\ d.timers = 0
         /\ d.state = "IDLE" /\ d.nextState = "IDLE" /\ \A k \in Circuits : d.circID[k] = -1
    BY <1>2, <1>4, <1>5, <1>12 DEF SameModule, SameData, Cmds
  <1>14. Managed(d, r)
    <2>1. CASE l \in Murmurs
      <3>1. All(<<l>>, Murmurs)
        BY <2>1, Single
      <3>2. All(r, Murmurs)
        BY <1>4, <1>10, <1>12, <3>1, AllJoined
      <3> QED BY <1>13, <3>2 DEF Managed, NoPing
    <2>2. CASE l \in Plain({"extended"})
      <3>1. One(<<l>>, Plain({"extended"}), Murmurs)
        BY <2>2, Single
      <3>2. One(r, Plain({"extended"}), Murmurs)
        BY <1>4, <1>10, <1>12, <3>1, OneJoined
      <3> QED BY <1>4, <1>13, <3>2 DEF Managed, Pinging
    <2> QED BY <1>8, <2>1, <2>2
  <1>15. t' \in Connections /\ Managed(t', r) /\ Due' = r /\ t'.reply = <<>>
    BY <1>1, <1>2, <1>11, <1>12, <1>14 DEF SameModule, SameData
  <1>16. mode' = mode /\ net' \in NetStates /\ now' \in 0..NumCircuits /\ when' = when
    BY <1>1, <1>2 DEF Types
  <1> QED BY <1>1, <1>9, <1>11, <1>15, <1>16, ManagedStays

LEMMA ManagedInit ==
    CtlInit => ManagedInv
  <1> SUFFICES ASSUME CtlInit, mode # "circuitBuild"
               PROVE  Types /\ t.reply = <<>> /\ Managed(t, Due)
    BY DEF ManagedInv
  <1>1. t = TorControlNew(mode) /\ net = "open" /\ now = 0 /\ down = <<>>
        /\ when \in BootTimes /\ booted = (when = "before") /\ events = FALSE /\ asked = FALSE
        /\ made = <<>> /\ alive = {} /\ streams = 0 /\ mode \in Modes
    BY DEF CtlInit
  <1>2. PICK ks : ks = [k \in Circuits |-> k]
    OBVIOUS
  <1>3. ks \in Seq(Circuits)
    BY <1>2, TorControlAssumption DEF Circuits
  <1>4. PICK ids : ids = [k \in Circuits |-> -1]
    OBVIOUS
  <1>5. ids \in [Circuits -> Int] /\ \A k \in Circuits : ids[k] = -1
    BY <1>4
  <1>6. t = [sendBuf |-> <<>>, up |-> <<>>, interest |-> "OUT", lines |-> <<>>,
             reply |-> <<>>, state |-> "SEND_AUTHENTICATE", nextState |-> "IDLE",
             waiting |-> FALSE, bootstrapped |-> FALSE, queue |-> ks, circID |-> ids,
             outstanding |-> {}, timers |-> 0, crashed |-> FALSE]
    BY <1>1, <1>2, <1>4 DEF TorControlNew
  <1>7. <<>> \in Seq(Lines) /\ <<>> \in Seq(Commands) /\ <<>> \in Seq(0..NumCircuits)
        /\ <<>> \o <<>> = <<>>
    BY EmptySeq, ConcatEmptySeq
  <1>8. t \in Connections
    BY <1>3, <1>5, <1>6, <1>7 DEF Connections, States
  <1>9. Types
    <2>1. booted \in BOOLEAN
      BY <1>1
    <2>2. mode \in Modes /\ net \in NetStates /\ when \in BootTimes
          /\ events \in BOOLEAN /\ asked \in BOOLEAN
      BY <1>1, TorControlAssumption
    <2>3. down \in Seq(Lines) /\ made \in Seq(0..NumCircuits)
      BY <1>1, <1>7
    <2>4. now \in 0..NumCircuits /\ alive \in SUBSET Nat /\ streams \in Nat
      BY <1>1, TorControlAssumption
    <2> QED BY <1>8, <2>1, <2>2, <2>3, <2>4 DEF Types
  <1>10. Due = <<>> /\ Cmds(t) = <<>>
    BY <1>1, <1>6, <1>7 DEF Due, Cmds
  <1>11. NoPing(t, Due)
    BY <1>6, <1>10, NoneAtAll DEF NoPing
  <1> QED BY <1>5, <1>6, <1>9, <1>11 DEF Managed

LEMMA ManagedStep ==
    ASSUME ManagedInv, [CtlNext]_ctlVars
    PROVE  ManagedInv'
  <1>1. CASE mode = "circuitBuild"
    <2>1. mode' = mode
      BY DEF CtlNext, ctlVars, ActivateOut, ActivateIn, ReadLine, PingTimer, Clock, NetChange,
             TorAnswers, TorBoots, TorExtends, TorLoses, StreamOpens, exceptTor
    <2> QED BY <1>1, <2>1 DEF ManagedInv
  <1>2. CASE mode # "circuitBuild"
    <2>1. Types /\ t.reply = <<>> /\ Managed(t, Due) /\ t \in Connections
          /\ down \in Seq(Lines)
      BY <1>2 DEF ManagedInv, Types
    <2>2. AnyNet /\ mode \in {"log", "ping"}
      BY <1>2, <2>1, TorControlAssumption DEF Types, AnyNet
    <2>3. CASE ActivateOut \/ ActivateIn
      BY <1>2, <2>2, <2>3, ManagedActivates
    <2>4. CASE ReadLine
      BY <2>2, <2>4, ManagedReadLine
    <2>5. CASE PingTimer
      BY <2>2, <2>5, ManagedTimer
    <2>6. CASE NetChange
      <3>1. UNCHANGED <<mode, t, now, down, when, torVars>> /\ net' \in NetStates
        BY <2>6 DEF NetChange
      <3>2. /\ mode' = mode /\ now' \in 0..NumCircuits /\ when' = when
            /\ booted' \in BOOLEAN /\ events' \in BOOLEAN /\ asked' \in BOOLEAN
            /\ made' \in Seq(0..NumCircuits) /\ alive' \in SUBSET Nat /\ streams' \in Nat
        BY <2>1, <3>1 DEF Types, torVars
      <3>3. PICK q : q = Due
        OBVIOUS
      <3>4. Managed(t', q) /\ Due' = q /\ t'.reply = <<>> /\ t' \in Connections
            /\ down' \in Seq(Lines)
        BY <2>1, <3>1, <3>3 DEF Due
      <3> QED BY <1>2, <2>1, <3>1, <3>2, <3>4, ManagedStays
    <2>7. CASE TorAnswers
      BY <1>2, <2>7, QuietAnswered, PingAnswered
    <2>8. CASE TorBoots \/ TorExtends \/ TorLoses \/ StreamOpens
      BY <1>2, <2>8, ManagedEvents
    <2>9. CASE UNCHANGED ctlVars
      <3>1. UNCHANGED <<mode, net, now, when, torVars>> /\ UNCHANGED <<t, down>>
        BY <2>9 DEF ctlVars
      <3>2. PICK q : q = Due
        OBVIOUS
      <3>3. Managed(t', q) /\ Due' = q /\ t'.reply = <<>> /\ t' \in Connections
            /\ down' \in Seq(Lines)
        BY <2>1, <3>1, <3>2 DEF Due
      <3> QED BY <1>2, <2>1, <3>1, <3>3, ManagedPlugin
    <2>10. ~Clock
      BY <1>2 DEF Clock
    <2> QED BY <2>3, <2>4, <2>5, <2>6, <2>7, <2>8, <2>9, <2>10 DEF CtlNext
  <1> QED BY <1>1, <1>2

-----------------------------------------------------------------------------
(* The theorems about the ids of circuits and about pings.                 *)

\* The id that the builder remembers for a circuit is one that Tor gave to that very
\* circuit: the reply that is matched to the head of the queue is the answer to the
\* command that was sent for it (case GET_CIRC_ID, torcontrol-circuitbuild.c), until an
\* odd event.
THEOREM IdsAreReal == CtlSpec => []CircuitIdsReal
  <1>1. CtlInit => InOrder /\ ManagedInv
    BY BuilderInit, ManagedInit DEF InOrder
  <1>2. InOrder /\ ManagedInv /\ [CtlNext]_ctlVars => InOrder' /\ ManagedInv'
    BY InOrderStep, ManagedStep
  <1>3. InOrder /\ ManagedInv => CircuitIdsReal
    BY DEF InOrder, BuilderInv, RaceInv, ManagedInv, Builder, Racing, Fresh, Managed, IdsReal,
           CircuitIdsReal
  <1> QED BY <1>1, <1>2, <1>3, PTL DEF CtlSpec

\* The pinger has at most one ping: a circuit that was asked for, one that is extended,
\* or a timer that runs, however its circuits end, whenever Tor bootstraps, and however
\* little of its buffer the socket takes (torcontrol-pinger.c).
THEOREM OnePingAtATime == CtlSpec => []OnePing
  <1>1. CtlInit => ManagedInv
    BY ManagedInit
  <1>2. ManagedInv /\ [CtlNext]_ctlVars => ManagedInv'
    BY ManagedStep
  <1>3. ManagedInv => OnePing
    <2> SUFFICES ASSUME ManagedInv, mode = "ping"  PROVE OnePing
      BY DEF OnePing
    <2>1. Types /\ Begun /\ Managed(t, Due)
      BY DEF ManagedInv, Begun
    <2>2. Quiet \subseteq OtherCommands /\ {<<"EXTENDCIRCUIT", 0>>} \subseteq Asking
      BY ManagedKinds DEF Quiet, Closing, OtherCommands, Asking
    <2>3. Murmurs \subseteq OtherLines /\ Plain({"extended"}) \subseteq Made
      BY DEF Murmurs, Plain, OtherLines, Made
    <2>4. /\ All(Cmds(t), Quiet) => Waiting("EXTENDCIRCUIT") = 0
          /\ One(Cmds(t), {<<"EXTENDCIRCUIT", 0>>}, Quiet) => Waiting("EXTENDCIRCUIT") = 1
      BY <2>1, <2>2, Weaker, CountAll
    <2>5. /\ All(Due, Murmurs) => Answers("extended") = 0
          /\ One(Due, Plain({"extended"}), Murmurs) => Answers("extended") = 1
      BY <2>1, <2>3, Weaker, CountAll
    <2>6. Cardinality({}) = 0 /\ \A id : Cardinality({id}) = 1
      BY FS_EmptySet, FS_Singleton
    <2>7. PICK w, a, o, n : /\ w = Waiting("EXTENDCIRCUIT") /\ a = Answers("extended")
                            /\ o = Cardinality(t.outstanding) /\ n = t.timers
      OBVIOUS
    <2>8. CASE NoPing(t, Due)
      <3>1. w = 0 /\ a = 0 /\ o = 0 /\ n = 0
        BY <2>4, <2>5, <2>6, <2>7, <2>8 DEF NoPing
      <3> QED BY <2>7, <3>1 DEF OnePing
    <2>9. CASE Pinging(t, Due)
      <3>1. \/ w = 1 /\ a = 0 /\ o = 0 /\ n = 0
            \/ w = 0 /\ a = 1 /\ o = 0 /\ n = 0
            \/ w = 0 /\ a = 0 /\ o = 1 /\ n = 0
            \/ w = 0 /\ a = 0 /\ o = 0 /\ n = 1
        BY <2>4, <2>5, <2>6, <2>7, <2>9 DEF Pinging, AsksOnce
      <3> QED BY <2>7, <3>1 DEF OnePing
    <2> QED BY <2>1, <2>8, <2>9 DEF Managed
  <1> QED BY <1>1, <1>2, <1>3, PTL DEF CtlSpec
=============================================================================
