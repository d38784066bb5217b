------------------------- MODULE FileTransferProofs -------------------------
(***************************************************************************)
(* Machine-checked proofs about the filetransfer plug-in: the filegetter   *)
(* with any peer that answers what it is asked, for any files and sizes,   *)
(* through a proxy or not, over kept or new connections, whatever system   *)
(* calls fail; the file server with its clients, for any number of         *)
(* connections, any files, and any sizes of the buffers; and the download  *)
(* service, with the file server at the other end.                         *)
(***************************************************************************)
EXTENDS FileGetterSys, FileServerSys, FileTransfer, TLAPS

-----------------------------------------------------------------------------
(* Requests and answers as sequences of units.                             *)

MessageKinds == RequestKinds \cup SocksRequests
AnswerKinds == Choices \cup SocksReplies \cup ReplyKinds
MessageUnits == [k : MessageKinds, first : BOOLEAN, last : BOOLEAN]
ReplyUnits == AnswerKinds \X Nat
BufUnits == MessageUnits \cup ReplyUnits

\* The end of request m, and a part of it that comes before its end.
Ending(s, m) ==
    /\ s \in Seq(MessageUnits) /\ Len(s) \in Nat /\ Len(s) > 0
    /\ \A i \in 1..Len(s) : s[i].k = m /\ (s[i].last <=> i = Len(s))
Unfinished(s, m) ==
    /\ s \in Seq(MessageUnits) /\ Len(s) \in Nat
    /\ \A i \in 1..Len(s) : s[i].k = m /\ ~s[i].last

\* s is what follows the first p units of answer a, as far as it goes.
AnswerLen(a) == IF a \in SocksMessages THEN SocksLen[a] ELSE Total(a)
Fits(s, a, p) ==
    /\ a \in AnswerKinds /\ s \in Seq(ReplyUnits) /\ Len(s) \in Nat
    /\ p + Len(s) <= AnswerLen(a)
    /\ \A i \in 1..Len(s) : s[i] = <<a, p + i>>

\* The same of three sequences that follow each other.
AllFit(u, r, o, a, p) ==
    Fits(u, a, p) /\ Fits(r, a, p + Len(u)) /\ Fits(o, a, p + Len(u) + Len(r))

LEMMA Concatenation ==
    ASSUME NEW S, NEW s \in Seq(S), NEW w \in Seq(S)
    PROVE  /\ s \o w \in Seq(S) /\ Len(s \o w) = Len(s) + Len(w)
           /\ Len(s) \in Nat /\ Len(w) \in Nat
           /\ \A i \in 1..Len(s \o w) :
                 (s \o w)[i] = IF i <= Len(s) THEN s[i] ELSE w[i - Len(s)]
OBVIOUS

LEMMA Pieces ==
    ASSUME NEW S, NEW s \in Seq(S), NEW n \in 0..Len(s)
    PROVE  /\ Len(s) \in Nat /\ n \in Nat
           /\ SubSeq(s, 1, n) \in Seq(S) /\ Len(SubSeq(s, 1, n)) = n
           /\ SubSeq(s, n + 1, Len(s)) \in Seq(S) /\ Len(SubSeq(s, n + 1, Len(s))) = Len(s) - n
           /\ \A i \in 1..n : SubSeq(s, 1, n)[i] = s[i]
           /\ \A i \in 1..Len(s) - n : SubSeq(s, n + 1, Len(s))[i] = s[n + i]
OBVIOUS

\* What is left behind position k, of it the first n units and what is then left.
LEMMA PieceOfRest ==
    ASSUME NEW S, NEW s \in Seq(S), NEW k \in Nat, NEW n \in Nat, k + n <= Len(s)
    PROVE  LET u == SubSeq(s, k + 1, Len(s))
           IN  /\ u \in Seq(S) /\ Len(u) = Len(s) - k
               /\ SubSeq(s, k + 1, k + n) = SubSeq(u, 1, n)
               /\ SubSeq(s, k + n + 1, Len(s)) = SubSeq(u, n + 1, Len(u))
OBVIOUS

LEMMA RestOfAppended ==
    ASSUME NEW S, NEW s \in Seq(S), NEW w \in Seq(S)
    PROVE  SubSeq(s \o w, Len(s) + 1, Len(s \o w)) = w
OBVIOUS

LEMMA AnswerLengths ==
    ASSUME NEW a \in AnswerKinds
    PROVE  AnswerLen(a) \in Nat
BY GetterAssumption, SizesAssumption, KindsAssumption
   DEF AnswerKinds, AnswerLen, SocksMessages, Choices, SocksReplies, SocksRequests, ReplyKinds, Total

LEMMA FitsJoin ==
    ASSUME NEW s, NEW w, NEW a, NEW p \in Nat, Fits(s, a, p), Fits(w, a, p + Len(s))
    PROVE  Fits(s \o w, a, p) /\ Len(s \o w) = Len(s) + Len(w)
<1> DEFINE t == s \o w
<1>1. /\ a \in AnswerKinds
      /\ s \in Seq(ReplyUnits) /\ w \in Seq(ReplyUnits) /\ Len(s) \in Nat /\ Len(w) \in Nat
      /\ p + Len(s) + Len(w) <= AnswerLen(a)
      /\ \A i \in 1..Len(s) : s[i] = <<a, p + i>>
      /\ \A i \in 1..Len(w) : w[i] = <<a, p + Len(s) + i>>
  BY DEF Fits
<1>2. /\ t \in Seq(ReplyUnits) /\ Len(t) = Len(s) + Len(w)
      /\ \A i \in 1..Len(t) : t[i] = IF i <= Len(s) THEN s[i] ELSE w[i - Len(s)]
  BY <1>1, Concatenation
<1> HIDE DEF t
<1>3. ASSUME NEW i \in 1..Len(t) PROVE t[i] = <<a, p + i>>
  <2>1. CASE i <= Len(s)
    BY <1>1, <1>2, <2>1
  <2>2. CASE i > Len(s)
    <3> DEFINE j == i - Len(s)
    <3>1. j \in 1..Len(w) /\ p + Len(s) + j = p + i
      BY <1>1, <1>2, <2>2
    <3>2. t[i] = w[j] /\ ~(i <= Len(s))
      BY <1>1, <1>2, <2>2
    <3> HIDE DEF j
    <3>3. w[j] = <<a, p + Len(s) + j>>
      BY <1>1, <3>1
    <3> QED BY <3>1, <3>2, <3>3
  <2> QED BY <1>1, <1>2, <2>1, <2>2
<1>4. Len(t) \in Nat /\ p + Len(t) = p + Len(s) + Len(w)
  BY <1>1, <1>2
<1>5. Fits(t, a, p)
  BY <1>1, <1>2, <1>3, <1>4 DEF Fits
<1> QED BY <1>2, <1>5 DEF t

LEMMA FitsSplit ==
    ASSUME NEW s, NEW a, NEW p \in Nat, Fits(s, a, p), NEW n \in 0..Len(s)
    PROVE  /\ Fits(SubSeq(s, 1, n), a, p) /\ Len(SubSeq(s, 1, n)) = n
           /\ Fits(SubSeq(s, n + 1, Len(s)), a, p + n)
           /\ Len(SubSeq(s, n + 1, Len(s))) = Len(s) - n
<1> DEFINE u == SubSeq(s, 1, n)
           v == SubSeq(s, n + 1, Len(s))
<1>1. /\ a \in AnswerKinds /\ s \in Seq(ReplyUnits) /\ Len(s) \in Nat /\ n \in Nat /\ n <= Len(s)
      /\ p + Len(s) <= AnswerLen(a)
      /\ \A i \in 1..Len(s) : s[i] = <<a, p + i>>
  BY DEF Fits
<1>2. /\ u \in Seq(ReplyUnits) /\ Len(u) = n /\ v \in Seq(ReplyUnits) /\ Len(v) = Len(s) - n
      /\ \A i \in 1..n : u[i] = s[i]
      /\ \A i \in 1..Len(s) - n : v[i] = s[n + i]
  BY <1>1, Pieces
<1> HIDE DEF u, v
<1>3. ASSUME NEW i \in 1..Len(u) PROVE u[i] = <<a, p + i>>
  <2>1. i \in 1..n /\ i \in 1..Len(s)
    BY <1>1, <1>2
  <2> QED BY <1>1, <1>2, <2>1
<1>4. ASSUME NEW i \in 1..Len(v) PROVE v[i] = <<a, p + n + i>>
  <2>1. n + i \in 1..Len(s) /\ p + (n + i) = p + n + i
    BY <1>1, <1>2
  <2> QED BY <1>1, <1>2, <2>1
<1>5. p + Len(u) <= p + Len(s) /\ p + n + Len(v) = p + Len(s) /\ Len(u) \in Nat /\ Len(v) \in Nat
  BY <1>1, <1>2
<1>6. p + Len(u) <= AnswerLen(a) /\ p + n + Len(v) <= AnswerLen(a)
  BY <1>1, <1>2, <1>5, AnswerLengths
<1>7. Fits(u, a, p)
  BY <1>1, <1>2, <1>3, <1>5, <1>6 DEF Fits
<1>8. Fits(v, a, p + n)
  BY <1>1, <1>2, <1>4, <1>5, <1>6 DEF Fits
<1> QED BY <1>2, <1>7, <1>8 DEF u, v

\* What is received joins what was; what the peer sends joins what is on its way.
LEMMA AllFitReceive ==
    ASSUME NEW u, NEW r, NEW o, NEW a, NEW p \in Nat, AllFit(u, r, o, a, p), NEW n \in 0..Len(r)
    PROVE  AllFit(u \o SubSeq(r, 1, n), SubSeq(r, n + 1, Len(r)), o, a, p)
<1> DEFINE v == SubSeq(r, 1, n)
           w == SubSeq(r, n + 1, Len(r))
<1>1. /\ Fits(u, a, p) /\ Fits(r, a, p + Len(u)) /\ Fits(o, a, p + Len(u) + Len(r))
  BY DEF AllFit
<1>2. Len(u) \in Nat /\ Len(r) \in Nat /\ p + Len(u) \in Nat
  BY <1>1 DEF Fits
<1>3. /\ Fits(v, a, p + Len(u)) /\ Len(v) = n
      /\ Fits(w, a, p + Len(u) + n) /\ Len(w) = Len(r) - n
  BY <1>1, <1>2, FitsSplit
<1> HIDE DEF v, w
<1>4. Fits(u \o v, a, p) /\ Len(u \o v) = Len(u) + n
  BY <1>1, <1>3, FitsJoin
<1>5. /\ p + Len(u \o v) = p + Len(u) + n
      /\ p + Len(u \o v) + Len(w) = p + Len(u) + Len(r)
  BY <1>2, <1>3, <1>4
<1> QED BY <1>1, <1>3, <1>4, <1>5 DEF AllFit, v, w

LEMMA AllFitSent ==
    ASSUME NEW u, NEW r, NEW o, NEW a, NEW p \in Nat, AllFit(u, r, o, a, p), NEW n \in 0..Len(o)
    PROVE  AllFit(u, r \o SubSeq(o, 1, n), SubSeq(o, n + 1, Len(o)), a, p)
<1> DEFINE v == SubSeq(o, 1, n)
           w == SubSeq(o, n + 1, Len(o))
<1>1. /\ Fits(u, a, p) /\ Fits(r, a, p + Len(u)) /\ Fits(o, a, p + Len(u) + Len(r))
  BY DEF AllFit
<1>2. /\ Len(u) \in Nat /\ Len(r) \in Nat /\ Len(o) \in Nat
      /\ p + Len(u) \in Nat /\ p + Len(u) + Len(r) \in Nat
  BY <1>1 DEF Fits
<1>3. /\ Fits(v, a, p + Len(u) + Len(r)) /\ Len(v) = n
      /\ Fits(w, a, p + Len(u) + Len(r) + n)
  BY <1>1, <1>2, FitsSplit
<1> HIDE DEF v, w
<1>4. Fits(r \o v, a, p + Len(u)) /\ Len(r \o v) = Len(r) + n
  BY <1>1, <1>2, <1>3, FitsJoin
<1>5. p + Len(u) + Len(r \o v) = p + Len(u) + Len(r) + n
  BY <1>2, <1>3, <1>4
<1> QED BY <1>1, <1>3, <1>4, <1>5 DEF AllFit, v, w

\* A peer that hangs up sends no more.
LEMMA NothingFits ==
    ASSUME NEW a \in AnswerKinds, NEW p \in Nat, p <= AnswerLen(a)
    PROVE  Fits(<<>>, a, p)
BY AnswerLengths DEF Fits

LEMMA AllFitCut ==
    ASSUME NEW u, NEW r, NEW o, NEW a, NEW p \in Nat, AllFit(u, r, o, a, p)
    PROVE  AllFit(u, r, <<>>, a, p)
<1>1. /\ Fits(u, a, p) /\ Fits(r, a, p + Len(u)) /\ Fits(o, a, p + Len(u) + Len(r))
  BY DEF AllFit
<1>2. /\ Len(u) \in Nat /\ Len(r) \in Nat /\ a \in AnswerKinds
      /\ p + Len(u) + Len(r) <= AnswerLen(a)
  BY <1>1 DEF Fits
<1>3. Fits(<<>>, a, p + Len(u) + Len(r))
  BY <1>2, NothingFits
<1> QED BY <1>1, <1>3 DEF AllFit

\* What was looked at or taken is behind.
LEMMA AllFitSkip ==
    ASSUME NEW u, NEW r, NEW o, NEW a, NEW p \in Nat, AllFit(u, r, o, a, p), NEW n \in 0..Len(u)
    PROVE  AllFit(SubSeq(u, n + 1, Len(u)), r, o, a, p + n)
<1> DEFINE w == SubSeq(u, n + 1, Len(u))
<1>1. /\ Fits(u, a, p) /\ Fits(r, a, p + Len(u)) /\ Fits(o, a, p + Len(u) + Len(r))
  BY DEF AllFit
<1>2. Len(u) \in Nat /\ Len(r) \in Nat
  BY <1>1 DEF Fits
<1>3. Fits(w, a, p + n) /\ Len(w) = Len(u) - n
  BY <1>1, FitsSplit
<1> HIDE DEF w
<1>4. p + n + Len(w) = p + Len(u) /\ p + n + Len(w) + Len(r) = p + Len(u) + Len(r)
  BY <1>2, <1>3
<1> QED BY <1>1, <1>3, <1>4 DEF AllFit, w

LEMMA AllFitTaken ==
    ASSUME NEW u, NEW r, NEW o, NEW a, NEW p \in Nat, AllFit(u, r, o, a, p)
    PROVE  AllFit(<<>>, r, o, a, p + Len(u))
<1>1. /\ Fits(u, a, p) /\ Fits(r, a, p + Len(u)) /\ Fits(o, a, p + Len(u) + Len(r))
  BY DEF AllFit
<1>2. Len(u) \in Nat /\ Len(r) \in Nat /\ a \in AnswerKinds /\ p + Len(u) <= AnswerLen(a)
  BY <1>1 DEF Fits
<1>3. Fits(<<>>, a, p + Len(u))
  BY <1>2, NothingFits
<1>4. p + Len(u) + Len(<<>>) = p + Len(u)
  BY <1>2
<1> QED BY <1>1, <1>3, <1>4 DEF AllFit

LEMMA AllFitNothing ==
    ASSUME NEW a \in AnswerKinds
    PROVE  AllFit(<<>>, <<>>, <<>>, a, 0)
<1>1. Fits(<<>>, a, 0)
  BY AnswerLengths, NothingFits
<1>2. 0 + Len(<<>>) = 0 /\ 0 + Len(<<>>) + Len(<<>>) = 0
  OBVIOUS
<1> QED BY <1>1, <1>2 DEF AllFit

\* Nothing comes after the end of an answer.
LEMMA AllFitEnd ==
    ASSUME NEW u, NEW r, NEW o, NEW a, NEW p \in Nat, AllFit(u, r, o, a, p),
           p + Len(u) >= AnswerLen(a)
    PROVE  r = <<>> /\ o = <<>> /\ p + Len(u) = AnswerLen(a)
<1>1. /\ a \in AnswerKinds /\ Len(u) \in Nat /\ Len(r) \in Nat /\ Len(o) \in Nat
      /\ r \in Seq(ReplyUnits) /\ o \in Seq(ReplyUnits)
      /\ p + Len(u) + Len(r) + Len(o) <= AnswerLen(a) /\ p + Len(u) <= AnswerLen(a)
  BY DEF AllFit, Fits
<1>2. Len(r) = 0 /\ Len(o) = 0 /\ p + Len(u) = AnswerLen(a)
  BY <1>1, AnswerLengths
<1> QED BY <1>1, <1>2

\* A send takes part of what is left of a request, or all of it.
LEMMA SendPart ==
    ASSUME NEW r, NEW u, NEW m, Unfinished(r, m), Ending(u, m), NEW n \in 0..Len(u), n < Len(u)
    PROVE  Unfinished(r \o SubSeq(u, 1, n), m) /\ Ending(SubSeq(u, n + 1, Len(u)), m)
<1> DEFINE v == SubSeq(u, 1, n)
           w == SubSeq(u, n + 1, Len(u))
           t == r \o v
<1>1. /\ r \in Seq(MessageUnits) /\ u \in Seq(MessageUnits) /\ Len(r) \in Nat /\ Len(u) \in Nat
      /\ \A i \in 1..Len(r) : r[i].k = m /\ ~r[i].last
      /\ \A i \in 1..Len(u) : u[i].k = m /\ (u[i].last <=> i = Len(u))
  BY Zenon DEF Unfinished, Ending
<1>2. /\ n \in Nat /\ v \in Seq(MessageUnits) /\ Len(v) = n
      /\ w \in Seq(MessageUnits) /\ Len(w) = Len(u) - n
      /\ \A i \in 1..n : v[i] = u[i]
      /\ \A i \in 1..Len(u) - n : w[i] = u[n + i]
  BY <1>1, Pieces
<1>3. /\ t \in Seq(MessageUnits) /\ Len(t) = Len(r) + n
      /\ \A i \in 1..Len(t) : t[i] = IF i <= Len(r) THEN r[i] ELSE v[i - Len(r)]
  BY <1>1, <1>2, Concatenation
<1> HIDE DEF v, w, t
<1>4. ASSUME NEW i \in 1..Len(t) PROVE t[i].k = m /\ ~t[i].last
  <2>1. CASE i <= Len(r)
    <3>1. i \in 1..Len(r) /\ t[i] = r[i]
      BY <1>1, <1>3, <2>1
    <3> QED BY <1>1, <3>1, Zenon
  <2>2. CASE ~(i <= Len(r))
    <3> DEFINE j == i - Len(r)
    <3>1. j \in 1..n /\ j \in 1..Len(u) /\ j # Len(u)
      BY <1>1, <1>2, <1>3, <2>2
    <3>2. t[i] = v[j]
      BY <1>3, <2>2
    <3> HIDE DEF j
    <3>3. t[i] = u[j]
      BY <1>2, <3>1, <3>2
    <3> QED BY <1>1, <3>1, <3>3, Zenon
  <2> QED BY <2>1, <2>2
<1>5. ASSUME NEW i \in 1..Len(w) PROVE w[i].k = m /\ (w[i].last <=> i = Len(w))
  <2> DEFINE j == n + i
  <2>1. j \in 1..Len(u) /\ w[i] = u[j] /\ (j = Len(u) <=> i = Len(w))
    BY <1>1, <1>2
  <2> HIDE DEF j
  <2> QED BY <1>1, <2>1, Zenon
<1>6. Len(t) \in Nat /\ Len(w) \in Nat /\ Len(w) > 0
  BY <1>1, <1>2, <1>3
<1>7. Unfinished(t, m)
  BY <1>3, <1>4, <1>6, Zenon DEF Unfinished
<1>8. Ending(w, m)
  BY <1>2, <1>5, <1>6, Zenon DEF Ending
<1> QED BY <1>7, <1>8 DEF t, v, w

LEMMA SendAll ==
    ASSUME NEW r, NEW u, NEW m, Unfinished(r, m), Ending(u, m)
    PROVE  Ending(r \o SubSeq(u, 1, Len(u)), m)
<1> DEFINE t == r \o u
<1>1. /\ r \in Seq(MessageUnits) /\ u \in Seq(MessageUnits) /\ Len(r) \in Nat /\ Len(u) \in Nat
      /\ Len(u) > 0
      /\ \A i \in 1..Len(r) : r[i].k = m /\ ~r[i].last
      /\ \A i \in 1..Len(u) : u[i].k = m /\ (u[i].last <=> i = Len(u))
  BY Zenon DEF Unfinished, Ending
<1>2. SubSeq(u, 1, Len(u)) = u
  BY <1>1
<1>3. /\ t \in Seq(MessageUnits) /\ Len(t) = Len(r) + Len(u)
      /\ \A i \in 1..Len(t) : t[i] = IF i <= Len(r) THEN r[i] ELSE u[i - Len(r)]
  BY <1>1, Concatenation
<1> HIDE DEF t
<1>4. ASSUME NEW i \in 1..Len(t) PROVE t[i].k = m /\ (t[i].last <=> i = Len(t))
  <2>1. CASE i <= Len(r)
    <3>1. i \in 1..Len(r) /\ t[i] = r[i] /\ i # Len(t)
      BY <1>1, <1>3, <2>1
    <3> QED BY <1>1, <3>1, Zenon
  <2>2. CASE ~(i <= Len(r))
    <3> DEFINE j == i - Len(r)
    <3>1. j \in 1..Len(u) /\ (j = Len(u) <=> i = Len(t))
      BY <1>1, <1>3, <2>2
    <3>2. t[i] = u[j]
      BY <1>3, <2>2
    <3> HIDE DEF j
    <3> QED BY <1>1, <3>1, <3>2, Zenon
  <2> QED BY <2>1, <2>2
<1>5. Len(t) \in Nat /\ Len(t) > 0
  BY <1>1, <1>3
<1>6. Ending(t, m)
  BY <1>3, <1>4, <1>5, Zenon DEF Ending
<1> QED BY <1>2, <1>6 DEF t

\* The peer reads a unit: the last one, one before it, or one of a part.
LEMMA ReadEnding ==
    ASSUME NEW s, NEW m, Ending(s, m)
    PROVE  /\ s # <<>> /\ Head(s).k = m
           /\ Head(s).last => Tail(s) = <<>>
           /\ ~Head(s).last => Ending(Tail(s), m)
<1> DEFINE w == Tail(s)
<1>1. /\ s \in Seq(MessageUnits) /\ Len(s) \in Nat /\ Len(s) > 0
      /\ \A i \in 1..Len(s) : s[i].k = m /\ (s[i].last <=> i = Len(s))
  BY Zenon DEF Ending
<1>2. /\ s # <<>> /\ Head(s) = s[1] /\ 1 \in 1..Len(s)
      /\ w \in Seq(MessageUnits) /\ Len(w) = Len(s) - 1
      /\ \A i \in 1..Len(w) : w[i] = s[1 + i]
  BY <1>1
<1> HIDE DEF w
<1>3. Head(s).k = m /\ (Head(s).last <=> 1 = Len(s))
  BY <1>1, <1>2, Zenon
<1>4. 1 = Len(s) => w = <<>>
  BY <1>1, <1>2
<1>5. ASSUME 1 # Len(s) PROVE Ending(w, m)
  <2>1. ASSUME NEW i \in 1..Len(w) PROVE w[i].k = m /\ (w[i].last <=> i = Len(w))
    <3> DEFINE j == 1 + i
    <3>1. j \in 1..Len(s) /\ w[i] = s[j] /\ (j = Len(s) <=> i = Len(w))
      BY <1>1, <1>2
    <3> HIDE DEF j
    <3> QED BY <1>1, <3>1, Zenon
  <2>2. Len(w) \in Nat /\ Len(w) > 0
    BY <1>1, <1>2, <1>5
  <2> QED BY <1>2, <2>1, <2>2, Zenon DEF Ending
<1> QED BY <1>2, <1>3, <1>4, <1>5, Zenon DEF w

LEMMA ReadUnfinished ==
    ASSUME NEW s, NEW m, Unfinished(s, m), s # <<>>
    PROVE  ~Head(s).last /\ Unfinished(Tail(s), m)
<1> DEFINE w == Tail(s)
<1>1. /\ s \in Seq(MessageUnits) /\ Len(s) \in Nat
      /\ \A i \in 1..Len(s) : s[i].k = m /\ ~s[i].last
  BY Zenon DEF Unfinished
<1>2. /\ Head(s) = s[1] /\ 1 \in 1..Len(s)
      /\ w \in Seq(MessageUnits) /\ Len(w) = Len(s) - 1 /\ Len(w) \in Nat
      /\ \A i \in 1..Len(w) : w[i] = s[1 + i]
      /\ \A i \in 1..Len(w) : 1 + i \in 1..Len(s)
  BY <1>1
<1> HIDE DEF w
<1>3. Unfinished(w, m)
  BY <1>1, <1>2, Zenon DEF Unfinished
<1> QED BY <1>1, <1>2, <1>3, Zenon DEF w

LEMMA MessageEnds ==
    ASSUME NEW m \in MessageKinds, NEW n \in Nat, n > 0
    PROVE  Ending(Message(m, n), m) /\ Len(Message(m, n)) = n
<1> DEFINE s == Message(m, n)
<1>1. s \in Seq(MessageUnits) /\ Len(s) = n
  BY DEF Message, MessageUnits
<1>2. ASSUME NEW i \in 1..n PROVE s[i].k = m /\ (s[i].last <=> i = n)
  <2> DEFINE e == [k |-> m, first |-> i = 1, last |-> i = n]
  <2>1. s[i] = e
    BY DEF Message
  <2>2. e.k = m /\ (e.last <=> i = n)
    BY Zenon
  <2> HIDE DEF e, s
  <2>3. s[i].k = m /\ (s[i].last <=> i = n)
    BY <2>1, <2>2, Zenon
  <2> QED BY <2>3
<1> HIDE DEF s
<1>3. Ending(s, m)
  BY <1>1, <1>2, Zenon DEF Ending
<1> QED BY <1>1, <1>3 DEF s

\* Which reply the buffer holds, and how much of it.
LEMMA HeldReply ==
    ASSUME NEW a, Fits(fg.buf, a, 0), fg.rd = 0, NEW k, NEW n \in Nat, n > 0
    PROVE  Holds(k, n) <=> k = a /\ n <= Len(fg.buf)
<1> DEFINE b == fg.buf
<1>1. Len(b) \in Nat /\ \A i \in 1..Len(b) : b[i] = <<a, 0 + i>>
  BY DEF Fits
<1>2. Holds(k, n) <=> \E i \in 0..Len(b) - n : \A j \in 1..n : b[i + j] = <<k, j>>
  BY DEF Holds
<1> HIDE DEF b
<1>3. ASSUME NEW i \in 0..Len(b) - n, \A j \in 1..n : b[i + j] = <<k, j>>
      PROVE  k = a /\ n <= Len(b)
  <2>1. i \in Nat /\ i + 1 \in 1..Len(b) /\ 1 \in 1..n /\ n <= Len(b)
    BY <1>1
  <2>2. b[i + 1] = <<k, 1>> /\ b[i + 1] = <<a, 0 + (i + 1)>>
    BY <1>1, <1>3, <2>1
  <2> QED BY <2>1, <2>2
<1>4. ASSUME k = a, n <= Len(b) PROVE \E i \in 0..Len(b) - n : \A j \in 1..n : b[i + j] = <<k, j>>
  <2>1. 0 \in 0..Len(b) - n
    BY <1>1, <1>4
  <2>2. \A j \in 1..n : b[0 + j] = <<k, j>>
    BY <1>1, <1>4
  <2> QED BY <2>1, <2>2
<1> QED BY <1>2, <1>3, <1>4 DEF b

LEMMA HeaderFirst ==
    ASSUME NEW a, Fits(fg.buf, a, 0), HdrLen <= Len(fg.buf)
    PROVE  HeaderEnd(a) = HdrLen
<1> DEFINE b == fg.buf
<1>1. Len(b) \in Nat /\ HdrLen \in Nat /\ HdrLen > 0 /\ \A i \in 1..Len(b) : b[i] = <<a, 0 + i>>
  BY SizesAssumption DEF Fits
<1>2. HeaderEnd(a) = CHOOSE i \in 1..Len(b) : b[i] = <<a, HdrLen>>
  BY DEF HeaderEnd
<1>3. HdrLen \in 1..Len(b)
  BY <1>1
<1> HIDE DEF b
<1>4. \A i \in 1..Len(b) : b[i] = <<a, HdrLen>> <=> i = HdrLen
  BY <1>1
<1>5. (CHOOSE i \in 1..Len(b) : b[i] = <<a, HdrLen>>) = HdrLen
  BY <1>3, <1>4, Zenon
<1> QED BY <1>2, <1>5

-----------------------------------------------------------------------------
(* The invariant.                                                          *)

FgStates == {"FG_IDLE", "FG_SPEC", "FG_REQUEST_SOCKS_INIT", "FG_TOREPLY_SOCKS_INIT",
             "FG_REPLY_SOCKS_INIT", "FG_REQUEST_SOCKS_CONN", "FG_TOREPLY_SOCKS_CONN",
             "FG_REPLY_SOCKS_CONN", "FG_REQUEST_HTTP", "FG_TOREPLY_HTTP", "FG_REPLY_HTTP",
             "FG_CHECK_DOWNLOAD", "FG_SEND", "FG_RECEIVE"}
FgCodes == {NoCode, "FG_ERR_NEEDFSPEC", "FG_ERR_FATAL", "FG_ERR_SOCKSINIT", "FG_ERR_SOCKSCONN",
            "FG_ERR_404", "FG_ERR_WOULDBLOCK", "FG_OK_200"}

Getters ==
    [state : FgStates, nextstate : FgStates, sockd : Socks \cup {NoSock},
     events : {"IN", "OUT"}, buf : Seq(BufUnits), rd : Nat,
     spec : RequestKinds \cup {NoKind}, expected : Nat, body : Seq(ReplyUnits), all : Nat]
GetterTypeOK ==
    /\ fg \in Getters
    /\ fg.rd <= Len(fg.buf)
    /\ run \in {"no", "enter", "switch", "back"}
    /\ ret \in FgCodes
    /\ conn \in [Socks -> {"free", "pending", "accepted", "closed"}]
    /\ cli \in [Socks -> {"none", "connecting", "refused", "stray", "open", "closed"}]
    /\ req \in [Socks -> Seq(MessageUnits)]
    /\ rep \in [Socks -> Seq(ReplyUnits)]
    /\ pout \in [Socks -> Seq(ReplyUnits)]
    /\ downloads \in Nat

\* Only a peer that has accepted holds anything, one that has closed is sent nothing, and
\* one that the client is still connecting to knows nothing of it.
Quiet ==
    \A c \in Socks :
       /\ conn[c] # "accepted" => pout[c] = <<>>
       /\ conn[c] = "closed" => req[c] = <<>>
       /\ cli[c] = "connecting" => conn[c] = "free"

\* Where an activation can stop, the room that is then left, and when a socket is held.
Parked ==
    /\ ret \in Broken => run = "back"
    /\ run \in {"enter", "switch"} => fg.sockd # NoSock
    /\ ret \notin Broken =>
          /\ fg.state # "FG_IDLE"
          /\ fg.state # "FG_SPEC" => fg.sockd # NoSock
          /\ fg.state = "FG_SPEC" /\ ~Persistent => fg.sockd = NoSock
          /\ run # "switch" => fg.state \in {"FG_SPEC", "FG_REQUEST_SOCKS_INIT", "FG_REQUEST_HTTP",
                                             "FG_SEND", "FG_RECEIVE"}
          /\ fg.state \notin {"FG_REPLY_HTTP", "FG_CHECK_DOWNLOAD"} => Len(fg.buf) < FgBufSize
          /\ fg.state \notin {"FG_SPEC"} => fg.spec \in RequestKinds

\* The units of the buffer that were not looked at, and what is on its way after them.
Rest == SubSeq(fg.buf, fg.rd + 1, Len(fg.buf))
Clean == req[fg.sockd] = <<>> /\ rep[fg.sockd] = <<>> /\ pout[fg.sockd] = <<>>

\* Request m is about to be made, with room for it; partly sent; waited for.
Ready(m) ==
    /\ Clean
    /\ fg.rd = Len(fg.buf) /\ Len(fg.buf) \in {0} \cup {SocksLen[x] : x \in SocksMessages}
Sending(m) ==
    /\ Unfinished(req[fg.sockd], m) /\ Ending(Rest, m)
    /\ rep[fg.sockd] = <<>> /\ pout[fg.sockd] = <<>>
Awaiting(m) ==
    /\ fg.rd = 0
    /\ \/ /\ Ending(req[fg.sockd], m)
          /\ fg.buf = <<>> /\ rep[fg.sockd] = <<>> /\ pout[fg.sockd] = <<>>
       \/ /\ req[fg.sockd] = <<>>
          /\ \E a \in Answers(m) : AllFit(fg.buf, rep[fg.sockd], pout[fg.sockd], a, 0)

\* Exchange of request m with states q, t, r: FG_REQUEST, FG_TOREPLY and FG_REPLY.
Trade(m, q, t, r) ==
    /\ fg.state = q => Ready(m)
    /\ fg.state = "FG_SEND" /\ fg.nextstate = t => Sending(m)
    /\ fg.state \in {t, r} \/ (fg.state = "FG_RECEIVE" /\ fg.nextstate = r) => Awaiting(m)

\* The body of a file is coming.
Downloading ==
    /\ fg.spec \in Files /\ fg.expected = FileLen[fg.spec]
    /\ fg.state = "FG_RECEIVE" => fg.rd = 0 /\ fg.buf = <<>>
    /\ req[fg.sockd] = <<>>
    /\ AllFit(Rest, rep[fg.sockd], pout[fg.sockd], fg.spec, HdrLen + Len(fg.body))

Body ==
    /\ fg.state = "FG_CHECK_DOWNLOAD" \/ (fg.state = "FG_RECEIVE" /\ fg.nextstate = "FG_CHECK_DOWNLOAD")
          => Downloading
    /\ fg.state \notin {"FG_SPEC", "FG_CHECK_DOWNLOAD"}
          /\ ~(fg.state = "FG_RECEIVE" /\ fg.nextstate = "FG_CHECK_DOWNLOAD") => fg.body = <<>>

Protocol ==
    /\ fg.state = "FG_SPEC" /\ fg.sockd # NoSock => Clean
    /\ fg.state = "FG_SEND" =>
          fg.nextstate \in {"FG_TOREPLY_SOCKS_INIT", "FG_TOREPLY_SOCKS_CONN", "FG_TOREPLY_HTTP"}
    /\ fg.state = "FG_RECEIVE" =>
          fg.nextstate \in {"FG_REPLY_SOCKS_INIT", "FG_REPLY_SOCKS_CONN", "FG_REPLY_HTTP",
                            "FG_CHECK_DOWNLOAD"}
    /\ Trade("socks-init", "FG_REQUEST_SOCKS_INIT", "FG_TOREPLY_SOCKS_INIT", "FG_REPLY_SOCKS_INIT")
    /\ Trade("socks-conn", "FG_REQUEST_SOCKS_CONN", "FG_TOREPLY_SOCKS_CONN", "FG_REPLY_SOCKS_CONN")
    /\ Trade(fg.spec, "FG_REQUEST_HTTP", "FG_TOREPLY_HTTP", "FG_REPLY_HTTP")
    /\ Body
InProtocol == ret \notin Broken => Protocol

\* What was counted is the body of a file, and not more of it than there is.
Counted == BodyInOrder /\ (fg.spec \in Files => Len(fg.body) <= FileLen[fg.spec])

\* What the last activation returned, as long as nothing else was called.
Result ==
    run = "back" =>
        /\ ret = "FG_OK_200" => fg.spec \in Files /\ Len(fg.body) = FileLen[fg.spec]
        /\ ret = "FG_ERR_404" => fg.spec \notin Files

GetterInv ==
    /\ GetterTypeOK /\ Quiet /\ Parked /\ InProtocol /\ Counted
    /\ Result /\ Tidy /\ NoAbort

-----------------------------------------------------------------------------
(* How the parts of the invariant follow from what a step leaves.          *)

LEMMA SameProtocol ==
    ASSUME Protocol, fg' = fg, req'[fg.sockd] = req[fg.sockd], rep'[fg.sockd] = rep[fg.sockd],
           pout'[fg.sockd] = pout[fg.sockd]
    PROVE  Protocol'
<1>1. Clean => Clean'
  BY DEF Clean
<1>2. ASSUME NEW m PROVE Ready(m) => Ready(m)'
  BY <1>1 DEF Ready
<1>3. ASSUME NEW m PROVE Sending(m) => Sending(m)'
  BY DEF Sending, Rest
<1>4. ASSUME NEW m PROVE Awaiting(m) => Awaiting(m)'
  BY DEF Awaiting
<1>5. Downloading => Downloading'
  BY DEF Downloading, Rest
<1> QED BY <1>1, <1>2, <1>3, <1>4, <1>5 DEF Protocol, Trade, Body

LEMMA NowReady ==
    ASSUME \/ fg'.state = "FG_REQUEST_SOCKS_INIT" /\ Ready("socks-init")'
           \/ fg'.state = "FG_REQUEST_SOCKS_CONN" /\ Ready("socks-conn")'
           \/ fg'.state = "FG_REQUEST_HTTP" /\ Ready(fg.spec)',
           fg'.body = <<>>
    PROVE  Protocol'
BY DEF Protocol, Trade, Body

LEMMA NowSending ==
    ASSUME fg'.state = "FG_SEND", fg'.body = <<>>,
           \/ fg'.nextstate = "FG_TOREPLY_SOCKS_INIT" /\ Sending("socks-init")'
           \/ fg'.nextstate = "FG_TOREPLY_SOCKS_CONN" /\ Sending("socks-conn")'
           \/ fg'.nextstate = "FG_TOREPLY_HTTP" /\ Sending(fg.spec)'
    PROVE  Protocol'
BY DEF Protocol, Trade, Body

\* The state waits for the answer to a request: states t and r are its FG_TOREPLY and FG_REPLY.
WaitsFor(t, r) ==
    fg.state \in {t, r} \/ (fg.state = "FG_RECEIVE" /\ fg.nextstate = r)

LEMMA NowAwaiting ==
    ASSUME fg'.body = <<>>,
           \/ WaitsFor("FG_TOREPLY_SOCKS_INIT", "FG_REPLY_SOCKS_INIT")' /\ Awaiting("socks-init")'
           \/ WaitsFor("FG_TOREPLY_SOCKS_CONN", "FG_REPLY_SOCKS_CONN")' /\ Awaiting("socks-conn")'
           \/ WaitsFor("FG_TOREPLY_HTTP", "FG_REPLY_HTTP")' /\ Awaiting(fg.spec)'
    PROVE  Protocol'
BY DEF Protocol, Trade, Body, WaitsFor

LEMMA NowDownloading ==
    ASSUME Downloading', \/ fg'.state = "FG_CHECK_DOWNLOAD"
                         \/ fg'.state = "FG_RECEIVE" /\ fg'.nextstate = "FG_CHECK_DOWNLOAD"
    PROVE  Protocol'
BY DEF Protocol, Trade, Body

LEMMA NowSpec ==
    ASSUME fg'.state = "FG_SPEC", fg'.sockd # NoSock => Clean'
    PROVE  Protocol'
BY DEF Protocol, Trade, Body

\* The three requests are different and are those of the protocol.
LEMMA Kinds ==
    /\ "socks-init" \in MessageKinds /\ "socks-conn" \in MessageKinds
    /\ RequestKinds \subseteq MessageKinds
    /\ \A k \in RequestKinds : k # "socks-init" /\ k # "socks-conn"
BY GetterAssumption
   DEF MessageKinds, SocksRequests, RequestKinds, Missing, Malformed, SocksMessages

LEMMA AnswersOf ==
    /\ Answers("socks-init") = Choices /\ Answers("socks-conn") = SocksReplies
    /\ \A k \in RequestKinds : Answers(k) = {Reply(k)}
    /\ \A k \in MessageKinds : Answers(k) # {} /\ Answers(k) \subseteq AnswerKinds
<1>1. /\ Answers("socks-init") = Choices /\ Answers("socks-conn") = SocksReplies
      /\ \A k \in RequestKinds : Answers(k) = {Reply(k)}
  BY Kinds DEF Answers
<1>2. Choices # {} /\ SocksReplies # {} /\ \A k : Reply(k) \in ReplyKinds
  BY DEF Choices, SocksReplies, Reply, ReplyKinds
<1> QED BY <1>1, <1>2 DEF MessageKinds, SocksRequests, AnswerKinds

-----------------------------------------------------------------------------
(* The steps of an activation.                                             *)

LEMMA InSwitch ==
    ASSUME GetterInv, run \in {"enter", "switch"}
    PROVE  /\ ret \notin Broken /\ Protocol /\ fg.sockd \in Socks
           /\ fg.state # "FG_IDLE" /\ (fg.state # "FG_SPEC" => fg.spec \in RequestKinds)
BY DEF GetterInv, Parked, InProtocol, GetterTypeOK, Getters

\* What depends on nothing but the network.
LEMMA NetKept ==
    ASSUME Quiet, NetUnchanged, UNCHANGED pout
    PROVE  Quiet'
BY DEF Quiet, NetUnchanged, netVars

LEMMA CountKept ==
    ASSUME Counted, fg'.body = fg.body, fg'.spec = fg.spec
    PROVE  Counted'
BY DEF Counted, BodyInOrder

LEMMA EnterStep ==
    ASSUME GetterInv, Enter, UNCHANGED <<pout, downloads>>
    PROVE  GetterInv'
<1>1. /\ run = "enter" /\ fg' = fg /\ ret' = ret /\ UNCHANGED <<conn, cli, req, rep, pout, downloads>>
      /\ NetUnchanged
  BY DEF Enter, NetUnchanged, netVars
<1>2. /\ ret \notin Broken /\ Protocol /\ fg.sockd \in Socks /\ fg.state # "FG_IDLE"
  BY <1>1, InSwitch
<1>3. /\ fg.rd \in Nat /\ Len(fg.buf) \in Nat /\ fg.rd <= Len(fg.buf) /\ Len(fg.buf) < FgBufSize
      /\ FgBufSize \in Nat
  BY <1>1, <1>2, GetterBufferAssumption DEF GetterInv, GetterTypeOK, Getters, Parked
<1>4. StateOK
  BY <1>2, <1>3, SocksAssumption DEF StateOK
<1>5. run' = "switch" /\ aborted' = aborted
  BY <1>4 DEF Enter
<1>6. GetterTypeOK'
  BY <1>1, <1>5 DEF GetterInv, GetterTypeOK
<1>7. Quiet' /\ Counted'
  BY <1>1, NetKept, CountKept DEF GetterInv
<1>8. Parked'
  BY <1>1, <1>2, <1>5, SocksAssumption DEF GetterInv, Parked
<1>9. Protocol'
  BY <1>1, <1>2, SameProtocol
<1> QED BY <1>1, <1>5, <1>6, <1>7, <1>8, <1>9
        DEF GetterInv, InProtocol, Result, Tidy, NoAbort

\* What a step in the switch that leaves the network alone has to show.
LEMMA StepInSwitch ==
    ASSUME GetterInv, run = "switch", NetUnchanged, UNCHANGED <<aborted, pout, downloads>>,
           fg'.body = fg.body, fg'.spec = fg.spec, fg'.sockd = fg.sockd,
           GetterTypeOK', Parked', InProtocol', Result'
    PROVE  GetterInv'
<1>1. Quiet' /\ Counted'
  BY NetKept, CountKept DEF GetterInv
<1> QED BY <1>1 DEF GetterInv, Tidy, NoAbort, NetUnchanged, netVars

LEMMA NeedSpecStep ==
    ASSUME GetterInv, NeedSpec, UNCHANGED <<pout, downloads>>
    PROVE  GetterInv'
<1>1. /\ run = "switch" /\ fg.state = "FG_SPEC" /\ fg' = fg /\ NetUnchanged /\ aborted' = aborted
      /\ UNCHANGED <<conn, cli, req, rep>> /\ run' = "back" /\ ret' = "FG_ERR_NEEDFSPEC"
  BY DEF NeedSpec, At, Returns, NetUnchanged, netVars
<1>2. ret \notin Broken /\ Protocol /\ ret' \notin Broken
  BY <1>1, InSwitch DEF Broken
<1>3. GetterTypeOK'
  BY <1>1 DEF GetterInv, GetterTypeOK, FgCodes
<1>4. Parked'
  BY <1>1, <1>2 DEF GetterInv, Parked
<1>5. Protocol'
  BY <1>1, <1>2, SameProtocol
<1>6. Result'
  BY <1>1 DEF Result
<1> QED BY <1>1, <1>3, <1>4, <1>5, <1>6, StepInSwitch DEF InProtocol

LEMMA MakeRequestStep ==
    ASSUME GetterInv, UNCHANGED <<pout, downloads>>, NEW s, NEW m, NEW n, NEW next,
           MakeRequest(s, m, n, next), m \in MessageKinds, n \in Nat, n > 0,
           \A x \in SocksMessages : SocksLen[x] + n < FgBufSize,
           \/ s = "FG_REQUEST_SOCKS_INIT" /\ m = "socks-init" /\ next = "FG_TOREPLY_SOCKS_INIT"
           \/ s = "FG_REQUEST_SOCKS_CONN" /\ m = "socks-conn" /\ next = "FG_TOREPLY_SOCKS_CONN"
           \/ s = "FG_REQUEST_HTTP" /\ m = fg.spec /\ next = "FG_TOREPLY_HTTP"
    PROVE  GetterInv'
<1> DEFINE w == Message(m, n)
<1>1. /\ run = "switch" /\ fg.state = s /\ NetUnchanged /\ UNCHANGED <<conn, cli, req, rep>>
      /\ run' = run /\ ret' = ret /\ aborted' = aborted
      /\ fg' = [fg EXCEPT !.buf = @ \o w, !.state = "FG_SEND", !.nextstate = next,
                          !.events = "OUT"]
  BY DEF MakeRequest, At, Goto, NetUnchanged, netVars
<1>2. ret \notin Broken /\ Protocol /\ fg.sockd \in Socks /\ fg.spec \in RequestKinds
  BY <1>1, InSwitch
<1>3. Ready(m) /\ fg.body = <<>>
  BY <1>1, <1>2 DEF Protocol, Trade, Body
<1>4. Ending(w, m) /\ Len(w) = n /\ w \in Seq(MessageUnits)
  BY MessageEnds DEF Ending
<1> HIDE DEF w
<1>5. /\ fg \in Getters
      /\ fg.buf \in Seq(BufUnits) /\ w \in Seq(BufUnits) /\ fg.rd \in Nat
  BY <1>4 DEF GetterInv, GetterTypeOK, Getters, BufUnits
<1>6. /\ fg'.buf = fg.buf \o w /\ fg'.state = "FG_SEND" /\ fg'.nextstate = next /\ fg'.rd = fg.rd
      /\ fg'.sockd = fg.sockd /\ fg'.body = fg.body /\ fg'.spec = fg.spec
  BY <1>1, <1>5 DEF Getters
<1>7. /\ fg.buf \o w \in Seq(BufUnits) /\ Len(fg.buf \o w) = Len(fg.buf) + n
      /\ SubSeq(fg.buf \o w, Len(fg.buf) + 1, Len(fg.buf \o w)) = w
  <2>1. fg.buf \in Seq(BufUnits) /\ w \in Seq(BufUnits)
    BY <1>5
  <2>2. fg.buf \o w \in Seq(BufUnits) /\ Len(fg.buf \o w) = Len(fg.buf) + Len(w)
    BY <2>1, Concatenation
  <2>3. SubSeq(fg.buf \o w, Len(fg.buf) + 1, Len(fg.buf \o w)) = w
    BY <2>1, RestOfAppended
  <2> QED BY <1>4, <2>2, <2>3
<1>8. fg.rd = Len(fg.buf) /\ Clean /\ Len(fg.buf) \in {0} \cup {SocksLen[x] : x \in SocksMessages}
  BY <1>3 DEF Ready
<1>9. Len(fg.buf) + n < FgBufSize
  <2>1. "socks-init" \in SocksMessages /\ \A x \in SocksMessages : SocksLen[x] \in Nat
    BY GetterAssumption DEF SocksMessages, SocksRequests
  <2>2. n < FgBufSize
    BY <2>1, GetterBufferAssumption
  <2> QED BY <1>8, <2>2
<1>10. GetterTypeOK'
  <2>1. fg' \in Getters
    BY <1>1, <1>5, <1>7 DEF FgStates, Getters
  <2>2. fg'.rd <= Len(fg'.buf)
    BY <1>5, <1>6, <1>7, <1>8
  <2> QED BY <1>1, <2>1, <2>2 DEF GetterInv, GetterTypeOK
<1>11. Parked'
  BY <1>1, <1>2, <1>6, <1>7, <1>9, SocksAssumption DEF GetterInv, Parked
<1>12. Sending(m)'
  <2>1. Unfinished(<<>>, m)
    BY DEF Unfinished
  <2>2. Rest' = w
    BY <1>6, <1>7, <1>8 DEF Rest
  <2> QED BY <1>1, <1>4, <1>6, <1>8, <2>1, <2>2 DEF Sending, Clean
<1>13. Protocol'
  BY <1>1, <1>3, <1>6, <1>12, NowSending
<1>14. Result'
  BY <1>1 DEF Result
<1> QED BY <1>1, <1>6, <1>10, <1>11, <1>13, <1>14, StepInSwitch DEF InProtocol

LEMMA RequestsStep ==
    ASSUME GetterInv, Requests, UNCHANGED <<pout, downloads>>
    PROVE  GetterInv'
<1>1. /\ "socks-init" \in SocksMessages /\ "socks-conn" \in SocksMessages
      /\ \A x \in SocksMessages : SocksLen[x] \in Nat \ {0}
      /\ \A x, m \in SocksMessages : SocksLen[x] + SocksLen[m] < FgBufSize
      /\ \A k \in RequestKinds : ReqLen[k] \in Nat \ {0}
      /\ \A x \in SocksMessages, k \in RequestKinds : SocksLen[x] + ReqLen[k] < FgBufSize
  BY GetterAssumption, GetterBufferAssumption, SizesAssumption DEF SocksMessages, SocksRequests
<1>2. CASE MakeRequest("FG_REQUEST_SOCKS_INIT", "socks-init", SocksLen["socks-init"],
                       "FG_TOREPLY_SOCKS_INIT")
  BY <1>1, <1>2, Kinds, MakeRequestStep
<1>3. CASE MakeRequest("FG_REQUEST_SOCKS_CONN", "socks-conn", SocksLen["socks-conn"],
                       "FG_TOREPLY_SOCKS_CONN")
  BY <1>1, <1>3, Kinds, MakeRequestStep
<1>4. CASE MakeRequest("FG_REQUEST_HTTP", fg.spec, ReqLen[fg.spec], "FG_TOREPLY_HTTP")
  <2>1. fg.spec \in RequestKinds
    BY <1>4, InSwitch DEF MakeRequest, At
  <2> QED BY <1>1, <1>4, <2>1, Kinds, MakeRequestStep
<1> QED BY <1>2, <1>3, <1>4 DEF Requests

\* Waiting, with a buffer from which nothing was taken.
LEMMA AwaitingMore ==
    ASSUME NEW m, Awaiting(m), fg'.buf = fg.buf, fg'.rd = fg.rd, fg'.sockd = fg.sockd,
           UNCHANGED <<req, rep, pout>>
    PROVE  Awaiting(m)'
BY DEF Awaiting

\* The state changes, and nothing else of what the invariant speaks of.
LEMMA WaitingStep ==
    ASSUME GetterInv, run = "switch", NetUnchanged, UNCHANGED <<pout, downloads>>, Goto,
           fg' \in Getters, fg'.buf = fg.buf, fg'.rd = fg.rd, fg'.sockd = fg.sockd,
           fg'.spec = fg.spec, fg'.body = fg.body,
           fg'.state \notin {"FG_IDLE", "FG_SPEC"}, fg.state # "FG_SPEC",
           Len(fg.buf) < FgBufSize, Protocol'
    PROVE  GetterInv'
<1>1. /\ UNCHANGED <<conn, cli, req, rep>> /\ run' = run /\ ret' = ret /\ aborted' = aborted
  BY DEF NetUnchanged, netVars, Goto
<1>2. GetterTypeOK'
  BY <1>1 DEF GetterInv, GetterTypeOK
<1>3. Parked'
  BY <1>1 DEF GetterInv, Parked
<1>4. Result'
  BY <1>1 DEF Result
<1> QED BY <1>1, <1>2, <1>3, <1>4, StepInSwitch DEF InProtocol

LEMMA ToRepliesStep ==
    ASSUME GetterInv, ToReplies, UNCHANGED <<pout, downloads>>
    PROVE  GetterInv'
<1>1. ASSUME NEW s, NEW next, ToReply(s, next), NEW m,
             \/ /\ s = "FG_TOREPLY_SOCKS_INIT" /\ next = "FG_REPLY_SOCKS_INIT" /\ m = "socks-init"
             \/ /\ s = "FG_TOREPLY_SOCKS_CONN" /\ next = "FG_REPLY_SOCKS_CONN" /\ m = "socks-conn"
             \/ /\ s = "FG_TOREPLY_HTTP" /\ next = "FG_REPLY_HTTP" /\ m = fg.spec
      PROVE  GetterInv'
  <2>1. /\ run = "switch" /\ fg.state = s /\ NetUnchanged /\ Goto
        /\ fg' = [fg EXCEPT !.state = "FG_RECEIVE", !.nextstate = next, !.events = "IN"]
    BY <1>1 DEF ToReply, At
  <2>2. /\ ret \notin Broken /\ Protocol /\ fg \in Getters
        /\ Len(fg.buf) < FgBufSize
    BY <1>1, <2>1, InSwitch DEF GetterInv, GetterTypeOK, Parked
  <2>3. Awaiting(m) /\ fg.body = <<>>
    BY <1>1, <2>1, <2>2 DEF Protocol, Trade, Body
  <2>4. /\ fg'.state = "FG_RECEIVE" /\ fg'.nextstate = next /\ fg'.spec = fg.spec
        /\ fg'.body = fg.body /\ fg'.buf = fg.buf /\ fg'.rd = fg.rd /\ fg'.sockd = fg.sockd
        /\ fg' \in Getters
    BY <1>1, <2>1, <2>2 DEF Getters, FgStates
  <2>5. Awaiting(m)'
    BY <2>1, <2>3, <2>4, AwaitingMore DEF NetUnchanged, netVars
  <2>6. Protocol'
    BY <1>1, <2>3, <2>4, <2>5, NowAwaiting DEF WaitsFor
  <2> QED BY <1>1, <2>1, <2>2, <2>4, <2>6, WaitingStep
<1> QED BY <1>1 DEF ToReplies

\* What a look at the buffer finds there: the beginning of one answer, and no second one.
LEMMA AnswerRead ==
    ASSUME GetterTypeOK, NEW m \in MessageKinds, Awaiting(m), NEW n \in Nat, n > 0, Avail >= n
    PROVE  /\ fg.rd = 0 /\ req[fg.sockd] = <<>> /\ Avail = Len(fg.buf)
           /\ Head1 \in Answers(m)
           /\ AllFit(fg.buf, rep[fg.sockd], pout[fg.sockd], Head1, 0)
<1>1. fg.rd = 0 /\ fg.buf \in Seq(BufUnits) /\ Len(fg.buf) \in Nat
  BY DEF Awaiting, GetterTypeOK, Getters
<1>2. Avail = Len(fg.buf) /\ Len(fg.buf) > 0 /\ fg.buf # <<>>
  BY <1>1 DEF Avail
<1>3. PICK a \in Answers(m) : req[fg.sockd] = <<>> /\ AllFit(fg.buf, rep[fg.sockd], pout[fg.sockd], a, 0)
  BY <1>2 DEF Awaiting
<1>4. fg.buf[1] = <<a, 0 + 1>>
  BY <1>1, <1>2, <1>3 DEF AllFit, Fits
<1>5. Head1 = a
  BY <1>1, <1>4 DEF Head1
<1> QED BY <1>1, <1>2, <1>3, <1>5

LEMMA SocksLengths ==
    /\ \A x \in SocksMessages : SocksLen[x] \in Nat /\ SocksLen[x] > 0 /\ AnswerLen(x) = SocksLen[x]
    /\ Choices \subseteq SocksMessages /\ SocksReplies \subseteq SocksMessages
    /\ "choice-ok" \in SocksMessages /\ "conn-ok" \in SocksMessages
    /\ SocksLen["conn-moved"] = SocksLen["conn-ok"]
BY GetterAssumption DEF SocksMessages, Choices, SocksReplies, AnswerLen

LEMMA SocksInitReplyStep ==
    ASSUME GetterInv, SocksInitReply, UNCHANGED <<pout, downloads>>
    PROVE  GetterInv'
<1> DEFINE len == SocksLen["choice-ok"]
<1>1. /\ run = "switch" /\ fg.state = "FG_REPLY_SOCKS_INIT" /\ NetUnchanged
      /\ UNCHANGED <<conn, cli, req, rep>>
  BY DEF SocksInitReply, At, NetUnchanged, netVars
<1>2. /\ ret \notin Broken /\ Protocol /\ fg \in Getters /\ fg.sockd \in Socks
      /\ fg.spec \in RequestKinds /\ GetterTypeOK /\ Len(fg.buf) < FgBufSize
      /\ fg.buf \in Seq(BufUnits) /\ Len(fg.buf) \in Nat
  BY <1>1, InSwitch DEF GetterInv, GetterTypeOK, Getters, Parked
<1>3. Awaiting("socks-init") /\ fg.body = <<>>
  BY <1>1, <1>2 DEF Protocol, Trade, Body
<1>4. CASE Avail < len /\ fg' = [fg EXCEPT !.state = "FG_TOREPLY_SOCKS_INIT"] /\ Goto
  <2>1. /\ fg' \in Getters /\ fg'.state = "FG_TOREPLY_SOCKS_INIT" /\ fg'.body = fg.body
        /\ fg'.buf = fg.buf /\ fg'.rd = fg.rd /\ fg'.sockd = fg.sockd /\ fg'.spec = fg.spec
    BY <1>2, <1>4 DEF Getters, FgStates
  <2>2. Awaiting("socks-init")'
    BY <1>1, <1>3, <2>1, AwaitingMore
  <2>3. Protocol'
    BY <1>3, <2>1, <2>2, NowAwaiting DEF WaitsFor
  <2> QED BY <1>1, <1>2, <1>4, <2>1, <2>3, WaitingStep
<1>5. CASE Returns("FG_ERR_SOCKSINIT") /\ fg' = fg
  <2>1. /\ run' = "back" /\ ret' = "FG_ERR_SOCKSINIT" /\ aborted' = aborted /\ ret' \in Broken
    BY <1>5 DEF Returns, Broken
  <2>2. GetterTypeOK'
    BY <1>1, <1>5, <2>1 DEF GetterInv, GetterTypeOK, FgCodes
  <2>3. Parked' /\ InProtocol' /\ Result'
    BY <2>1 DEF Parked, InProtocol, Result
  <2> QED BY <1>1, <1>5, <2>1, <2>2, <2>3, StepInSwitch
<1>6. CASE /\ Avail >= len /\ Head1 = "choice-ok" /\ Goto
           /\ fg' = [fg EXCEPT !.rd = @ + len, !.state = "FG_REQUEST_SOCKS_CONN"]
  <2>1. /\ fg.rd = 0 /\ req[fg.sockd] = <<>> /\ Avail = Len(fg.buf)
        /\ AllFit(fg.buf, rep[fg.sockd], pout[fg.sockd], "choice-ok", 0)
    BY <1>2, <1>3, <1>6, AnswerRead, SocksLengths, Kinds
  <2>2. /\ rep[fg.sockd] = <<>> /\ pout[fg.sockd] = <<>> /\ Len(fg.buf) = len /\ len \in Nat
    BY <1>6, <2>1, AllFitEnd, SocksLengths
  <2>3. /\ fg' \in Getters /\ fg'.state = "FG_REQUEST_SOCKS_CONN" /\ fg'.rd = len
        /\ fg'.buf = fg.buf /\ fg'.sockd = fg.sockd /\ fg'.spec = fg.spec /\ fg'.body = fg.body
    <3>1. fg.rd + len = len /\ "FG_REQUEST_SOCKS_CONN" \in FgStates
      BY <2>1, <2>2 DEF FgStates
    <3>2. fg' = [fg EXCEPT !.rd = len, !.state = "FG_REQUEST_SOCKS_CONN"]
      BY <1>6, <3>1
    <3> HIDE DEF len
    <3> QED BY <1>2, <2>2, <3>1, <3>2 DEF Getters
  <2>4. /\ run' = run /\ ret' = ret /\ aborted' = aborted
    BY <1>6 DEF Goto
  <2>5. GetterTypeOK'
    BY <1>1, <1>2, <2>2, <2>3, <2>4 DEF GetterTypeOK
  <2>6. Parked'
    BY <1>1, <1>2, <2>3, <2>4 DEF GetterInv, Parked
  <2>7. Ready("socks-conn")'
    BY <1>1, <2>1, <2>2, <2>3, SocksLengths DEF Ready, Clean
  <2>8. Protocol'
    BY <1>3, <2>3, <2>7, NowReady
  <2>9. Result'
    BY <1>1, <2>4 DEF Result
  <2> QED BY <1>1, <2>3, <2>4, <2>5, <2>6, <2>8, <2>9, StepInSwitch DEF InProtocol
<1> QED BY <1>4, <1>5, <1>6 DEF SocksInitReply

LEMMA SocksConnReplyStep ==
    ASSUME GetterInv, SocksConnReply, UNCHANGED <<pout, downloads>>
    PROVE  GetterInv'
<1> DEFINE len == SocksLen["conn-ok"]
<1>1. /\ run = "switch" /\ fg.state = "FG_REPLY_SOCKS_CONN" /\ NetUnchanged
      /\ UNCHANGED <<conn, cli, req, rep>>
  BY DEF SocksConnReply, At, NetUnchanged, netVars
<1>2. /\ ret \notin Broken /\ Protocol /\ fg \in Getters /\ fg.sockd \in Socks
      /\ fg.spec \in RequestKinds /\ GetterTypeOK /\ Len(fg.buf) < FgBufSize
      /\ fg.buf \in Seq(BufUnits) /\ Len(fg.buf) \in Nat
  BY <1>1, InSwitch DEF GetterInv, GetterTypeOK, Getters, Parked
<1>3. Awaiting("socks-conn") /\ fg.body = <<>>
  BY <1>1, <1>2 DEF Protocol, Trade, Body
<1>4. CASE Avail < len /\ fg' = [fg EXCEPT !.state = "FG_TOREPLY_SOCKS_CONN"] /\ Goto
  <2>1. /\ fg' \in Getters /\ fg'.state = "FG_TOREPLY_SOCKS_CONN" /\ fg'.body = fg.body
        /\ fg'.buf = fg.buf /\ fg'.rd = fg.rd /\ fg'.sockd = fg.sockd /\ fg'.spec = fg.spec
    BY <1>2, <1>4 DEF Getters, FgStates
  <2>2. Awaiting("socks-conn")'
    BY <1>1, <1>3, <2>1, AwaitingMore
  <2>3. Protocol'
    BY <1>3, <2>1, <2>2, NowAwaiting DEF WaitsFor
  <2> QED BY <1>1, <1>2, <1>4, <2>1, <2>3, WaitingStep
<1>5. CASE Returns("FG_ERR_SOCKSCONN") /\ fg' = fg
  <2>1. /\ run' = "back" /\ ret' = "FG_ERR_SOCKSCONN" /\ aborted' = aborted /\ ret' \in Broken
    BY <1>5 DEF Returns, Broken
  <2>2. GetterTypeOK'
    BY <1>1, <1>5, <2>1 DEF GetterInv, GetterTypeOK, FgCodes
  <2>3. Parked' /\ InProtocol' /\ Result'
    BY <2>1 DEF Parked, InProtocol, Result
  <2> QED BY <1>1, <1>5, <2>1, <2>2, <2>3, StepInSwitch
<1>6. CASE Avail >= len /\ Head1 = "conn-ok" /\ Goto /\ fg' = Connected
  <2>1. /\ fg.rd = 0 /\ req[fg.sockd] = <<>> /\ Avail = Len(fg.buf)
        /\ AllFit(fg.buf, rep[fg.sockd], pout[fg.sockd], "conn-ok", 0)
    BY <1>2, <1>3, <1>6, AnswerRead, SocksLengths, Kinds
  <2>2. /\ rep[fg.sockd] = <<>> /\ pout[fg.sockd] = <<>> /\ Len(fg.buf) = len /\ len \in Nat
    BY <1>6, <2>1, AllFitEnd, SocksLengths
  <2>3. /\ fg' \in Getters /\ fg'.state = "FG_REQUEST_HTTP" /\ fg'.rd = len
        /\ fg'.buf = fg.buf /\ fg'.sockd = fg.sockd /\ fg'.spec = fg.spec /\ fg'.body = fg.body
    <3>1. fg.rd + len = len /\ "FG_REQUEST_HTTP" \in FgStates
      BY <2>1, <2>2 DEF FgStates
    <3>2. fg' = [fg EXCEPT !.rd = len, !.state = "FG_REQUEST_HTTP", !.nextstate = "FG_REQUEST_HTTP"]
      BY <1>6, <3>1 DEF Connected
    <3> HIDE DEF len
    <3> QED BY <1>2, <2>2, <3>1, <3>2 DEF Getters
  <2>4. /\ run' = run /\ ret' = ret /\ aborted' = aborted
    BY <1>6 DEF Goto
  <2>5. GetterTypeOK'
    BY <1>1, <1>2, <2>2, <2>3, <2>4 DEF GetterTypeOK
  <2>6. Parked'
    BY <1>1, <1>2, <2>3, <2>4 DEF GetterInv, Parked
  <2>7. Ready(fg.spec)'
    BY <1>1, <2>1, <2>2, <2>3, SocksLengths DEF Ready, Clean
  <2>8. Protocol'
    BY <1>3, <2>3, <2>7, NowReady
  <2>9. Result'
    BY <1>1, <2>4 DEF Result
  <2> QED BY <1>1, <2>3, <2>4, <2>5, <2>6, <2>8, <2>9, StepInSwitch DEF InProtocol
<1> QED BY <1>4, <1>5, <1>6 DEF SocksConnReply

\* Opening a connection, with the one held so far closed, or with none held.
LEMMA ConnectKept ==
    ASSUME GetterTypeOK, Quiet, Tidy, NEW c \in Socks, ConnectOn(c, fg.sockd), fg'.sockd = c,
           UNCHANGED pout
    PROVE  /\ conn' \in [Socks -> {"free", "pending", "accepted", "closed"}]
           /\ cli' \in [Socks -> {"none", "connecting", "refused", "stray", "open", "closed"}]
           /\ req' \in [Socks -> Seq(MessageUnits)]
           /\ rep' \in [Socks -> Seq(ReplyUnits)]
           /\ Quiet' /\ Tidy' /\ Clean'
<1> DEFINE a == fg.sockd
           closing == CloseEnd(cli, a)
           dropped == DropData(rep, a)
<1>1. /\ conn \in [Socks -> {"free", "pending", "accepted", "closed"}]
      /\ cli \in [Socks -> {"none", "connecting", "refused", "stray", "open", "closed"}]
      /\ req \in [Socks -> Seq(MessageUnits)] /\ rep \in [Socks -> Seq(ReplyUnits)]
      /\ a \in Socks \cup {NoSock}
  BY DEF GetterTypeOK, Getters
<1>2. /\ conn[c] \in {"free", "closed"}
      /\ cli' = [closing EXCEPT ![c] = "connecting"] /\ req' = [req EXCEPT ![c] = <<>>]
      /\ rep' = [dropped EXCEPT ![c] = <<>>] /\ conn' = [conn EXCEPT ![c] = "free"]
  BY DEF ConnectOn, Unused
<1>3. /\ closing \in [Socks -> {"none", "connecting", "refused", "stray", "open", "closed"}]
      /\ \A d \in Socks : closing[d] \in {"connecting", "refused", "open"} => d # a /\ cli[d] = closing[d]
  BY <1>1, SocksAssumption DEF CloseEnd
<1>4. dropped \in [Socks -> Seq(ReplyUnits)]
  BY <1>1 DEF DropData
<1> HIDE DEF a, closing, dropped
<1>5. /\ conn' \in [Socks -> {"free", "pending", "accepted", "closed"}]
      /\ cli' \in [Socks -> {"none", "connecting", "refused", "stray", "open", "closed"}]
      /\ req' \in [Socks -> Seq(MessageUnits)]
      /\ rep' \in [Socks -> Seq(ReplyUnits)]
  BY <1>1, <1>2, <1>3, <1>4
<1>6. /\ Quiet' /\ req'[c] = <<>> /\ rep'[c] = <<>> /\ pout'[c] = <<>>
  BY <1>1, <1>2, <1>3, <1>4 DEF Quiet
<1>7. Tidy'
  <2> SUFFICES ASSUME NEW d \in Socks, cli'[d] \in {"connecting", "refused", "open"}, d # c PROVE FALSE
    BY DEF Tidy
  <2>1. closing[d] \in {"connecting", "refused", "open"}
    BY <1>2, <1>3
  <2> QED BY <1>3, <2>1 DEF Tidy, a
<1> QED BY <1>5, <1>6, <1>7 DEF Clean

\* Closing the connection that is held, or one that is closed.
LEMMA DisconnectKept ==
    ASSUME GetterTypeOK, Quiet, Tidy, Disconnect, UNCHANGED pout
    PROVE  /\ cli' \in [Socks -> {"none", "connecting", "refused", "stray", "open", "closed"}]
           /\ rep' \in [Socks -> Seq(ReplyUnits)]
           /\ conn' = conn /\ req' = req
           /\ Quiet' /\ Tidy'
<1>1. /\ cli \in [Socks -> {"none", "connecting", "refused", "stray", "open", "closed"}]
      /\ rep \in [Socks -> Seq(ReplyUnits)]
      /\ fg.sockd \in Socks \cup {NoSock}
  BY DEF GetterTypeOK, Getters
<1>2. /\ cli' = CloseEnd(cli, fg.sockd) /\ rep' = DropData(rep, fg.sockd) /\ conn' = conn /\ req' = req
  BY DEF Disconnect
<1>3. /\ cli' \in [Socks -> {"none", "connecting", "refused", "stray", "open", "closed"}]
      /\ \A d \in Socks : cli'[d] \in {"connecting", "refused", "open"} => d # fg.sockd /\ cli[d] = cli'[d]
  BY <1>1, <1>2, SocksAssumption DEF CloseEnd
<1>4. rep' \in [Socks -> Seq(ReplyUnits)]
  BY <1>1, <1>2 DEF DropData
<1>5. Quiet'
  BY <1>2, <1>3 DEF Quiet
<1>6. \A d \in Socks : cli'[d] \notin {"connecting", "refused", "open"}
  BY <1>3 DEF Tidy
<1> QED BY <1>2, <1>3, <1>4, <1>5, <1>6 DEF Tidy

\* A descriptor whose connect failed at once, on a connection nobody holds.
LEMMA LeftOpenKept ==
    ASSUME NEW f \in [Socks -> {"none", "connecting", "refused", "stray", "open", "closed"}], NEW c
    PROVE  /\ LeftOpen(f, c) \in [Socks -> {"none", "connecting", "refused", "stray", "open", "closed"}]
           /\ \A d \in Socks : LeftOpen(f, c)[d] \in {"connecting", "refused", "open"}
                                   => LeftOpen(f, c)[d] = f[d]
BY DEF LeftOpen

\* A connection to another address that fails, with the one held so far closed.
LEMMA MoveFailedKept ==
    ASSUME GetterTypeOK, Quiet, Tidy, UNCHANGED <<conn, req, pout>>,
           rep' = DropData(rep, fg.sockd),
           \/ cli' = CloseEnd(cli, fg.sockd)
           \/ \E c \in Socks : cli' = LeftOpen(CloseEnd(cli, fg.sockd), c)
    PROVE  /\ cli' \in [Socks -> {"none", "connecting", "refused", "stray", "open", "closed"}]
           /\ rep' \in [Socks -> Seq(ReplyUnits)]
           /\ Quiet' /\ Tidy'
<1> DEFINE closing == CloseEnd(cli, fg.sockd)
<1>1. /\ cli \in [Socks -> {"none", "connecting", "refused", "stray", "open", "closed"}]
      /\ rep \in [Socks -> Seq(ReplyUnits)]
      /\ fg.sockd \in Socks \cup {NoSock}
  BY DEF GetterTypeOK, Getters
<1>2. /\ closing \in [Socks -> {"none", "connecting", "refused", "stray", "open", "closed"}]
      /\ \A d \in Socks : closing[d] \in {"connecting", "refused", "open"} => d # fg.sockd /\ cli[d] = closing[d]
  BY <1>1, SocksAssumption DEF CloseEnd
<1>3. cli' = closing \/ \E c \in Socks : cli' = LeftOpen(closing, c)
  OBVIOUS
<1> HIDE DEF closing
<1>4. /\ cli' \in [Socks -> {"none", "connecting", "refused", "stray", "open", "closed"}]
      /\ \A d \in Socks : cli'[d] \in {"connecting", "refused", "open"} => d # fg.sockd /\ cli[d] = cli'[d]
  BY <1>2, <1>3, LeftOpenKept
<1>5. rep' \in [Socks -> Seq(ReplyUnits)]
  BY <1>1 DEF DropData
<1>6. Quiet'
  BY <1>4 DEF Quiet
<1>7. \A d \in Socks : cli'[d] \notin {"connecting", "refused", "open"}
  BY <1>4 DEF Tidy
<1> QED BY <1>4, <1>5, <1>6, <1>7 DEF Tidy

LEMMA SocksMovedStep ==
    ASSUME GetterInv, SocksMoved, UNCHANGED <<pout, downloads>>
    PROVE  GetterInv'
<1> DEFINE len == SocksLen["conn-ok"]
<1>1. /\ run = "switch" /\ fg.state = "FG_REPLY_SOCKS_CONN" /\ Avail >= len /\ Head1 = "conn-moved"
      /\ UNCHANGED <<pout, downloads>>
  BY DEF SocksMoved, At
<1>2. /\ ret \notin Broken /\ Protocol /\ fg \in Getters /\ fg.sockd \in Socks
      /\ fg.spec \in RequestKinds /\ GetterTypeOK /\ Len(fg.buf) < FgBufSize
      /\ fg.buf \in Seq(BufUnits) /\ Len(fg.buf) \in Nat
      /\ Quiet /\ Tidy /\ Counted /\ ~aborted
  BY <1>1, InSwitch DEF GetterInv, GetterTypeOK, Getters, Parked, NoAbort
<1>3. Awaiting("socks-conn") /\ fg.body = <<>>
  BY <1>1, <1>2 DEF Protocol, Trade, Body
<1>4. /\ fg.rd = 0 /\ req[fg.sockd] = <<>> /\ Avail = Len(fg.buf)
      /\ AllFit(fg.buf, rep[fg.sockd], pout[fg.sockd], "conn-moved", 0)
  BY <1>1, <1>2, <1>3, AnswerRead, SocksLengths, Kinds
<1>5. /\ "conn-moved" \in SocksReplies
  BY DEF SocksReplies
<1>6. Len(fg.buf) = len /\ len \in Nat
  BY <1>1, <1>4, <1>5, AllFitEnd, SocksLengths
<1>7. ASSUME NEW c \in Socks, ConnectOn(c, fg.sockd), fg' = Opened(Connected, c), Goto
      PROVE  GetterInv'
  <2>1. /\ fg' \in Getters /\ fg'.state = "FG_REQUEST_HTTP" /\ fg'.rd = len
        /\ fg'.buf = fg.buf /\ fg'.sockd = c /\ fg'.spec = fg.spec /\ fg'.body = fg.body
    <3>1. fg.rd + len = len /\ "FG_REQUEST_HTTP" \in FgStates
      BY <1>4, <1>6 DEF FgStates
    <3>2. fg' = [fg EXCEPT !.rd = len, !.state = "FG_REQUEST_HTTP", !.nextstate = "FG_REQUEST_HTTP",
                           !.sockd = c, !.events = "OUT"]
      BY <1>7, <3>1 DEF Connected, Opened
    <3> HIDE DEF len
    <3> QED BY <1>2, <1>6, <3>1, <3>2 DEF Getters
  <2>2. /\ run' = run /\ ret' = ret /\ aborted' = aborted
    BY <1>7 DEF Goto
  <2>3. /\ conn' \in [Socks -> {"free", "pending", "accepted", "closed"}]
        /\ cli' \in [Socks -> {"none", "connecting", "refused", "stray", "open", "closed"}]
        /\ req' \in [Socks -> Seq(MessageUnits)] /\ rep' \in [Socks -> Seq(ReplyUnits)]
        /\ Quiet' /\ Tidy' /\ Clean'
    BY <1>2, <1>7, <2>1, ConnectKept
  <2>4. GetterTypeOK'
    BY <1>2, <1>6, <2>1, <2>2, <2>3 DEF GetterTypeOK
  <2>5. Parked'
    BY <1>1, <1>2, <2>1, <2>2, SocksAssumption DEF GetterInv, Parked
  <2>6. Ready(fg.spec)'
    BY <1>6, <2>1, <2>3, SocksLengths DEF Ready
  <2>7. Protocol'
    BY <1>3, <2>1, <2>6, NowReady
  <2>8. Counted'
    BY <1>2, <2>1, CountKept
  <2> QED BY <1>1, <1>2, <2>2, <2>3, <2>4, <2>5, <2>7, <2>8 DEF GetterInv, InProtocol, Result, NoAbort
<1>8. ASSUME \/ cli' = CloseEnd(cli, fg.sockd)
             \/ \E c \in Socks : cli' = LeftOpen(CloseEnd(cli, fg.sockd), c),
             \E n \in Socks : fg' = [fg EXCEPT !.rd = @ + len, !.sockd = n],
             rep' = DropData(rep, fg.sockd), UNCHANGED <<conn, req>>, Returns("FG_ERR_SOCKSCONN")
      PROVE  GetterInv'
  <2>1. /\ run' = "back" /\ ret' = "FG_ERR_SOCKSCONN" /\ aborted' = aborted /\ ret' \in Broken
        /\ ret' \in FgCodes
    BY <1>8 DEF Returns, Broken, FgCodes
  <2>2. /\ fg' \in Getters /\ fg'.rd = len /\ fg'.buf = fg.buf /\ fg'.spec = fg.spec /\ fg'.body = fg.body
    <3>0. PICK n \in Socks : fg' = [fg EXCEPT !.rd = @ + len, !.sockd = n]
      BY <1>8
    <3>2. fg.rd + len = len
      BY <1>4, <1>6
    <3>1. fg' = [fg EXCEPT !.rd = len, !.sockd = n]
      BY <3>0, <3>2, Zenon
    <3> HIDE DEF len
    <3> QED BY <1>2, <1>6, <3>1 DEF Getters
  <2>3. /\ cli' \in [Socks -> {"none", "connecting", "refused", "stray", "open", "closed"}]
        /\ rep' \in [Socks -> Seq(ReplyUnits)] /\ conn' = conn /\ req' = req
        /\ Quiet' /\ Tidy'
    BY <1>1, <1>2, <1>8, MoveFailedKept
  <2>4. GetterTypeOK'
    BY <1>2, <1>6, <2>1, <2>2, <2>3 DEF GetterTypeOK
  <2>5. Parked' /\ InProtocol' /\ Result'
    BY <2>1 DEF Parked, InProtocol, Result
  <2>6. Counted'
    BY <1>2, <2>2, CountKept
  <2> QED BY <1>2, <2>1, <2>3, <2>4, <2>5, <2>6 DEF GetterInv, NoAbort
<1>9. ASSUME cli' = CloseEnd(cli, fg.sockd), fg' = [fg EXCEPT !.rd = @ + len]
      PROVE  fg' = [fg EXCEPT !.rd = @ + len, !.sockd = fg.sockd]
  BY <1>2, <1>9 DEF Getters
<1> QED BY <1>2, <1>7, <1>8, <1>9 DEF SocksMoved

LEMMA ReplyLengths ==
    /\ \A k \in ReplyKinds : k \in AnswerKinds /\ AnswerLen(k) = Total(k)
    /\ \A k \in Files : k # NotFound /\ Total(k) = HdrLen + FileLen[k] /\ FileLen[k] \in Nat
                        /\ k \in RequestKinds /\ k \in ReplyKinds /\ Reply(k) = k
    /\ \A k : k \notin Files => Reply(k) = NotFound
    /\ Total(NotFound) = NotFoundLen /\ NotFoundLen \in Nat /\ NotFoundLen > 0
    /\ HdrLen \in Nat /\ HdrLen > 0
<1>1. NotFound \notin Files /\ NotFound \notin SocksMessages /\ Files \cap SocksMessages = {}
  BY KindsAssumption, GetterAssumption
     DEF NotFound, SocksMessages, SocksRequests, Choices, SocksReplies
<1>2. \A k \in ReplyKinds : k \in AnswerKinds /\ AnswerLen(k) = Total(k)
  BY <1>1 DEF ReplyKinds, AnswerKinds, AnswerLen
<1>3. \A k \in Files : k # NotFound /\ Total(k) = HdrLen + FileLen[k] /\ FileLen[k] \in Nat
                       /\ k \in RequestKinds /\ k \in ReplyKinds /\ Reply(k) = k
  BY <1>1, SizesAssumption DEF Total, Reply, RequestKinds, ReplyKinds
<1>4. \A k : k \notin Files => Reply(k) = NotFound
  BY DEF Reply
<1>5. Total(NotFound) = NotFoundLen
  BY DEF Total
<1> QED BY <1>2, <1>3, <1>4, <1>5, SizesAssumption

LEMMA HttpReplyStep ==
    ASSUME GetterInv, HttpReply, UNCHANGED <<pout, downloads>>
    PROVE  GetterInv'
<1> DEFINE c == fg.sockd
           a == Reply(fg.spec)
<1>1. /\ run = "switch" /\ fg.state = "FG_REPLY_HTTP" /\ NetUnchanged
      /\ UNCHANGED <<conn, cli, req, rep>>
  BY DEF HttpReply, At, NetUnchanged, netVars
<1>2. /\ ret \notin Broken /\ Protocol /\ fg \in Getters /\ c \in Socks
      /\ fg.spec \in RequestKinds /\ GetterTypeOK
      /\ fg.buf \in Seq(BufUnits) /\ Len(fg.buf) \in Nat
  BY <1>1, InSwitch DEF GetterInv, GetterTypeOK, Getters
<1>3. Awaiting(fg.spec) /\ fg.body = <<>> /\ fg.rd = 0
  BY <1>1, <1>2 DEF Protocol, Trade, Body, Awaiting
<1>4. \/ fg.buf = <<>> /\ Ending(req[c], fg.spec) /\ rep[c] = <<>> /\ pout[c] = <<>>
      \/ req[c] = <<>> /\ AllFit(fg.buf, rep[c], pout[c], a, 0)
  BY <1>2, <1>3, AnswersOf DEF Awaiting
<1>5. a \in ReplyKinds /\ a \in AnswerKinds /\ AnswerLen(a) = Total(a)
  BY ReplyLengths DEF Reply, ReplyKinds
<1>6. Fits(fg.buf, a, 0)
  BY <1>4, <1>5, AllFitNothing DEF AllFit
<1>7. \A k, n : n \in Nat /\ n > 0 => (Holds(k, n) <=> k = a /\ n <= Len(fg.buf))
  BY <1>3, <1>6, HeldReply
<1> HIDE DEF a, c
<1>8. CASE /\ Holds(NotFound, NotFoundLen) /\ Returns("FG_ERR_404")
           /\ fg' = [fg EXCEPT !.rd = @ + NotFoundLen, !.state = "FG_SPEC",
                               !.nextstate = "FG_REQUEST_HTTP"]
  <2>1. NotFound = a /\ NotFoundLen <= Len(fg.buf) /\ fg.spec \notin Files /\ fg.buf # <<>>
    BY <1>2, <1>7, <1>8, ReplyLengths DEF a
  <2>2. req[c] = <<>> /\ rep[c] = <<>> /\ pout[c] = <<>> /\ Len(fg.buf) = NotFoundLen
    <3>1. AllFit(fg.buf, rep[c], pout[c], a, 0) /\ req[c] = <<>>
      BY <1>4, <2>1
    <3>2. 0 + Len(fg.buf) >= AnswerLen(a)
      BY <1>2, <1>5, <2>1, ReplyLengths
    <3>3. rep[c] = <<>> /\ pout[c] = <<>> /\ 0 + Len(fg.buf) = AnswerLen(a)
      BY <3>1, <3>2, AllFitEnd
    <3> QED BY <1>2, <1>5, <2>1, <3>1, <3>3, ReplyLengths
  <2>3. /\ fg' \in Getters /\ fg'.state = "FG_SPEC" /\ fg'.rd = NotFoundLen
        /\ fg'.buf = fg.buf /\ fg'.sockd = c /\ fg'.spec = fg.spec /\ fg'.body = fg.body
    <3>1. fg.rd + NotFoundLen = NotFoundLen /\ "FG_SPEC" \in FgStates /\ "FG_REQUEST_HTTP" \in FgStates
      BY <1>3, ReplyLengths DEF FgStates
    <3>2. fg' = [fg EXCEPT !.rd = NotFoundLen, !.state = "FG_SPEC", !.nextstate = "FG_REQUEST_HTTP"]
      BY <1>8, <3>1
    <3> QED BY <1>2, <3>1, <3>2, ReplyLengths DEF Getters, c
  <2>4. run' = "back" /\ ret' = "FG_ERR_404" /\ aborted' = aborted /\ ret' \in FgCodes
    BY <1>8 DEF Returns, FgCodes
  <2>5. GetterTypeOK'
    BY <1>1, <1>2, <2>2, <2>3, <2>4 DEF GetterTypeOK
  <2>6. Parked'
    <3>1. Len(fg'.buf) < FgBufSize
      BY <2>2, <2>3, GetterBufferAssumption
    <3>2. ret' \notin Broken => Persistent
      BY <2>4 DEF Broken
    <3> QED BY <2>3, <2>4, <3>1, <3>2 DEF Parked
  <2>7. Protocol'
    BY <1>1, <2>2, <2>3, NowSpec DEF Clean
  <2>8. Result'
    BY <2>1, <2>3, <2>4 DEF Result
  <2> QED BY <1>1, <2>3, <2>4, <2>5, <2>6, <2>7, <2>8, StepInSwitch DEF InProtocol, c
<1>9. CASE /\ ~Holds(NotFound, NotFoundLen) /\ \A k \in Files : ~Holds(k, HdrLen)
           /\ fg' = [fg EXCEPT !.state = "FG_RECEIVE", !.nextstate = "FG_REPLY_HTTP"]
           /\ Goto
  <2>1. Len(fg.buf) < FgBufSize
    <3>1. a = NotFound => ~(NotFoundLen <= Len(fg.buf))
      BY <1>7, <1>9, ReplyLengths
    <3>2. a \in Files => ~(HdrLen <= Len(fg.buf))
      BY <1>7, <1>9, ReplyLengths
    <3>3. a = NotFound \/ a \in Files
      BY <1>5 DEF ReplyKinds
    <3> QED BY <1>2, <3>1, <3>2, <3>3, GetterBufferAssumption, ReplyLengths
  <2>2. /\ fg' \in Getters /\ fg'.state = "FG_RECEIVE" /\ fg'.nextstate = "FG_REPLY_HTTP"
        /\ fg'.buf = fg.buf /\ fg'.rd = fg.rd /\ fg'.sockd = fg.sockd /\ fg'.spec = fg.spec
        /\ fg'.body = fg.body
    BY <1>2, <1>9 DEF Getters, FgStates
  <2>3. Awaiting(fg.spec)'
    BY <1>1, <1>3, <2>2, AwaitingMore
  <2>4. Protocol'
    BY <1>3, <2>2, <2>3, NowAwaiting DEF WaitsFor
  <2> QED BY <1>1, <1>9, <2>1, <2>2, <2>4, WaitingStep
<1>10. ASSUME NEW k \in Files, Holds(k, HdrLen), Goto,
              fg' = [fg EXCEPT !.expected = FileLen[k], !.rd = HeaderEnd(k),
                               !.state = "FG_CHECK_DOWNLOAD"]
       PROVE  GetterInv'
  <2>1. k = a /\ HdrLen <= Len(fg.buf) /\ fg.buf # <<>>
    BY <1>2, <1>7, <1>10, ReplyLengths
  <2>2. fg.spec = k
    BY <2>1, ReplyLengths DEF a
  <2>3. HeaderEnd(k) = HdrLen
    BY <1>6, <2>1, HeaderFirst
  <2>4. /\ fg' \in Getters /\ fg'.state = "FG_CHECK_DOWNLOAD" /\ fg'.rd = HdrLen
        /\ fg'.expected = FileLen[fg.spec]
        /\ fg'.buf = fg.buf /\ fg'.sockd = c /\ fg'.spec = fg.spec /\ fg'.body = fg.body
    <3>1. "FG_CHECK_DOWNLOAD" \in FgStates /\ FileLen[k] \in Nat /\ HdrLen \in Nat
      BY ReplyLengths DEF FgStates
    <3>2. fg' = [fg EXCEPT !.expected = FileLen[k], !.rd = HdrLen, !.state = "FG_CHECK_DOWNLOAD"]
      BY <1>10, <2>3
    <3> QED BY <1>2, <2>2, <3>1, <3>2 DEF Getters, c
  <2>5. run' = run /\ ret' = ret /\ aborted' = aborted
    BY <1>10 DEF Goto
  <2>6. GetterTypeOK'
    BY <1>1, <1>2, <2>1, <2>4, <2>5 DEF GetterTypeOK
  <2>7. Parked'
    BY <1>1, <1>2, <2>4, <2>5, SocksAssumption DEF GetterInv, Parked
  <2>8. Downloading'
    <3>1. req[c] = <<>> /\ AllFit(fg.buf, rep[c], pout[c], a, 0)
      BY <1>4, <2>1
    <3>2. AllFit(SubSeq(fg.buf, HdrLen + 1, Len(fg.buf)), rep[c], pout[c], a, 0 + HdrLen)
      BY <1>2, <2>1, <3>1, AllFitSkip, ReplyLengths
    <3>3. 0 + HdrLen = HdrLen + Len(fg'.body)
      BY <1>3, <2>4, ReplyLengths
    <3>4. AllFit(Rest', rep'[c], pout'[c], fg'.spec, HdrLen + Len(fg'.body))
      BY <1>1, <2>1, <2>2, <2>4, <3>2, <3>3 DEF Rest
    <3> QED BY <1>1, <2>2, <2>4, <3>1, <3>4 DEF Downloading
  <2>9. Protocol'
    BY <2>4, <2>8, NowDownloading
  <2>10. Result'
    BY <1>1, <2>5 DEF Result
  <2> QED BY <1>1, <2>4, <2>5, <2>6, <2>7, <2>9, <2>10, StepInSwitch DEF InProtocol, c
<1> QED BY <1>8, <1>9, <1>10 DEF HttpReply

\* Where SEND and RECEIVE stop.
LEMMA DieStep ==
    ASSUME GetterInv, Die, UNCHANGED <<pout, downloads>>
    PROVE  GetterInv'
<1>1. /\ run' = "back" /\ ret' = "FG_ERR_FATAL" /\ aborted' = aborted /\ ret' \in Broken
      /\ ret' \in FgCodes /\ fg' = FgStopped /\ Disconnect
  BY DEF Die, Returns, Broken, FgCodes
<1>2. /\ fg \in Getters /\ GetterTypeOK /\ Quiet /\ Tidy /\ Counted /\ ~aborted
  BY DEF GetterInv, GetterTypeOK, NoAbort
<1>3. /\ fg' \in Getters /\ fg'.rd = fg.rd /\ fg'.buf = fg.buf /\ fg'.spec = fg.spec
      /\ fg'.body = fg.body
  BY <1>1, <1>2 DEF FgStopped, Getters, FgStates
<1>4. /\ cli' \in [Socks -> {"none", "connecting", "refused", "stray", "open", "closed"}]
      /\ rep' \in [Socks -> Seq(ReplyUnits)] /\ conn' = conn /\ req' = req
      /\ Quiet' /\ Tidy'
  BY <1>1, <1>2, DisconnectKept
<1>5. GetterTypeOK'
  BY <1>1, <1>2, <1>3, <1>4 DEF GetterTypeOK
<1>6. Parked' /\ InProtocol' /\ Result'
  BY <1>1 DEF Parked, InProtocol, Result
<1>7. Counted'
  BY <1>2, <1>3, CountKept
<1> QED BY <1>1, <1>2, <1>4, <1>5, <1>6, <1>7 DEF GetterInv, NoAbort

LEMMA WouldBlockStep ==
    ASSUME GetterInv, run = "switch", fg.state \in {"FG_SEND", "FG_RECEIVE"},
           Returns("FG_ERR_WOULDBLOCK"), fg' = fg, NetUnchanged, UNCHANGED <<pout, downloads>>
    PROVE  GetterInv'
<1>1. /\ run' = "back" /\ ret' = "FG_ERR_WOULDBLOCK" /\ aborted' = aborted
      /\ ret' \in FgCodes /\ UNCHANGED <<conn, cli, req, rep>>
  BY DEF Returns, FgCodes, NetUnchanged, netVars
<1>2. ret \notin Broken /\ Protocol
  BY InSwitch
<1>3. GetterTypeOK'
  BY <1>1 DEF GetterInv, GetterTypeOK
<1>4. Parked'
  BY <1>1, <1>2 DEF GetterInv, Parked, Broken
<1>5. Protocol'
  BY <1>1, <1>2, SameProtocol
<1>6. Result'
  BY <1>1 DEF Result
<1> QED BY <1>1, <1>3, <1>4, <1>5, <1>6, StepInSwitch DEF InProtocol

\* Request m goes out, or another part of it; it ends where the buffer does.
LEMMA SendStep ==
    ASSUME GetterInv, Send, UNCHANGED <<pout, downloads>>
    PROVE  GetterInv'
<1> DEFINE c == fg.sockd
           n == Smaller(Avail, ReqCap - Len(req[c]))
           left == SubSeq(fg.buf, fg.rd + n + 1, Len(fg.buf))
           gone == SubSeq(fg.buf, fg.rd + 1, fg.rd + n)
<1>1. run = "switch" /\ fg.state = "FG_SEND" /\ UNCHANGED <<pout, downloads>>
  BY DEF Send, At
<1>2. /\ ret \notin Broken /\ Protocol /\ fg \in Getters /\ c \in Socks /\ fg.spec \in RequestKinds
      /\ GetterTypeOK /\ Quiet /\ Tidy /\ Counted /\ ~aborted
      /\ fg.buf \in Seq(BufUnits) /\ Len(fg.buf) \in Nat /\ fg.rd \in Nat /\ fg.rd <= Len(fg.buf)
      /\ Len(fg.buf) < FgBufSize /\ req \in [Socks -> Seq(MessageUnits)] /\ ReqCap \in Nat
      /\ FgBufSize \in Nat
  BY <1>1, InSwitch, GetterAssumption, GetterBufferAssumption
     DEF GetterInv, GetterTypeOK, Getters, Parked, NoAbort
<1>3. CASE Die
  BY <1>3, DieStep
<1>4. CASE Returns("FG_ERR_WOULDBLOCK") /\ fg' = fg /\ NetUnchanged
  BY <1>1, <1>4, WouldBlockStep
<1>5. ASSUME cli[c] = "open", n > 0,
             req' = [req EXCEPT ![c] = IF conn[c] = "closed" THEN @ ELSE @ \o gone],
             fg' = Drained(n), Goto, UNCHANGED <<conn, cli, rep>>
      PROVE  GetterInv'
  <2>1. PICK m \in MessageKinds :
           /\ Sending(m)
           /\ \/ fg.nextstate = "FG_TOREPLY_SOCKS_INIT" /\ m = "socks-init"
              \/ fg.nextstate = "FG_TOREPLY_SOCKS_CONN" /\ m = "socks-conn"
              \/ fg.nextstate = "FG_TOREPLY_HTTP" /\ m = fg.spec
    BY <1>1, <1>2, Kinds DEF Protocol, Trade
  <2>2. /\ Unfinished(req[c], m) /\ Ending(Rest, m) /\ rep[c] = <<>> /\ pout[c] = <<>>
        /\ fg.body = <<>>
    BY <1>1, <1>2, <2>1 DEF Sending, Protocol, Body
  <2>3. n \in Nat /\ n <= Avail /\ fg.rd + n <= Len(fg.buf) /\ Avail = Len(fg.buf) - fg.rd
    <3>1. Len(req[c]) \in Nat
      BY <1>2
    <3>2. Avail \in Nat
      BY <1>2 DEF Avail
    <3>3. n \in Int /\ n <= Avail
      BY <1>2, <3>1, <3>2 DEF Smaller
    <3> QED BY <1>2, <1>5, <3>3 DEF Avail
  <2> HIDE DEF n
  <2>4. /\ Rest \in Seq(BufUnits) /\ Len(Rest) = Len(fg.buf) - fg.rd
        /\ gone = SubSeq(Rest, 1, n) /\ left = SubSeq(Rest, n + 1, Len(Rest))
    <3>1. fg.buf \in Seq(BufUnits) /\ fg.rd \in Nat /\ n \in Nat /\ fg.rd + n <= Len(fg.buf)
      BY <1>2, <2>3
    <3> QED BY <3>1, PieceOfRest DEF Rest
  <2>5. run' = run /\ ret' = ret /\ aborted' = aborted
    BY <1>5 DEF Goto
  <2> HIDE DEF left, gone
  <2>6. req'[c] = IF conn[c] = "closed" THEN <<>> ELSE req[c] \o gone
    BY <1>2, <1>5 DEF Quiet
  <2>7. CASE fg.rd + n = Len(fg.buf)
    <3>1. /\ fg' \in Getters /\ fg'.state = fg.nextstate /\ fg'.buf = <<>> /\ fg'.rd = 0
          /\ fg'.sockd = c /\ fg'.spec = fg.spec /\ fg'.body = fg.body
      <4>1. fg' = [fg EXCEPT !.rd = 0, !.buf = <<>>, !.state = fg.nextstate]
        BY <1>5, <2>7 DEF Drained
      <4>2. <<>> \in Seq(BufUnits)
        OBVIOUS
      <4> QED BY <1>2, <4>1, <4>2 DEF Getters, c
    <3>2. Ending(req[c] \o gone, m)
      <4>1. n = Len(Rest)
        BY <1>2, <2>3, <2>4, <2>7
      <4> QED BY <2>2, <2>4, <4>1, SendAll
    <3>3. req' \in [Socks -> Seq(MessageUnits)]
      <4>1. req[c] \o gone \in Seq(MessageUnits)
        BY <3>2 DEF Ending
      <4> QED BY <1>2, <1>5, <4>1
    <3>4. GetterTypeOK'
      BY <1>1, <1>2, <1>5, <2>5, <3>1, <3>3 DEF GetterTypeOK
    <3>5. Awaiting(m)'
      <4>1. CASE conn[c] = "closed"
        <5>1. PICK a \in Answers(m) : a \in AnswerKinds
          BY AnswersOf
        <5>2. AllFit(<<>>, <<>>, <<>>, a, 0)
          BY <5>1, AllFitNothing
        <5> QED BY <1>1, <1>5, <2>2, <2>6, <3>1, <4>1, <5>1, <5>2 DEF Awaiting
      <4>2. CASE conn[c] # "closed"
        BY <1>1, <1>5, <2>2, <2>6, <3>1, <3>2, <4>2 DEF Awaiting
      <4> QED BY <4>1, <4>2
    <3>6. Protocol'
      BY <2>1, <2>2, <3>1, <3>5, NowAwaiting DEF WaitsFor
    <3>7. Parked'
      BY <1>1, <1>2, <2>1, <2>5, <3>1, SocksAssumption DEF GetterInv, Parked
    <3>8. Quiet'
      BY <1>1, <1>2, <1>5, <2>6 DEF Quiet
    <3>9. Counted' /\ Result' /\ Tidy' /\ NoAbort'
      BY <1>1, <1>2, <1>5, <2>5, <3>1, CountKept DEF Result, Tidy, NoAbort, c
    <3> QED BY <3>4, <3>6, <3>7, <3>8, <3>9 DEF GetterInv, InProtocol
  <2>8. CASE fg.rd + n # Len(fg.buf)
    <3>1. /\ fg' \in Getters /\ fg'.state = "FG_SEND" /\ fg'.nextstate = fg.nextstate
          /\ fg'.buf = fg.buf /\ fg'.rd = fg.rd + n
          /\ fg'.sockd = c /\ fg'.spec = fg.spec /\ fg'.body = fg.body
      <4>1. fg' = [fg EXCEPT !.rd = fg.rd + n] /\ fg.rd + n \in Nat
        BY <1>2, <1>5, <2>3, <2>8 DEF Drained
      <4> QED BY <1>1, <1>2, <4>1 DEF Getters, c
    <3>2. Unfinished(req[c] \o gone, m) /\ Ending(left, m)
      <4>1. n \in 0..Len(Rest) /\ n < Len(Rest)
        BY <1>2, <2>3, <2>4, <2>8
      <4> QED BY <2>2, <2>4, <4>1, SendPart
    <3>3. req' \in [Socks -> Seq(MessageUnits)]
      <4>1. req[c] \o gone \in Seq(MessageUnits)
        BY <3>2 DEF Unfinished
      <4> QED BY <1>2, <1>5, <4>1
    <3>4. GetterTypeOK'
      BY <1>1, <1>2, <1>5, <2>3, <2>5, <3>1, <3>3 DEF GetterTypeOK
    <3>5. Sending(m)'
      <4>1. Unfinished(<<>>, m)
        BY DEF Unfinished
      <4>2. Rest' = left
        BY <3>1 DEF Rest, left
      <4> QED BY <1>1, <1>5, <2>2, <2>6, <3>1, <3>2, <4>1, <4>2 DEF Sending
    <3>6. Protocol'
      BY <2>1, <2>2, <3>1, <3>5, NowSending
    <3>7. Parked'
      BY <1>1, <1>2, <2>5, <3>1, SocksAssumption DEF GetterInv, Parked
    <3>8. Quiet'
      BY <1>1, <1>2, <1>5, <2>6 DEF Quiet
    <3>9. Counted' /\ Result' /\ Tidy' /\ NoAbort'
      BY <1>1, <1>2, <1>5, <2>5, <3>1, CountKept DEF Result, Tidy, NoAbort, c
    <3> QED BY <3>4, <3>6, <3>7, <3>8, <3>9 DEF GetterInv, InProtocol
  <2> QED BY <2>7, <2>8
<1> QED BY <1>3, <1>4, <1>5 DEF Send

LEMMA ReceiveStep ==
    ASSUME GetterInv, Receive, UNCHANGED <<pout, downloads>>
    PROVE  GetterInv'
<1> DEFINE c == fg.sockd
           n == Smaller(FgBufSize - Len(fg.buf), Len(rep[c]))
           fetched == SubSeq(rep[c], 1, n)
           left == SubSeq(rep[c], n + 1, Len(rep[c]))
<1>1. run = "switch" /\ fg.state = "FG_RECEIVE" /\ UNCHANGED <<pout, downloads>>
  BY DEF Receive, At
<1>2. /\ ret \notin Broken /\ Protocol /\ fg \in Getters /\ c \in Socks /\ fg.spec \in RequestKinds
      /\ GetterTypeOK /\ Quiet /\ Tidy /\ Counted /\ ~aborted
      /\ fg.buf \in Seq(BufUnits) /\ Len(fg.buf) \in Nat /\ fg.rd \in Nat /\ fg.rd <= Len(fg.buf)
      /\ Len(fg.buf) < FgBufSize /\ rep \in [Socks -> Seq(ReplyUnits)] /\ FgBufSize \in Nat
  BY <1>1, InSwitch, GetterBufferAssumption
     DEF GetterInv, GetterTypeOK, Getters, Parked, NoAbort
<1>3. CASE Die
  BY <1>3, DieStep
<1>4. CASE Returns("FG_ERR_WOULDBLOCK") /\ fg' = fg /\ NetUnchanged
  BY <1>1, <1>4, WouldBlockStep
<1>5. ASSUME n > 0, fg' = [fg EXCEPT !.buf = @ \o fetched, !.state = fg.nextstate],
             rep' = [rep EXCEPT ![c] = left], Goto, UNCHANGED <<conn, cli, req>>
      PROVE  GetterInv'
  <2>1. /\ rep[c] \in Seq(ReplyUnits) /\ Len(rep[c]) \in Nat /\ n \in 0..Len(rep[c]) /\ n \in Nat
        /\ rep[c] # <<>>
    <3>1. rep[c] \in Seq(ReplyUnits) /\ Len(rep[c]) \in Nat
      BY <1>2
    <3>2. n \in Int /\ n <= Len(rep[c])
      BY <1>2, <3>1 DEF Smaller
    <3> QED BY <1>5, <3>1, <3>2
  <2> HIDE DEF n
  <2>2. /\ fetched \in Seq(ReplyUnits) /\ left \in Seq(ReplyUnits) /\ fetched \in Seq(BufUnits) /\ Len(fetched) = n
    <3>1. fetched \in Seq(ReplyUnits) /\ left \in Seq(ReplyUnits) /\ Len(fetched) = n
      BY <2>1, Pieces
    <3> QED BY <3>1 DEF BufUnits
  <2>3. run' = run /\ ret' = ret /\ aborted' = aborted
    BY <1>5 DEF Goto
  <2> DEFINE b == fg.buf \o fetched
  <2>4. b \in Seq(BufUnits) /\ Len(b) = Len(fg.buf) + n
    BY <1>2, <2>2, Concatenation
  <2>5. rep'[c] = left /\ rep' \in [Socks -> Seq(ReplyUnits)]
    BY <1>2, <1>5, <2>2
  <2>6. /\ fg' \in Getters /\ fg'.state = fg.nextstate /\ fg'.nextstate = fg.nextstate
        /\ fg'.buf = b /\ fg'.rd = fg.rd /\ fg'.expected = fg.expected
        /\ fg'.sockd = c /\ fg'.spec = fg.spec /\ fg'.body = fg.body
    <3>1. fg' = [fg EXCEPT !.buf = b, !.state = fg.nextstate]
      BY <1>5
    <3> HIDE DEF b
    <3> QED BY <1>2, <2>4, <3>1 DEF Getters, c
  <2>7. GetterTypeOK'
    <3> HIDE DEF b
    <3>1. fg.rd <= Len(b)
      BY <1>2, <2>1, <2>4
    <3>2. fg'.rd <= Len(fg'.buf)
      BY <2>6, <3>1
    <3> QED BY <1>1, <1>2, <1>5, <2>3, <2>5, <2>6, <3>2 DEF GetterTypeOK
  <2>8. Quiet'
    BY <1>1, <1>2, <1>5 DEF Quiet
  <2>9. Counted' /\ Result' /\ Tidy' /\ NoAbort'
    BY <1>1, <1>2, <1>5, <2>3, <2>6, CountKept DEF Result, Tidy, NoAbort, c
  <2>10. SUFFICES Protocol' /\ Parked'
    BY <2>7, <2>8, <2>9 DEF GetterInv, InProtocol
  <2>11. CASE fg.nextstate = "FG_CHECK_DOWNLOAD"
    <3>1. /\ Downloading /\ fg.rd = 0 /\ fg.buf = <<>>
      BY <1>1, <1>2, <2>11 DEF Protocol, Body, Downloading
    <3>2. /\ fg.spec \in Files /\ fg.expected = FileLen[fg.spec] /\ req[c] = <<>>
          /\ AllFit(fg.buf, rep[c], pout[c], fg.spec, HdrLen + Len(fg.body))
      <4>1. Rest = fg.buf
        BY <3>1 DEF Rest
      <4> QED BY <3>1, <4>1 DEF Downloading
    <3>3. HdrLen + Len(fg.body) \in Nat
      BY <1>2, SizesAssumption DEF Getters
    <3>4. AllFit(b, left, pout[c], fg.spec, HdrLen + Len(fg.body))
      BY <2>1, <3>2, <3>3, AllFitReceive
    <3>5. Rest' = b
      BY <2>4, <2>6, <3>1 DEF Rest
    <3>6. Downloading'
      BY <1>1, <1>5, <2>5, <2>6, <2>11, <3>2, <3>4, <3>5 DEF Downloading
    <3>7. Protocol'
      BY <2>6, <2>11, <3>6, NowDownloading
    <3>8. Parked'
      BY <1>1, <1>2, <2>3, <2>6, <2>11, SocksAssumption DEF GetterInv, Parked
    <3> QED BY <3>7, <3>8
  <2>12. CASE fg.nextstate # "FG_CHECK_DOWNLOAD"
    <3>1. PICK m \in MessageKinds :
             /\ Awaiting(m) /\ fg.body = <<>>
             /\ \/ fg.nextstate = "FG_REPLY_SOCKS_INIT" /\ m = "socks-init"
                \/ fg.nextstate = "FG_REPLY_SOCKS_CONN" /\ m = "socks-conn"
                \/ fg.nextstate = "FG_REPLY_HTTP" /\ m = fg.spec
      BY <1>1, <1>2, <2>12, Kinds DEF Protocol, Trade, Body
    <3>2. PICK a \in Answers(m) : /\ fg.rd = 0 /\ req[c] = <<>>
                                  /\ AllFit(fg.buf, rep[c], pout[c], a, 0)
      BY <2>1, <3>1 DEF Awaiting
    <3>3. AllFit(b, left, pout[c], a, 0)
      BY <2>1, <3>2, AllFitReceive
    <3>4. Awaiting(m)'
      BY <1>1, <1>5, <2>5, <2>6, <3>2, <3>3 DEF Awaiting
    <3>5. Protocol'
      BY <2>6, <3>1, <3>4, NowAwaiting DEF WaitsFor
    <3>6. fg.nextstate # "FG_REPLY_HTTP" => Len(b) < FgBufSize
      <4>1. ASSUME fg.nextstate # "FG_REPLY_HTTP" PROVE a \in SocksMessages
        BY <3>1, <4>1, AnswersOf, SocksLengths
      <4>2. 0 + Len(b) <= AnswerLen(a) /\ Len(b) \in Nat
        BY <3>3 DEF AllFit, Fits
      <4>3. \A x \in SocksMessages : SocksLen[x] < FgBufSize
        BY SocksLengths, GetterBufferAssumption
      <4>4. ASSUME a \in SocksMessages PROVE AnswerLen(a) < FgBufSize /\ AnswerLen(a) \in Nat
        BY <4>3, <4>4, SocksLengths
      <4> HIDE DEF b
      <4> QED BY <1>2, <4>1, <4>2, <4>4
    <3>7. Parked'
      BY <1>1, <1>2, <2>3, <2>6, <3>1, <3>6, SocksAssumption DEF GetterInv, Parked
    <3> QED BY <3>5, <3>7
  <2> QED BY <2>11, <2>12
<1> QED BY <1>3, <1>4, <1>5 DEF Receive

\* What was counted and what is in the buffer are the body so far.
LEMMA CheckDownloadStep ==
    ASSUME GetterInv, CheckDownload, UNCHANGED <<pout, downloads>>
    PROVE  GetterInv'
<1> DEFINE c == fg.sockd
           body == fg.body \o Rest
           taken == [fg EXCEPT !.body = @ \o Rest, !.all = @ + Len(Rest), !.buf = <<>>, !.rd = 0]
<1>1. run = "switch" /\ fg.state = "FG_CHECK_DOWNLOAD" /\ UNCHANGED <<pout, downloads>>
  BY DEF CheckDownload, At
<1>2. /\ ret \notin Broken /\ Protocol /\ fg \in Getters /\ c \in Socks
      /\ GetterTypeOK /\ Quiet /\ Tidy /\ Counted /\ ~aborted
      /\ fg.body \in Seq(ReplyUnits) /\ Len(fg.body) \in Nat /\ fg.all \in Nat /\ FgBufSize \in Nat
      /\ FgBufSize > 0
  BY <1>1, InSwitch, GetterBufferAssumption, ReplyLengths
     DEF GetterInv, GetterTypeOK, Getters, NoAbort
<1>3. /\ fg.spec \in Files /\ fg.expected = FileLen[fg.spec] /\ req[c] = <<>>
      /\ AllFit(Rest, rep[c], pout[c], fg.spec, HdrLen + Len(fg.body))
  BY <1>1, <1>2 DEF Protocol, Body, Downloading
<1>4. /\ HdrLen \in Nat /\ FileLen[fg.spec] \in Nat /\ fg.spec \in AnswerKinds
      /\ AnswerLen(fg.spec) = HdrLen + FileLen[fg.spec] /\ fg.spec \in RequestKinds
      /\ HdrLen + Len(fg.body) \in Nat
  BY <1>2, <1>3, ReplyLengths
<1>5. Fits(body, fg.spec, HdrLen) /\ Len(body) = Len(fg.body) + Len(Rest)
  <2>1. Fits(fg.body, fg.spec, HdrLen)
    BY <1>2, <1>3, <1>4 DEF Counted, BodyInOrder, Fits
  <2>2. Fits(Rest, fg.spec, HdrLen + Len(fg.body))
    BY <1>3 DEF AllFit
  <2> QED BY <1>4, <2>1, <2>2, FitsJoin
<1>6. /\ body \in Seq(ReplyUnits) /\ Len(body) \in Nat /\ Len(body) <= FileLen[fg.spec]
      /\ \A i \in 1..Len(body) : body[i] = <<fg.spec, HdrLen + i>>
      /\ Len(Rest) \in Nat
  <2>1. Len(Rest) \in Nat
    BY <1>3 DEF AllFit, Fits
  <2>2. /\ body \in Seq(ReplyUnits) /\ Len(body) \in Nat
        /\ HdrLen + Len(body) <= HdrLen + FileLen[fg.spec]
        /\ \A i \in 1..Len(body) : body[i] = <<fg.spec, HdrLen + i>>
    BY <1>4, <1>5 DEF Fits
  <2> HIDE DEF body
  <2>3. Len(body) <= FileLen[fg.spec]
    BY <1>4, <2>2
  <2> QED BY <2>1, <2>2, <2>3
<1> HIDE DEF body
<1>7. /\ taken \in Getters /\ taken.rd = 0 /\ taken.buf = <<>> /\ taken.sockd = c
      /\ taken.spec = fg.spec /\ taken.body = body /\ taken.expected = fg.expected
  <2>1. taken = [fg EXCEPT !.body = body, !.all = fg.all + Len(Rest), !.buf = <<>>, !.rd = 0]
    BY DEF body
  <2>2. fg.all + Len(Rest) \in Nat /\ <<>> \in Seq(BufUnits)
    BY <1>2, <1>6
  <2> QED BY <1>2, <1>6, <2>1, <2>2 DEF Getters, c
<1> HIDE DEF taken
<1>8. /\ \/ /\ Enough(Len(body), fg.expected)
            /\ Returns("FG_OK_200")
            /\ \/ /\ Persistent
                  /\ fg' = [taken EXCEPT !.state = "FG_SPEC"]
                  /\ UNCHANGED <<conn, cli, req, rep>>
               \/ /\ ~Persistent
                  /\ fg' = [taken EXCEPT !.state = "FG_SPEC", !.sockd = NoSock]
                  /\ Disconnect
         \/ /\ ~Enough(Len(body), fg.expected)
            /\ fg' = [taken EXCEPT !.state = "FG_RECEIVE", !.nextstate = "FG_CHECK_DOWNLOAD"]
            /\ Goto /\ UNCHANGED <<conn, cli, req, rep>>
  BY <1>2, <1>7 DEF CheckDownload, taken, Rest, netVars
<1>9. \A i \in 1..Len(body) : i <= FileLen[fg.spec]
  BY <1>4, <1>6
<1>10. ASSUME fg'.body = body, fg'.spec = fg.spec PROVE Counted'
  BY <1>3, <1>6, <1>9, <1>10 DEF Counted, BodyInOrder
<1>11. CASE ~Enough(Len(body), fg.expected)
  <2>1. /\ fg' = [taken EXCEPT !.state = "FG_RECEIVE", !.nextstate = "FG_CHECK_DOWNLOAD"]
        /\ Goto /\ UNCHANGED <<conn, cli, req, rep>>
    BY <1>8, <1>11
  <2>2. /\ fg' \in Getters /\ fg'.state = "FG_RECEIVE" /\ fg'.nextstate = "FG_CHECK_DOWNLOAD"
        /\ fg'.rd = 0 /\ fg'.buf = <<>> /\ fg'.sockd = c
        /\ fg'.spec = fg.spec /\ fg'.body = body /\ fg'.expected = fg.expected
    BY <1>7, <2>1 DEF Getters, FgStates
  <2>3. run' = run /\ ret' = ret /\ aborted' = aborted
    BY <2>1 DEF Goto
  <2>4. GetterTypeOK'
    BY <1>1, <1>2, <2>1, <2>2, <2>3 DEF GetterTypeOK
  <2>5. Downloading'
    <3>1. AllFit(<<>>, rep[c], pout[c], fg.spec, HdrLen + Len(fg.body) + Len(Rest))
      BY <1>3, <1>4, AllFitTaken
    <3>2. HdrLen + Len(fg.body) + Len(Rest) = HdrLen + Len(body)
      BY <1>2, <1>4, <1>5, <1>6
    <3>3. Rest' = <<>>
      BY <2>2 DEF Rest
    <3> QED BY <1>1, <1>3, <2>1, <2>2, <3>1, <3>2, <3>3 DEF Downloading
  <2>6. Protocol'
    BY <2>2, <2>5, NowDownloading
  <2>7. Parked'
    <3>1. Len(fg'.buf) < FgBufSize
      BY <1>2, <2>2
    <3> QED BY <1>1, <1>2, <1>4, <2>2, <2>3, <3>1, SocksAssumption DEF Parked
  <2>8. Quiet' /\ Tidy'
    BY <1>1, <1>2, <2>1, <2>2 DEF Quiet, Tidy, c
  <2>9. Result' /\ NoAbort'
    BY <1>1, <1>2, <2>3 DEF Result, NoAbort
  <2> QED BY <1>10, <2>2, <2>4, <2>6, <2>7, <2>8, <2>9 DEF GetterInv, InProtocol
<1>12. CASE Enough(Len(body), fg.expected)
  <2>1. Len(body) = FileLen[fg.spec]
    BY <1>3, <1>4, <1>6, <1>12 DEF Enough
  <2>2. rep[c] = <<>> /\ pout[c] = <<>>
    <3>1. HdrLen + Len(fg.body) + Len(Rest) >= AnswerLen(fg.spec)
      BY <1>2, <1>4, <1>5, <1>6, <2>1
    <3> QED BY <1>3, <1>4, <3>1, AllFitEnd
  <2>3. /\ run' = "back" /\ ret' = "FG_OK_200" /\ aborted' = aborted /\ ret' \in FgCodes
        /\ ret' \notin Broken
    BY <1>8, <1>12 DEF Returns, FgCodes, Broken
  <2>4. /\ fg' \in Getters /\ fg'.state = "FG_SPEC" /\ fg'.rd = 0 /\ fg'.buf = <<>>
        /\ fg'.spec = fg.spec /\ fg'.body = body
        /\ fg'.sockd = IF Persistent THEN c ELSE NoSock
    BY <1>7, <1>8, <1>12 DEF Getters, FgStates
  <2>5. /\ cli' \in [Socks -> {"none", "connecting", "refused", "stray", "open", "closed"}]
        /\ rep' \in [Socks -> Seq(ReplyUnits)] /\ conn' = conn /\ req' = req
        /\ Quiet' /\ Tidy'
    <3>1. CASE Persistent
      BY <1>1, <1>2, <1>8, <1>12, <2>4, <3>1 DEF GetterTypeOK, Quiet, Tidy, c
    <3>2. CASE ~Persistent
      BY <1>1, <1>2, <1>8, <1>12, <3>2, DisconnectKept
    <3> QED BY <3>1, <3>2
  <2>6. GetterTypeOK'
    BY <1>1, <1>2, <2>3, <2>4, <2>5 DEF GetterTypeOK
  <2>7. Protocol'
    <3>1. fg'.sockd # NoSock => Clean'
      BY <1>1, <1>3, <1>8, <1>12, <2>2, <2>4 DEF Clean
    <3> QED BY <2>4, <3>1, NowSpec
  <2>8. Parked'
    BY <1>2, <2>3, <2>4 DEF Parked
  <2>9. Result' /\ NoAbort'
    BY <1>2, <1>3, <2>1, <2>3, <2>4 DEF Result, NoAbort
  <2> QED BY <1>10, <2>4, <2>5, <2>6, <2>7, <2>8, <2>9 DEF GetterInv, InProtocol
<1> QED BY <1>11, <1>12

LEMMA ActivationStep ==
    ASSUME GetterInv, Activation
    PROVE  GetterInv'
BY EnterStep, NeedSpecStep, RequestsStep, ToRepliesStep, SocksInitReplyStep, SocksConnReplyStep,
   SocksMovedStep, HttpReplyStep, SendStep, ReceiveStep, CheckDownloadStep
   DEF Activation, GetterStep

-----------------------------------------------------------------------------
(* The caller.                                                             *)

\* What filegetter_set_specs makes of a filegetter.
LEMMA NewSpecs ==
    ASSUME GetterTypeOK, NEW k \in RequestKinds, NEW g, g = SetSpecs(fg, k)
    PROVE  /\ g \in Getters /\ g.spec = k /\ g.buf = <<>> /\ g.rd = 0 /\ g.body = <<>>
           /\ g.state = fg.state /\ g.sockd = fg.sockd
<1>1. fg \in Getters /\ <<>> \in Seq(BufUnits) /\ <<>> \in Seq(ReplyUnits)
  BY DEF GetterTypeOK
<1>2. g = [fg EXCEPT !.spec = k, !.buf = <<>>, !.rd = 0, !.expected = 0, !.body = <<>>]
  BY DEF SetSpecs
<1>3. [fg EXCEPT !.spec = k, !.buf = <<>>, !.rd = 0] \in Getters
  BY <1>1 DEF Getters
<1>4. g = [[fg EXCEPT !.spec = k, !.buf = <<>>, !.rd = 0] EXCEPT !.expected = 0, !.body = <<>>]
  BY <1>2
<1>5. g \in Getters
  BY <1>1, <1>3, <1>4 DEF Getters
<1>6. /\ g.spec = k /\ g.buf = <<>> /\ g.rd = 0 /\ g.body = <<>>
      /\ g.state = fg.state /\ g.sockd = fg.sockd
  BY <1>1, <1>2 DEF Getters
<1> QED BY <1>5, <1>6

LEMMA CallDownloadStep ==
    ASSUME GetterInv, CallDownload
    PROVE  GetterInv'
<1>1. /\ fg.state = "FG_SPEC" /\ ret \notin Broken /\ ret' = NoCode /\ run' = "no"
      /\ downloads' = downloads + 1 /\ aborted' = aborted /\ pout' = pout
      /\ ret' \notin Broken /\ ret' \in FgCodes
  BY DEF CallDownload, Broken, FgCodes, NoCode
<1>2. /\ Protocol /\ fg \in Getters /\ GetterTypeOK /\ Quiet /\ Tidy /\ Counted /\ ~aborted
      /\ ~Persistent => fg.sockd = NoSock
      /\ downloads' \in Nat /\ FgBufSize > 0
  BY <1>1, GetterBufferAssumption, ReplyLengths
     DEF GetterInv, GetterTypeOK, InProtocol, Parked, NoAbort
<1>3. PICK k \in RequestKinds :
         ReuseConnection(k) \/ (\E c \in Socks : NewConnection(k, c)) \/ ConnectFails(k)
  BY DEF CallDownload
<1> DEFINE g == SetSpecs(fg, k)
<1>4. /\ g \in Getters /\ g.spec = k /\ g.buf = <<>> /\ g.rd = 0 /\ g.body = <<>>
      /\ g.state = "FG_SPEC" /\ g.sockd = fg.sockd
  BY <1>1, <1>2, NewSpecs
<1> HIDE DEF g
<1>5. ASSUME fg'.body = <<>>, fg'.spec = k
      PROVE  Counted' /\ Result' /\ NoAbort'
  BY <1>1, <1>2, <1>5, ReplyLengths DEF Counted, BodyInOrder, Result, NoAbort
<1>6. CASE ReuseConnection(k)
  <2>1. /\ fg.sockd # NoSock /\ UNCHANGED <<conn, cli, req, rep>>
        /\ fg' = [g EXCEPT !.state = "FG_REQUEST_HTTP", !.events = "OUT"]
    BY <1>6 DEF ReuseConnection, g, netVars
  <2>2. /\ fg' \in Getters /\ fg'.spec = k /\ fg'.buf = <<>> /\ fg'.rd = 0 /\ fg'.body = <<>>
        /\ fg'.state = "FG_REQUEST_HTTP" /\ fg'.sockd = fg.sockd
    BY <1>4, <2>1 DEF Getters, FgStates
  <2>3. GetterTypeOK'
    BY <1>1, <1>2, <2>1, <2>2 DEF GetterTypeOK
  <2>4. Clean'
    BY <1>1, <1>2, <2>1, <2>2 DEF Protocol, Clean
  <2>5. Protocol'
    <3>1. Ready(fg.spec)'
      BY <2>2, <2>4 DEF Ready
    <3> QED BY <2>2, <3>1, NowReady
  <2>6. Parked'
    <3>1. Len(fg'.buf) < FgBufSize
      BY <1>2, <2>2
    <3> QED BY <1>1, <2>1, <2>2, <3>1 DEF Parked
  <2>7. Quiet' /\ Tidy'
    BY <1>1, <1>2, <2>1, <2>2 DEF Quiet, Tidy
  <2> QED BY <1>5, <2>2, <2>3, <2>5, <2>6, <2>7 DEF GetterInv, InProtocol
<1>7. ASSUME NEW c \in Socks, NewConnection(k, c) PROVE GetterInv'
  <2>1. /\ fg.sockd = NoSock /\ ConnectOn(c, fg.sockd)
        /\ fg' = [g EXCEPT !.sockd = c, !.events = "OUT", !.state = FirstState]
    BY <1>2, <1>7 DEF NewConnection, Opened, g
  <2>2. FirstState \in {"FG_REQUEST_SOCKS_INIT", "FG_REQUEST_HTTP"}
    BY DEF FirstState
  <2>3. /\ fg' \in Getters /\ fg'.spec = k /\ fg'.buf = <<>> /\ fg'.rd = 0 /\ fg'.body = <<>>
        /\ fg'.state = FirstState /\ fg'.sockd = c
    BY <1>4, <2>1, <2>2 DEF Getters, FgStates
  <2>4. /\ conn' \in [Socks -> {"free", "pending", "accepted", "closed"}]
        /\ cli' \in [Socks -> {"none", "connecting", "refused", "stray", "open", "closed"}]
        /\ req' \in [Socks -> Seq(MessageUnits)] /\ rep' \in [Socks -> Seq(ReplyUnits)]
        /\ Quiet' /\ Tidy' /\ Clean'
    BY <1>1, <1>2, <2>1, <2>3, ConnectKept
  <2>5. GetterTypeOK'
    BY <1>1, <1>2, <2>3, <2>4 DEF GetterTypeOK
  <2>6. Protocol'
    <3>1. Ready("socks-init")' /\ Ready(fg.spec)'
      BY <2>3, <2>4 DEF Ready
    <3> QED BY <2>2, <2>3, <3>1, NowReady
  <2>7. Parked'
    <3>1. Len(fg'.buf) < FgBufSize
      BY <1>2, <2>3
    <3> QED BY <1>1, <2>2, <2>3, <3>1, SocksAssumption DEF Parked
  <2> QED BY <1>5, <2>3, <2>4, <2>5, <2>6, <2>7 DEF GetterInv, InProtocol
<1>8. CASE ConnectFails(k)
  <2>1. /\ fg' = g /\ UNCHANGED <<conn, req, rep>> /\ fg.sockd = NoSock
        /\ cli' = cli \/ \E c \in Socks : cli' = LeftOpen(cli, c)
    BY <1>2, <1>8 DEF ConnectFails, g
  <2>6. /\ cli' \in [Socks -> {"none", "connecting", "refused", "stray", "open", "closed"}]
        /\ \A d \in Socks : cli'[d] \in {"connecting", "refused", "open"} => cli'[d] = cli[d]
    <3>1. cli \in [Socks -> {"none", "connecting", "refused", "stray", "open", "closed"}]
      BY <1>2 DEF GetterTypeOK
    <3> QED BY <2>1, <3>1, LeftOpenKept
  <2>2. GetterTypeOK'
    BY <1>1, <1>2, <1>4, <2>1, <2>6 DEF GetterTypeOK
  <2>3. Protocol'
    BY <1>4, <2>1, NowSpec
  <2>4. Parked'
    <3>1. Len(fg'.buf) < FgBufSize
      BY <1>2, <1>4, <2>1
    <3> QED BY <1>1, <1>4, <2>1, <3>1 DEF Parked
  <2>5. Quiet' /\ Tidy'
    BY <1>1, <1>2, <1>4, <2>1, <2>6 DEF Quiet, Tidy
  <2> QED BY <1>4, <1>5, <2>1, <2>2, <2>3, <2>4, <2>5 DEF GetterInv, InProtocol
<1> QED BY <1>3, <1>6, <1>7, <1>8

LEMMA CallActivateStep ==
    ASSUME GetterInv, CallActivate
    PROVE  GetterInv'
<1>1. /\ run' = "enter" /\ ret \notin Broken /\ fg.sockd # NoSock /\ run # "switch"
      /\ UNCHANGED <<fg, ret, aborted, conn, cli, req, rep, pout, downloads>>
  BY DEF CallActivate, FgReady, Idling, netVars
<1>2. GetterTypeOK'
  BY <1>1 DEF GetterInv, GetterTypeOK
<1>3. Parked'
  BY <1>1 DEF GetterInv, Parked
<1>4. Protocol'
  BY <1>1, SameProtocol DEF GetterInv, InProtocol
<1>5. Counted'
  BY <1>1, CountKept DEF GetterInv
<1> QED BY <1>1, <1>2, <1>3, <1>4, <1>5 DEF GetterInv, InProtocol, Quiet, Tidy, Result, NoAbort

LEMMA CallRestartStep ==
    ASSUME GetterInv, CallRestart
    PROVE  GetterInv'
<1>1. /\ fg' = FgStarted /\ ret' = NoCode /\ run' = "no" /\ Disconnect
      /\ UNCHANGED <<aborted, pout, downloads>> /\ ret' \in FgCodes /\ ret' \notin Broken
  BY DEF CallRestart, FgCodes, Broken, NoCode
<1>2. /\ GetterTypeOK /\ Quiet /\ Tidy /\ ~aborted /\ downloads \in Nat /\ FgBufSize > 0
      /\ conn \in [Socks -> {"free", "pending", "accepted", "closed"}]
  BY GetterBufferAssumption, ReplyLengths DEF GetterInv, GetterTypeOK, NoAbort
<1>3. /\ fg' \in Getters /\ fg'.state = "FG_SPEC" /\ fg'.sockd = NoSock /\ fg'.buf = <<>>
      /\ fg'.rd = 0 /\ fg'.body = <<>> /\ fg'.spec = NoKind
  <2>1. <<>> \in Seq(BufUnits) /\ <<>> \in Seq(ReplyUnits)
    OBVIOUS
  <2> QED BY <1>1, <2>1 DEF FgStarted, FgZero, Getters, FgStates
<1>4. /\ cli' \in [Socks -> {"none", "connecting", "refused", "stray", "open", "closed"}]
      /\ rep' \in [Socks -> Seq(ReplyUnits)] /\ conn' = conn /\ req' = req
      /\ Quiet' /\ Tidy'
  BY <1>1, <1>2, DisconnectKept
<1>5. GetterTypeOK'
  BY <1>1, <1>2, <1>3, <1>4 DEF GetterTypeOK
<1>6. Protocol'
  BY <1>3, NowSpec
<1>7. Parked'
  <2>1. Len(fg'.buf) < FgBufSize
    BY <1>2, <1>3
  <2> QED BY <1>1, <1>3, <2>1 DEF Parked
<1>8. Counted'
  BY <1>3, ReplyLengths DEF Counted, BodyInOrder
<1>9. Result' /\ NoAbort'
  BY <1>1, <1>2 DEF Result, NoAbort
<1> QED BY <1>4, <1>5, <1>6, <1>7, <1>8, <1>9 DEF GetterInv, InProtocol

-----------------------------------------------------------------------------
(* The network and the peer.                                               *)

LEMMA NetworkStep ==
    ASSUME GetterInv, Network
    PROVE  GetterInv'
<1>1. PICK c \in Socks : Establish(c)
  BY DEF Network
<1>2. /\ UNCHANGED <<req, rep, fg, run, ret, aborted, pout, downloads>> /\ cli[c] = "connecting"
      /\ \/ cli' = [cli EXCEPT ![c] = "open"] /\ conn' = [conn EXCEPT ![c] = "pending"]
         \/ cli' = [cli EXCEPT ![c] = "refused"] /\ conn' = conn
  BY <1>1 DEF Network, Establish, getterVars
<1>3. GetterTypeOK'
  BY <1>2 DEF GetterInv, GetterTypeOK
<1>4. Quiet' /\ Tidy'
  BY <1>2 DEF GetterInv, GetterTypeOK, Quiet, Tidy
<1>5. Parked' /\ Result' /\ NoAbort'
  BY <1>2 DEF GetterInv, Parked, Result, NoAbort
<1>6. InProtocol'
  BY <1>2, SameProtocol DEF GetterInv, InProtocol
<1>7. Counted'
  BY <1>2, CountKept DEF GetterInv
<1> QED BY <1>3, <1>4, <1>5, <1>6, <1>7 DEF GetterInv

\* What a step of the peer on connection c has to show: it leaves the client alone, the other
\* connections, and, if c is the one held, what the protocol says of it.
LEMMA PeerStep ==
    ASSUME GetterInv, UNCHANGED <<cli, getterVars, downloads>>, NEW c \in Socks,
           conn' \in [Socks -> {"free", "pending", "accepted", "closed"}],
           req' \in [Socks -> Seq(MessageUnits)],
           rep' \in [Socks -> Seq(ReplyUnits)], pout' \in [Socks -> Seq(ReplyUnits)],
           Quiet',
           \A d \in Socks \ {c} : req'[d] = req[d] /\ rep'[d] = rep[d] /\ pout'[d] = pout[d],
           Protocol /\ ret \notin Broken /\ c = fg.sockd => Protocol'
    PROVE  GetterInv'
<1>1. UNCHANGED <<cli, fg, run, ret, aborted, downloads>>
  BY DEF getterVars
<1>2. GetterTypeOK'
  BY <1>1 DEF GetterInv, GetterTypeOK
<1>3. Tidy' /\ Parked' /\ Result' /\ NoAbort'
  BY <1>1 DEF GetterInv, Tidy, Parked, Result, NoAbort
<1>4. Counted'
  BY <1>1, CountKept DEF GetterInv
<1>5. ASSUME ret' \notin Broken PROVE Protocol'
  <2>1. Protocol /\ ret \notin Broken
    BY <1>1, <1>5 DEF GetterInv, InProtocol
  <2>2. CASE fg.sockd = NoSock
    BY <1>1, <2>1, <2>2, NowSpec DEF GetterInv, Parked
  <2>3. CASE fg.sockd # NoSock /\ fg.sockd # c
    <3>1. fg.sockd \in Socks \ {c}
      BY <2>3 DEF GetterInv, GetterTypeOK, Getters
    <3> QED BY <1>1, <2>1, <3>1, SameProtocol
  <2> QED BY <2>1, <2>2, <2>3
<1> QED BY <1>2, <1>3, <1>4, <1>5 DEF GetterInv, InProtocol

LEMMA PeerAcceptStep ==
    ASSUME GetterInv, NEW c \in Socks, PeerAccept(c)
    PROVE  GetterInv'
<1>1. /\ conn[c] = "pending" /\ conn' = [conn EXCEPT ![c] = "accepted"]
      /\ pout' = [pout EXCEPT ![c] = <<>>] /\ UNCHANGED <<cli, req, rep, getterVars, downloads>>
      /\ fg' = fg
  BY DEF PeerAccept, netVars, getterVars
<1>2. /\ conn \in [Socks -> {"free", "pending", "accepted", "closed"}]
      /\ pout \in [Socks -> Seq(ReplyUnits)] /\ req \in [Socks -> Seq(MessageUnits)]
      /\ rep \in [Socks -> Seq(ReplyUnits)] /\ Quiet
  BY DEF GetterInv, GetterTypeOK
<1>3. pout' \in [Socks -> Seq(ReplyUnits)]
  <2>1. <<>> \in Seq(ReplyUnits)
    OBVIOUS
  <2> QED BY <1>1, <1>2, <2>1
<1>4. pout'[c] = pout[c]
  BY <1>1, <1>2 DEF Quiet
<1>5. Quiet'
  BY <1>1, <1>2 DEF Quiet
<1>6. Protocol /\ ret \notin Broken /\ c = fg.sockd => Protocol'
  BY <1>1, <1>4, SameProtocol
<1> QED BY <1>1, <1>2, <1>3, <1>5, <1>6, PeerStep

\* A step of the peer on the connection that is held, stage by stage.
LEMMA StageByStage ==
    ASSUME GetterInv, Protocol, ret \notin Broken, fg' = fg, Clean => Clean',
           \A m \in MessageKinds : Sending(m) => Sending(m)',
           \A m \in MessageKinds : Awaiting(m) => Awaiting(m)',
           Downloading => Downloading'
    PROVE  Protocol'
<1>1. \A m \in MessageKinds : Ready(m) => Ready(m)'
  BY DEF Ready
<1>2. /\ "socks-init" \in MessageKinds /\ "socks-conn" \in MessageKinds
      /\ fg.state # "FG_SPEC" => fg.spec \in MessageKinds
  BY Kinds DEF GetterInv, Parked
<1> QED BY <1>1, <1>2 DEF Protocol, Trade, Body

LEMMA AnswerTypes ==
    ASSUME NEW a \in AnswerKinds
    PROVE  /\ AnswerUnits(a) \in Seq(ReplyUnits) /\ Fits(AnswerUnits(a), a, 0)
<1>1. AnswerUnits(a) = [i \in 1..AnswerLen(a) |-> <<a, i>>]
  BY DEF AnswerUnits, AnswerLen
<1>2. AnswerLen(a) \in Nat
  BY AnswerLengths
<1>3. AnswerUnits(a) \in Seq(ReplyUnits) /\ Len(AnswerUnits(a)) = AnswerLen(a)
  BY <1>1, <1>2 DEF ReplyUnits
<1>4. \A i \in 1..Len(AnswerUnits(a)) : AnswerUnits(a)[i] = <<a, 0 + i>>
  BY <1>1, <1>2, <1>3
<1> QED BY <1>2, <1>3, <1>4 DEF Fits

LEMMA PeerReadStep ==
    ASSUME GetterInv, NEW c \in Socks, PeerRead(c)
    PROVE  GetterInv'
<1>1. /\ conn[c] = "accepted" /\ req[c] # <<>> /\ req' = [req EXCEPT ![c] = Tail(@)]
      /\ UNCHANGED <<conn, cli, rep, getterVars, downloads>> /\ fg' = fg
  BY DEF PeerRead, getterVars
<1>2. /\ conn \in [Socks -> {"free", "pending", "accepted", "closed"}]
      /\ pout \in [Socks -> Seq(ReplyUnits)] /\ req \in [Socks -> Seq(MessageUnits)]
      /\ rep \in [Socks -> Seq(ReplyUnits)] /\ Quiet
      /\ pout[c] \in Seq(ReplyUnits) /\ req[c] \in Seq(MessageUnits)
  BY DEF GetterInv, GetterTypeOK
<1>3. Tail(req[c]) \in Seq(MessageUnits) /\ Head(req[c]) \in MessageUnits
      /\ Head(req[c]).k \in MessageKinds
  <2>1. Tail(req[c]) \in Seq(MessageUnits) /\ Head(req[c]) \in MessageUnits
    BY <1>1, <1>2
  <2> QED BY <2>1 DEF MessageUnits
<1>4. \/ ~Head(req[c]).last /\ pout' = pout
      \/ /\ Head(req[c]).last
         /\ \E a \in Answers(Head(req[c]).k) : pout' = [pout EXCEPT ![c] = @ \o AnswerUnits(a)]
  BY Zenon DEF PeerRead
<1>5. pout' \in [Socks -> Seq(ReplyUnits)] /\ \A d \in Socks \ {c} : pout'[d] = pout[d]
  <2>1. ASSUME NEW a \in Answers(Head(req[c]).k), pout' = [pout EXCEPT ![c] = @ \o AnswerUnits(a)]
        PROVE  pout' \in [Socks -> Seq(ReplyUnits)] /\ \A d \in Socks \ {c} : pout'[d] = pout[d]
    <3>1. AnswerUnits(a) \in Seq(ReplyUnits)
      BY <1>3, AnswersOf, AnswerTypes
    <3>2. pout[c] \o AnswerUnits(a) \in Seq(ReplyUnits)
      BY <1>2, <3>1
    <3> QED BY <1>2, <2>1, <3>2
  <2> QED BY <1>2, <1>4, <2>1
<1>6. req' \in [Socks -> Seq(MessageUnits)] /\ req'[c] = Tail(req[c])
      /\ \A d \in Socks \ {c} : req'[d] = req[d]
  BY <1>1, <1>2, <1>3
<1>7. Quiet'
  BY <1>1, <1>2, <1>5, <1>6 DEF Quiet
<1>8. ASSUME Protocol, c = fg.sockd, ret \notin Broken PROVE Protocol'
  <2>1. ~Clean /\ ~Downloading
    BY <1>1, <1>8 DEF Clean, Downloading
  <2>2. ASSUME NEW m \in MessageKinds, Sending(m) PROVE Sending(m)'
    <3>1. Unfinished(req[c], m) /\ Ending(Rest, m) /\ rep[c] = <<>> /\ pout[c] = <<>>
      BY <1>8, <2>2 DEF Sending
    <3>2. ~Head(req[c]).last /\ Unfinished(Tail(req[c]), m)
      BY <1>1, <3>1, ReadUnfinished
    <3>3. pout' = pout
      BY <1>4, <3>2
    <3>4. Rest' = Rest
      BY <1>1 DEF Rest
    <3> QED BY <1>1, <1>6, <1>8, <3>1, <3>2, <3>3, <3>4 DEF Sending
  <2>3. ASSUME NEW m \in MessageKinds, Awaiting(m) PROVE Awaiting(m)'
    <3>1. /\ fg.rd = 0 /\ Ending(req[c], m) /\ fg.buf = <<>> /\ rep[c] = <<>> /\ pout[c] = <<>>
      BY <1>1, <1>8, <2>3 DEF Awaiting
    <3>2. /\ Head(req[c]).k = m
          /\ Head(req[c]).last => Tail(req[c]) = <<>>
          /\ ~Head(req[c]).last => Ending(Tail(req[c]), m)
      BY <3>1, ReadEnding
    <3>3. CASE ~Head(req[c]).last
      <4>1. pout' = pout /\ Ending(Tail(req[c]), m)
        BY <1>4, <3>2, <3>3
      <4> QED BY <1>1, <1>6, <1>8, <3>1, <4>1 DEF Awaiting
    <3>4. CASE Head(req[c]).last
      <4>1. PICK a \in Answers(m) : pout' = [pout EXCEPT ![c] = @ \o AnswerUnits(a)]
        BY <1>4, <3>2, <3>4
      <4>2. AnswerUnits(a) \in Seq(ReplyUnits) /\ Fits(AnswerUnits(a), a, 0) /\ a \in AnswerKinds
        BY AnswersOf, AnswerTypes
      <4>3. pout'[c] = AnswerUnits(a)
        <5>1. <<>> \o AnswerUnits(a) = AnswerUnits(a)
          BY <4>2
        <5> QED BY <1>2, <3>1, <4>1, <5>1
      <4>4. AllFit(<<>>, <<>>, AnswerUnits(a), a, 0)
        <5>1. Fits(<<>>, a, 0)
          BY <4>2, AnswerLengths, NothingFits
        <5>2. 0 + Len(<<>>) = 0 /\ 0 + Len(<<>>) + Len(<<>>) = 0
          OBVIOUS
        <5> QED BY <4>2, <5>1, <5>2 DEF AllFit
      <4>5. req'[c] = <<>>
        BY <1>6, <3>2, <3>4
      <4> QED BY <1>1, <1>8, <3>1, <4>3, <4>4, <4>5 DEF Awaiting
    <3> QED BY <3>3, <3>4
  <2> QED BY <1>1, <1>8, <2>1, <2>2, <2>3, StageByStage
<1> QED BY <1>1, <1>2, <1>5, <1>6, <1>7, <1>8, PeerStep

LEMMA PeerSendStep ==
    ASSUME GetterInv, NEW c \in Socks, PeerSend(c)
    PROVE  GetterInv'
<1>1. /\ conn[c] = "accepted" /\ UNCHANGED <<conn, cli, req, getterVars, downloads>> /\ fg' = fg
  BY DEF PeerSend, getterVars
<1>2. /\ conn \in [Socks -> {"free", "pending", "accepted", "closed"}]
      /\ pout \in [Socks -> Seq(ReplyUnits)] /\ req \in [Socks -> Seq(MessageUnits)]
      /\ rep \in [Socks -> Seq(ReplyUnits)] /\ Quiet /\ SndCap \in Nat
      /\ pout[c] \in Seq(ReplyUnits) /\ rep[c] \in Seq(ReplyUnits)
  BY SizesAssumption DEF GetterInv, GetterTypeOK
<1>3. PICK n \in 1..Smaller(Len(pout[c]), SndCap - Len(rep[c])) :
         /\ rep' = [rep EXCEPT ![c] = @ \o SubSeq(pout[c], 1, n)]
         /\ pout' = [pout EXCEPT ![c] = SubSeq(@, n + 1, Len(@))]
  BY DEF PeerSend
<1>4. n \in 0..Len(pout[c]) /\ pout[c] # <<>>
  <2>1. Len(pout[c]) \in Nat /\ Len(rep[c]) \in Nat
    BY <1>2
  <2>2. n \in Int /\ 1 <= n /\ n <= Len(pout[c])
    BY <1>2, <1>3, <2>1 DEF Smaller
  <2>3. n \in 0..Len(pout[c]) /\ Len(pout[c]) # 0
    BY <2>1, <2>2
  <2> QED BY <2>3
<1> DEFINE r == rep[c] \o SubSeq(pout[c], 1, n)
           o == SubSeq(pout[c], n + 1, Len(pout[c]))
<1>5. r \in Seq(ReplyUnits) /\ o \in Seq(ReplyUnits)
  <2>1. SubSeq(pout[c], 1, n) \in Seq(ReplyUnits) /\ o \in Seq(ReplyUnits)
    BY <1>2, <1>4, Pieces
  <2> QED BY <1>2, <2>1
<1>6. /\ rep' = [rep EXCEPT ![c] = r] /\ pout' = [pout EXCEPT ![c] = o]
  BY <1>3
<1> HIDE DEF r, o
<1>7. /\ rep' \in [Socks -> Seq(ReplyUnits)] /\ pout' \in [Socks -> Seq(ReplyUnits)]
      /\ rep'[c] = r /\ pout'[c] = o
      /\ \A d \in Socks \ {c} : rep'[d] = rep[d] /\ pout'[d] = pout[d]
  BY <1>2, <1>5, <1>6
<1>8. Quiet'
  BY <1>1, <1>2, <1>7 DEF Quiet
<1>9. ASSUME Protocol, c = fg.sockd, ret \notin Broken PROVE Protocol'
  <2>1. ~Clean /\ \A m : ~Sending(m)
    BY <1>4, <1>9 DEF Clean, Sending
  <2>2. ASSUME NEW m \in MessageKinds, Awaiting(m) PROVE Awaiting(m)'
    <3>1. PICK a \in Answers(m) : /\ fg.rd = 0 /\ req[c] = <<>>
                                  /\ AllFit(fg.buf, rep[c], pout[c], a, 0)
      BY <1>4, <1>9, <2>2 DEF Awaiting
    <3>2. AllFit(fg.buf, r, o, a, 0)
      BY <1>4, <3>1, AllFitSent DEF r, o
    <3> QED BY <1>1, <1>7, <1>9, <3>1, <3>2 DEF Awaiting
  <2>3. ASSUME Downloading PROVE Downloading'
    <3>1. /\ fg.spec \in Files /\ fg.expected = FileLen[fg.spec] /\ req[c] = <<>>
          /\ fg.state = "FG_RECEIVE" => fg.rd = 0 /\ fg.buf = <<>>
          /\ AllFit(Rest, rep[c], pout[c], fg.spec, HdrLen + Len(fg.body))
      BY <1>9, <2>3 DEF Downloading
    <3>2. HdrLen + Len(fg.body) \in Nat
      BY ReplyLengths DEF GetterInv, GetterTypeOK, Getters
    <3>3. AllFit(Rest, r, o, fg.spec, HdrLen + Len(fg.body))
      BY <1>4, <3>1, <3>2, AllFitSent DEF r, o
    <3>4. Rest' = Rest
      BY <1>1 DEF Rest
    <3> QED BY <1>1, <1>7, <1>9, <3>1, <3>3, <3>4 DEF Downloading
  <2> QED BY <1>1, <1>9, <2>1, <2>2, <2>3, StageByStage
<1> QED BY <1>1, <1>2, <1>7, <1>8, <1>9, PeerStep

LEMMA PeerCloseStep ==
    ASSUME GetterInv, NEW c \in Socks, PeerClose(c)
    PROVE  GetterInv'
<1>1. /\ conn[c] \in {"pending", "accepted"} /\ conn' = [conn EXCEPT ![c] = "closed"]
      /\ req' = [req EXCEPT ![c] = <<>>] /\ pout' = [pout EXCEPT ![c] = <<>>]
      /\ UNCHANGED <<cli, rep, getterVars, downloads>> /\ fg' = fg
  BY DEF PeerClose, getterVars
<1>2. /\ conn \in [Socks -> {"free", "pending", "accepted", "closed"}]
      /\ pout \in [Socks -> Seq(ReplyUnits)] /\ req \in [Socks -> Seq(MessageUnits)]
      /\ rep \in [Socks -> Seq(ReplyUnits)] /\ Quiet
  BY DEF GetterInv, GetterTypeOK
<1>3. /\ pout' \in [Socks -> Seq(ReplyUnits)] /\ req' \in [Socks -> Seq(MessageUnits)]
      /\ pout'[c] = <<>> /\ req'[c] = <<>>
      /\ \A d \in Socks \ {c} : req'[d] = req[d] /\ pout'[d] = pout[d]
  <2>1. <<>> \in Seq(ReplyUnits) /\ <<>> \in Seq(MessageUnits)
    OBVIOUS
  <2> QED BY <1>1, <1>2, <2>1
<1>4. Quiet'
  BY <1>1, <1>2, <1>3 DEF Quiet
<1>5. ASSUME Protocol, c = fg.sockd, ret \notin Broken PROVE Protocol'
  <2>1. Clean => Clean'
    BY <1>1, <1>3, <1>5 DEF Clean
  <2>2. ASSUME NEW m \in MessageKinds, Sending(m) PROVE Sending(m)'
    <3>1. Unfinished(<<>>, m)
      BY DEF Unfinished
    <3>2. Rest' = Rest
      BY <1>1 DEF Rest
    <3> QED BY <1>1, <1>3, <1>5, <2>2, <3>1, <3>2 DEF Sending
  <2>3. ASSUME NEW m \in MessageKinds, Awaiting(m) PROVE Awaiting(m)'
    <3>1. \E a \in Answers(m) : AllFit(fg.buf, rep[c], <<>>, a, 0)
      <4>1. CASE Ending(req[c], m) /\ fg.buf = <<>> /\ rep[c] = <<>>
        <5>1. PICK a \in Answers(m) : a \in AnswerKinds
          BY AnswersOf
        <5> QED BY <4>1, <5>1, AllFitNothing
      <4>2. ASSUME NEW a \in Answers(m), AllFit(fg.buf, rep[c], pout[c], a, 0)
            PROVE  AllFit(fg.buf, rep[c], <<>>, a, 0)
        BY <4>2, AllFitCut
      <4> QED BY <1>5, <2>3, <4>1, <4>2 DEF Awaiting
    <3> QED BY <1>1, <1>3, <1>5, <2>3, <3>1 DEF Awaiting
  <2>4. ASSUME Downloading PROVE Downloading'
    <3>1. /\ fg.spec \in Files /\ fg.expected = FileLen[fg.spec] /\ req[c] = <<>>
          /\ fg.state = "FG_RECEIVE" => fg.rd = 0 /\ fg.buf = <<>>
          /\ AllFit(Rest, rep[c], pout[c], fg.spec, HdrLen + Len(fg.body))
      BY <1>5, <2>4 DEF Downloading
    <3>2. HdrLen + Len(fg.body) \in Nat
      BY ReplyLengths DEF GetterInv, GetterTypeOK, Getters
    <3>3. AllFit(Rest, rep[c], <<>>, fg.spec, HdrLen + Len(fg.body))
      BY <3>1, <3>2, AllFitCut
    <3>4. Rest' = Rest
      BY <1>1 DEF Rest
    <3> QED BY <1>1, <1>3, <1>5, <3>1, <3>3, <3>4 DEF Downloading
  <2> QED BY <1>1, <1>5, <2>1, <2>2, <2>3, <2>4, StageByStage
<1> QED BY <1>1, <1>2, <1>3, <1>4, <1>5, PeerStep

-----------------------------------------------------------------------------
(* The theorems.                                                           *)

LEMMA GetterStarts ==
    ASSUME GetterSysInit
    PROVE  GetterInv
<1>1. /\ fg = FgStarted /\ run = "no" /\ ret = NoCode /\ aborted = FALSE
      /\ conn = [c \in Socks |-> "free"] /\ cli = [c \in Socks |-> "none"]
      /\ req = [c \in Socks |-> <<>>] /\ rep = [c \in Socks |-> <<>>]
      /\ pout = [c \in Socks |-> <<>>] /\ downloads = 0
      /\ ret \in FgCodes /\ ret \notin Broken
  BY DEF GetterSysInit, GetterInit, FgCodes, Broken, NoCode
<1>2. <<>> \in Seq(BufUnits) /\ <<>> \in Seq(ReplyUnits) /\ <<>> \in Seq(MessageUnits)
  OBVIOUS
<1>3. /\ fg \in Getters /\ fg.state = "FG_SPEC" /\ fg.sockd = NoSock /\ fg.buf = <<>>
      /\ fg.rd = 0 /\ fg.body = <<>> /\ fg.spec = NoKind
  BY <1>1, <1>2 DEF FgStarted, FgZero, Getters, FgStates
<1>4. GetterTypeOK
  BY <1>1, <1>2, <1>3 DEF GetterTypeOK
<1>5. Quiet /\ Tidy /\ NoAbort /\ Result
  BY <1>1 DEF Quiet, Tidy, NoAbort, Result
<1>6. Parked
  <2>1. 0 < FgBufSize
    BY GetterBufferAssumption, ReplyLengths
  <2> QED BY <1>1, <1>3, <2>1 DEF Parked
<1>7. Counted
  BY <1>3, ReplyLengths DEF Counted, BodyInOrder
<1>8. Protocol
  BY <1>3 DEF Protocol, Trade, Body
<1> QED BY <1>4, <1>5, <1>6, <1>7, <1>8 DEF GetterInv, InProtocol

LEMMA GetterStutters ==
    ASSUME GetterInv, UNCHANGED allVars
    PROVE  GetterInv'
<1>1. UNCHANGED <<conn, cli, req, rep, fg, run, ret, aborted, pout, downloads>>
  BY DEF allVars, netVars, getterVars
<1>2. InProtocol'
  BY <1>1, SameProtocol DEF GetterInv, InProtocol
<1>3. Counted'
  BY <1>1, CountKept DEF GetterInv
<1>4. GetterTypeOK' /\ Quiet'
  BY <1>1 DEF GetterInv, GetterTypeOK, Quiet
<1> QED BY <1>1, <1>2, <1>3, <1>4 DEF GetterInv, Parked, Result, Tidy, NoAbort

LEMMA GetterSteps ==
    ASSUME GetterInv, [GetterSysNext]_allVars
    PROVE  GetterInv'
BY CallDownloadStep, CallActivateStep, CallRestartStep, ActivationStep, NetworkStep,
   PeerAcceptStep, PeerReadStep, PeerSendStep, PeerCloseStep, GetterStutters
   DEF GetterSysNext, Peer

LEMMA GetterInvariant == GetterSysSpec => []GetterInv
BY GetterStarts, GetterSteps, PTL DEF GetterSysSpec

\* FG_OK_200 means that the whole file and nothing else was counted as the body, FG_ERR_404 that
\* there is none, and what is counted is always the beginning of the file (filegetter.c:486-560):
\* in whatever pieces requests, handshakes, headers and bodies come and go, over whichever
\* connection, and whatever fails.
THEOREM DownloadsAreExact == GetterSysSpec => []DownloadExact
<1>1. GetterInv => DownloadExact
  BY DEF GetterInv, Counted, Result, DownloadExact
<1> QED BY <1>1, GetterInvariant, PTL

\* A descriptor that was connected, or may yet be connected or refused, is the one the filegetter
\* holds, after any error, a 404 or a proxy that sends it to another address
\* (filegetter.c:424): the only others it leaves open are those whose connect failed at
\* once, which filegetter_connect does not close (filegetter.c:99-105).
THEOREM OnlyFailedConnectsLeft == GetterSysSpec => []Tidy
<1>1. GetterInv => Tidy
  BY DEF GetterInv
<1> QED BY <1>1, GetterInvariant, PTL

\* The assertions at the head of filegetter_activate (filegetter.c:64) never fail when the
\* caller restarts the filegetter after an error.
THEOREM AssertionsHold == GetterSysSpec => []NoAbort
<1>1. GetterInv => NoAbort
  BY DEF GetterInv
<1> QED BY <1>1, GetterInvariant, PTL

-----------------------------------------------------------------------------
(* Requests and replies as sequences of units.                             *)

\* Unit i of a request for k, and a request of which r is in the server's buffer, q on
\* its way and u units not sent: it is not complete in the buffer.
ReqUnit(k, i) == [k |-> k, first |-> i = 1, last |-> i = ReqLen[k]]
Outstanding(k, r, q, u) ==
    /\ Len(r) + Len(q) + u = ReqLen[k] /\ Len(r) < ReqLen[k]
    /\ \A i \in 1..Len(r) : r[i] = ReqUnit(k, i)
    /\ \A i \in 1..Len(q) : q[i] = ReqUnit(k, Len(r) + i)

LEMMA UnitFields ==
    ASSUME NEW k, NEW i
    PROVE  /\ ReqUnit(k, i).last <=> i = ReqLen[k]
           /\ ReqUnit(k, i).first <=> i = 1
           /\ ReqUnit(k, i).k = k
<1>1. ReqUnit(k, i).last <=> i = ReqLen[k]
  BY Zenon DEF ReqUnit
<1>2. ReqUnit(k, i).first <=> i = 1
  BY Zenon DEF ReqUnit
<1>3. ReqUnit(k, i).k = k
  BY DEF ReqUnit
<1> QED BY <1>1, <1>2, <1>3

\* What recv finds of a request, and what it leaves: b in the buffer and p on the way.
Receipt(k, r, q, u, n) ==
    /\ k \in RequestKinds /\ ReqLen[k] \in Nat /\ u \in Nat
    /\ r \in Seq(ReqUnits) /\ q \in Seq(ReqUnits) /\ Outstanding(k, r, q, u)
    /\ n \in 1..Len(q)
Received(k, b, p, u) ==
    /\ b \in Seq(ReqUnits) /\ p \in Seq(ReqUnits) /\ Len(b) \in Nat /\ Len(p) \in Nat
    /\ Len(b) + Len(p) + u = ReqLen[k]
    /\ \A i \in 1..Len(b) : b[i] = ReqUnit(k, i)
    /\ \A i \in 1..Len(p) : p[i] = ReqUnit(k, Len(b) + i)
    /\ (\E i \in 1..Len(b) : b[i].last) <=> Len(b) = ReqLen[k]
    /\ Parse(b) = k

LEMMA PartOfRequest ==
    ASSUME NEW k, NEW r, NEW q, NEW u, NEW n, Receipt(k, r, q, u, n)
    PROVE  Received(k, r \o SubSeq(q, 1, n), SubSeq(q, n + 1, Len(q)), u)
<1> DEFINE v == SubSeq(q, 1, n)
           b == r \o v
           p == SubSeq(q, n + 1, Len(q))
<1>0. /\ k \in RequestKinds /\ ReqLen[k] \in Nat /\ u \in Nat
      /\ r \in Seq(ReqUnits) /\ q \in Seq(ReqUnits) /\ n \in 1..Len(q)
  BY DEF Receipt
<1>1. /\ Len(r) + Len(q) + u = ReqLen[k]
      /\ \A i \in 1..Len(r) : r[i] = ReqUnit(k, i)
      /\ \A i \in 1..Len(q) : q[i] = ReqUnit(k, Len(r) + i)
  BY Zenon DEF Receipt, Outstanding
<1>2. Len(r) \in Nat /\ Len(q) \in Nat /\ n \in Nat /\ n > 0 /\ n <= Len(q)
  BY <1>0
<1>3. v \in Seq(ReqUnits) /\ Len(v) = n /\ \A i \in 1..n : v[i] = q[i]
  BY <1>0, <1>2
<1>4. /\ p \in Seq(ReqUnits) /\ Len(p) = Len(q) - n
      /\ \A i \in 1..Len(p) : p[i] = q[n + i]
  BY <1>0, <1>2
<1> HIDE DEF v, p
<1>5. /\ b \in Seq(ReqUnits) /\ Len(b) = Len(r) + n
      /\ \A i \in 1..Len(b) : b[i] = IF i <= Len(r) THEN r[i] ELSE v[i - Len(r)]
  <2>1. /\ b \in Seq(ReqUnits) /\ Len(b) = Len(r) + Len(v)
        /\ \A i \in 1..Len(b) : b[i] = IF i <= Len(r) THEN r[i] ELSE v[i - Len(r)]
    BY <1>0, <1>3, Concatenation
  <2> QED BY <1>3, <2>1
<1> HIDE DEF b
<1>6. /\ Len(b) \in Nat /\ Len(p) \in Nat /\ Len(b) > 0 /\ Len(b) <= ReqLen[k]
      /\ Len(b) + Len(p) + u = ReqLen[k]
  BY <1>0, <1>1, <1>2, <1>4, <1>5
<1>7. ASSUME NEW i \in 1..Len(b) PROVE b[i] = ReqUnit(k, i)
  <2>1. CASE i <= Len(r)
    BY <1>1, <1>2, <1>5, <2>1
  <2>2. CASE i > Len(r)
    <3>1. i - Len(r) \in 1..Len(q) /\ i - Len(r) \in 1..n /\ Len(r) + (i - Len(r)) = i
      BY <1>2, <1>5, <2>2
    <3> QED BY <1>1, <1>2, <1>3, <1>5, <2>2, <3>1
  <2> QED BY <1>2, <1>5, <2>1, <2>2
<1>8. ASSUME NEW i \in 1..Len(p) PROVE p[i] = ReqUnit(k, Len(b) + i)
  <2>1. n + i \in 1..Len(q) /\ Len(r) + (n + i) = Len(b) + i
    BY <1>2, <1>4, <1>5
  <2> QED BY <1>1, <1>4, <2>1
<1>9. (\E i \in 1..Len(b) : b[i].last) <=> Len(b) = ReqLen[k]
  <2>1. ASSUME NEW i \in 1..Len(b) PROVE b[i].last <=> i = ReqLen[k]
    <3>1. b[i] = ReqUnit(k, i) /\ (ReqUnit(k, i).last <=> i = ReqLen[k])
      BY <1>7, UnitFields
    <3> QED BY <3>1, Zenon
  <2>2. \A i \in 1..Len(b) : i = ReqLen[k] => i = Len(b)
    BY <1>0, <1>6
  <2>3. Len(b) \in 1..Len(b)
    BY <1>6
  <2> QED BY <2>1, <2>2, <2>3, Zenon
<1>10. Parse(b) = k
  <2>1. ASSUME NEW i \in 1..Len(b) PROVE (b[i].first <=> i = 1) /\ b[i].k = k
    <3>1. b[i] = ReqUnit(k, i) /\ (ReqUnit(k, i).first <=> i = 1) /\ ReqUnit(k, i).k = k
      BY <1>7, UnitFields
    <3> QED BY <3>1, Zenon
  <2>2. 1 \in 1..Len(b)
    BY <1>6
  <2>3. \A i \in 1..Len(b) :
           (b[i].first /\ \A j \in 1..i-1 : ~b[j].first) <=> i = 1
    <3>1. 1..(1-1) = {}
      BY SMT
    <3>2. ASSUME NEW i \in 1..Len(b), i # 1 PROVE 1 \in 1..i-1
      BY <1>6, <3>2
    <3> QED BY <2>1, <3>1, Zenon
  <2>4. (CHOOSE i \in 1..Len(b) : b[i].first /\ \A j \in 1..i-1 : ~b[j].first) = 1
    BY <2>2, <2>3, Zenon
  <2>5. \E i \in 1..Len(b) : b[i].first
    BY <2>1, <2>2
  <2> QED BY <2>1, <2>2, <2>4, <2>5 DEF Parse
<1>11. Received(k, b, p, u)
  BY <1>4, <1>5, <1>6, <1>7, <1>8, <1>9, <1>10 DEF Received
<1> QED BY <1>11 DEF b, v, p

\* A fragment of a request that a client sends: it follows the part sent before.
Follows(k, r, q, u, n) ==
    /\ Outstanding(k, r, q, u) /\ k \in RequestKinds /\ ReqLen[k] \in Nat /\ u \in Nat
    /\ r \in Seq(ReqUnits) /\ q \in Seq(ReqUnits) /\ n \in 1..u
Fragment(k, u, n) ==
    [i \in 1..n |-> [k |-> k, first |-> ReqLen[k] - u + i = 1, last |-> i = u]]

LEMMA FragmentFollows ==
    ASSUME NEW k, NEW r, NEW q, NEW u, NEW n, Follows(k, r, q, u, n)
    PROVE  Outstanding(k, r, q \o Fragment(k, u, n), u - n)
<1> DEFINE v == Fragment(k, u, n)
           t == q \o v
<1>0. /\ k \in RequestKinds /\ ReqLen[k] \in Nat /\ u \in Nat
      /\ r \in Seq(ReqUnits) /\ q \in Seq(ReqUnits) /\ n \in 1..u
  BY DEF Follows
<1>1. /\ Len(r) + Len(q) + u = ReqLen[k] /\ Len(r) < ReqLen[k]
      /\ \A i \in 1..Len(r) : r[i] = ReqUnit(k, i)
      /\ \A i \in 1..Len(q) : q[i] = ReqUnit(k, Len(r) + i)
  BY Zenon DEF Follows, Outstanding
<1>2. Len(r) \in Nat /\ Len(q) \in Nat /\ n \in Nat /\ n <= u
  BY <1>0
<1>3. ASSUME NEW i \in 1..n PROVE v[i] = ReqUnit(k, Len(r) + (Len(q) + i))
  <2>1. v[i] = [k |-> k, first |-> ReqLen[k] - u + i = 1, last |-> i = u]
    BY DEF Fragment
  <2>2. (ReqLen[k] - u + i = 1) <=> (Len(r) + (Len(q) + i) = 1)
    BY <1>0, <1>1, <1>2
  <2>3. (i = u) <=> (Len(r) + (Len(q) + i) = ReqLen[k])
    BY <1>0, <1>1, <1>2
  <2> QED BY <2>1, <2>2, <2>3, Zenon DEF ReqUnit
<1>4. \A i \in 1..n : v[i] \in ReqUnits
  BY <1>0 DEF ReqUnits, Fragment
<1>5. v = [i \in 1..n |-> v[i]]
  BY DEF Fragment
<1> HIDE DEF v
<1>6. v \in Seq(ReqUnits) /\ Len(v) = n
  BY <1>2, <1>4, <1>5
<1>7. /\ Len(t) = Len(q) + n
      /\ \A i \in 1..Len(t) : t[i] = IF i <= Len(q) THEN q[i] ELSE v[i - Len(q)]
  BY <1>0, <1>2, <1>6
<1> HIDE DEF t
<1>8. ASSUME NEW i \in 1..Len(t) PROVE t[i] = ReqUnit(k, Len(r) + i)
  <2>1. CASE i <= Len(q)
    BY <1>1, <1>2, <1>7, <2>1
  <2>2. CASE i > Len(q)
    <3>1. i - Len(q) \in 1..n /\ Len(q) + (i - Len(q)) = i
      BY <1>2, <1>7, <2>2
    <3> QED BY <1>3, <1>7, <2>2, <3>1
  <2> QED BY <1>2, <1>7, <2>1, <2>2
<1>9. Len(r) + Len(t) + (u - n) = ReqLen[k]
  BY <1>0, <1>1, <1>2, <1>7
<1>10. Outstanding(k, r, t, u - n)
  BY <1>1, <1>8, <1>9 DEF Outstanding
<1> QED BY <1>10 DEF t, v

\* n units w of a reply to k that follow those on their way, s, of which g were read before.
Joins(s, w, n, k, g) ==
    /\ s \in Seq(Units) /\ n \in Nat /\ g \in Nat /\ w = [i \in 1..n |-> w[i]]
    /\ \A i \in 1..Len(s) : s[i] = <<k, g + i>>
    /\ \A i \in 1..n : w[i] = <<k, g + Len(s) + i>> /\ w[i] \in Units
Joined(s, t, n, k, g) ==
    Len(t) = Len(s) + n /\ \A i \in 1..Len(t) : t[i] = <<k, g + i>>

LEMMA AppendUnits ==
    ASSUME NEW s, NEW w, NEW n, NEW k, NEW g, Joins(s, w, n, k, g)
    PROVE  Joined(s, s \o w, n, k, g)
<1>0. /\ s \in Seq(Units) /\ n \in Nat /\ g \in Nat /\ w = [i \in 1..n |-> w[i]]
      /\ \A i \in 1..Len(s) : s[i] = <<k, g + i>>
      /\ \A i \in 1..n : w[i] = <<k, g + Len(s) + i>> /\ w[i] \in Units
  BY Zenon DEF Joins
<1>1. w \in Seq(Units) /\ Len(w) = n /\ Len(s) \in Nat
  BY <1>0
<1>2. /\ Len(s \o w) = Len(s) + n
      /\ \A i \in 1..(Len(s) + n) :
            (s \o w)[i] = IF i <= Len(s) THEN s[i] ELSE w[i - Len(s)]
  BY <1>0, <1>1
<1>3. ASSUME NEW i \in 1..(Len(s) + n) PROVE (s \o w)[i] = <<k, g + i>>
  <2>1. CASE i <= Len(s)
    BY <1>0, <1>1, <1>2, <2>1
  <2>2. CASE i > Len(s)
    <3>1. i - Len(s) \in 1..n /\ g + Len(s) + (i - Len(s)) = g + i
      BY <1>0, <1>1, <2>2
    <3> QED BY <1>0, <1>1, <1>2, <2>2, <3>1
  <2> QED BY <1>0, <1>1, <2>1, <2>2
<1> QED BY <1>2, <1>3 DEF Joined

\* s is on its way, of a reply to k of t units, g of which were read.
Ahead(s, k, g, t) ==
    /\ s \in Seq(Units) /\ g \in Nat /\ t \in Nat /\ g + Len(s) <= t
    /\ \A i \in 1..Len(s) : s[i] = <<k, g + i>>

LEMMA ReadUnits ==
    ASSUME NEW s, NEW k, NEW g, NEW t, Ahead(s, k, g, t), NEW n \in 1..Len(s)
    PROVE  /\ Ahead(SubSeq(s, n + 1, Len(s)), k, g + n, t)
           /\ g + n + Len(SubSeq(s, n + 1, Len(s))) = g + Len(s)
           /\ g + n >= t => n = Len(s) /\ g + Len(s) = t
<1> DEFINE p == SubSeq(s, n + 1, Len(s))
<1>0. /\ s \in Seq(Units) /\ g \in Nat /\ t \in Nat /\ g + Len(s) <= t
      /\ \A i \in 1..Len(s) : s[i] = <<k, g + i>>
  BY DEF Ahead
<1>1. Len(s) \in Nat /\ n \in Nat /\ n > 0 /\ n <= Len(s)
  BY <1>0
<1>2. p \in Seq(Units) /\ Len(p) = Len(s) - n /\ \A i \in 1..Len(p) : p[i] = s[n + i]
  <2>1. s \in Seq(Units) /\ n \in 1..Len(s)
    BY <1>0
  <2> QED BY <2>1
<1> HIDE DEF p
<1>3. g + n + Len(p) = g + Len(s) /\ g + n \in Nat
      /\ (g + n >= t => n = Len(s) /\ g + Len(s) = t)
  <2>1. Len(p) = Len(s) - n /\ g \in Nat /\ t \in Nat /\ g + Len(s) <= t
    BY <1>0, <1>2
  <2>2. g + n + Len(p) = g + Len(s) /\ g + n \in Nat
    BY <1>1, <2>1
  <2>3. ASSUME g + n >= t PROVE n = Len(s) /\ g + Len(s) = t
    BY <1>1, <2>1, <2>3
  <2> QED BY <2>2, <2>3
<1>4. ASSUME NEW i \in 1..Len(p) PROVE p[i] = <<k, g + n + i>>
  <2>1. n + i \in 1..Len(s) /\ g + (n + i) = g + n + i
    BY <1>0, <1>1, <1>2
  <2> QED BY <1>0, <1>2, <2>1
<1>5. Ahead(p, k, g + n, t)
  BY <1>0, <1>2, <1>3, <1>4 DEF Ahead
<1> QED BY <1>3, <1>5 DEF p

\* s units sent, the window from r to w in the buffer, f units of l read after a header
\* of h: n units sent from the window are part of the reply.
InWindow(s, r, w, h, f, l, n) ==
    /\ s \in Nat /\ r \in Nat /\ w \in Nat /\ h \in Nat /\ f \in Nat /\ l \in Nat
    /\ n \in Nat
    /\ f <= l /\ s + w - r = h + f /\ n > 0 /\ n <= w - r

LEMMA WindowInReply ==
    ASSUME NEW s, NEW r, NEW w, NEW h, NEW f, NEW l, NEW n, InWindow(s, r, w, h, f, l, n)
    PROVE  s + n <= h + l /\ s # h + l
BY DEF InWindow

-----------------------------------------------------------------------------
USE SocksAssumption, KindsAssumption, SizesAssumption, BufferAssumption,
    FaultsAssumption, MaxRequestsAssumption

\* The conjunction that every step preserves.
IInv == SysTypeOK /\ Registered /\ ReplyInv /\ ClientInv /\ CloseOnlyAligned

-----------------------------------------------------------------------------
(* Facts about the operators.                                              *)

\* Every reply has a length, and it is not empty.
LEMMA TotalType == \A k \in ReplyKinds : Total(k) \in Nat /\ Total(k) > 0
BY DEF Total, ReplyKinds

\* The reply to any request, even one that makes no sense, is a reply.
LEMMA ReplyType == \A k : Reply(k) \in ReplyKinds
BY DEF Reply, ReplyKinds

\* One more buffer keeps a length aligned, and no buffer at all is aligned.
LEMMA AlignedStep ==
    /\ Aligned(0)
    /\ \A n \in Nat : Aligned(n) => Aligned(n + BufSize)
<1>1. Aligned(0)
  BY DEF Aligned
<1>2. ASSUME NEW n \in Nat, Aligned(n)
      PROVE  Aligned(n + BufSize)
  <2>1. PICK q \in 0..n : n = q * BufSize
    BY <1>2 DEF Aligned
  <2>2. q + 1 \in 0..(n + BufSize)
    BY <2>1
  <2>3. n + BufSize = (q + 1) * BufSize
    BY <2>1
  <2> QED BY <2>2, <2>3 DEF Aligned
<1> QED BY <1>1, <1>2

\* Appending to, and dropping from, a stream leaves a stream of the same units.
LEMMA AppendType ==
    ASSUME NEW U, NEW s \in Seq(U), NEW n \in Nat, NEW f(_),
           \A i \in 1..n : f(i) \in U
    PROVE  /\ s \o [i \in 1..n |-> f(i)] \in Seq(U)
           /\ Len(s \o [i \in 1..n |-> f(i)]) = Len(s) + n
<1>1. [i \in 1..n |-> f(i)] \in Seq(U) /\ Len([i \in 1..n |-> f(i)]) = n
  OBVIOUS
<1> QED BY <1>1

\* What is left of a stream after its head is read is a stream of the same units.
LEMMA DropType ==
    ASSUME NEW U, NEW s \in Seq(U), NEW n \in 0..Len(s)
    PROVE  SubSeq(s, n + 1, Len(s)) \in Seq(U)
OBVIOUS

\* What is read from the head of a stream is a stream of the same units.
LEMMA PrefixType ==
    ASSUME NEW U, NEW s \in Seq(U), NEW n \in 0..Len(s)
    PROVE  SubSeq(s, 1, n) \in Seq(U)
OBVIOUS

-----------------------------------------------------------------------------
(* The type invariant.                                                     *)

\* Every variable has its type at the start.
LEMMA InitType == SysInit => SysTypeOK
<1> SUFFICES ASSUME SysInit PROVE SysTypeOK
  OBVIOUS
<1>1. [i \in 1..BufSize |-> <<NotFound, 0>>] \in [1..BufSize -> Units]
  BY DEF Units, ReplyKinds
<1>2. buf \in [Socks -> [1..BufSize -> Units]]
  BY <1>1 DEF SysInit, Init
<1>3. /\ cur \in Socks \cup {NoSock} /\ pc \in {"switch", "recv", "send"}
      /\ conn \in [Socks -> {"free", "pending", "accepted", "leaked", "closed"}]
      /\ state \in [Socks -> FSStates] /\ interest \in [Socks -> {"IN", "OUT"}]
      /\ kind \in [Socks -> ReplyKinds] /\ fopened \in [Socks -> BOOLEAN]
  BY DEF SysInit, Init, FSStates, ReplyKinds
<1>4. /\ foff \in [Socks -> Nat] /\ sent \in [Socks -> Nat]
      /\ rd \in [Socks -> 0..BufSize] /\ wr \in [Socks -> 0..BufSize]
      /\ replies \in [Socks -> Nat] /\ unsent \in [Socks -> Nat]
      /\ got \in [Socks -> Nat] /\ requests \in [Socks -> 0..MaxRequests]
  BY DEF SysInit, Init
<1>5. /\ replyDone \in [Socks -> BOOLEAN]
      /\ progress \in [changed : BOOLEAN, reply_done : BOOLEAN]
      /\ report \in {"none", "progress", "complete"}
      /\ why \in [Socks -> {"none", "peer", "reset", "fault", "zero-send"}]
      /\ cli \in [Socks -> {"none", "connecting", "refused", "open", "closed"}]
      /\ asked \in [Socks -> RequestKinds \cup {NoKind}]
  BY DEF SysInit, Init
<1>6. /\ rbuf \in [Socks -> Seq(ReqUnits)] /\ req \in [Socks -> Seq(ReqUnits)]
      /\ rep \in [Socks -> Seq(Units)]
  BY DEF SysInit, Init
<1> QED BY <1>2, <1>3, <1>4, <1>5, <1>6 DEF SysTypeOK, TypeOK, ControlType,
        ReportType, BufferType, StreamType, ClientType, ProgressRecords

\* The ways a step of an activation ends keep the types of what they assign.
LEMMA EndTypes ==
    ASSUME TypeOK
    PROVE  /\ \A p \in ProgressRecords : Return(p) =>
                /\ cur' \in Socks \cup {NoSock} /\ pc' \in {"switch", "recv", "send"}
                /\ progress' \in ProgressRecords
                /\ report' \in {"none", "progress", "complete"}
           /\ \A p \in ProgressRecords, l \in {"switch", "recv", "send"} :
                Continue(p, l) =>
                  /\ cur' \in Socks \cup {NoSock} /\ pc' \in {"switch", "recv", "send"}
                  /\ progress' \in ProgressRecords
                  /\ report' \in {"none", "progress", "complete"}
           /\ [progress EXCEPT !.changed = TRUE] \in ProgressRecords
<1> USE DEF TypeOK, ControlType, ReportType
<1>1. ASSUME NEW p \in ProgressRecords, Return(p)
      PROVE  /\ cur' \in Socks \cup {NoSock} /\ pc' \in {"switch", "recv", "send"}
             /\ progress' \in ProgressRecords
             /\ report' \in {"none", "progress", "complete"}
  BY <1>1 DEF Return, ReportOf
<1>2. ASSUME NEW p \in ProgressRecords, NEW l \in {"switch", "recv", "send"},
             Continue(p, l)
      PROVE  /\ cur' \in Socks \cup {NoSock} /\ pc' \in {"switch", "recv", "send"}
             /\ progress' \in ProgressRecords
             /\ report' \in {"none", "progress", "complete"}
  BY <1>2 DEF Continue
<1>3. [progress EXCEPT !.changed = TRUE] \in ProgressRecords
  BY DEF ProgressRecords
<1> QED BY <1>1, <1>2, <1>3

\* Closing a connection keeps all types.
LEMMA CloseType ==
    ASSUME TypeOK, NEW c \in Socks,
           NEW r \in {"peer", "reset", "fault", "zero-send"}, Close(c, r)
    PROVE  TypeOK'
<1> USE DEF TypeOK, Close
<1>1. ControlType'
  BY DEF ControlType
<1>2. ReportType'
  BY DEF ReportType, ReportOf
<1>3. BufferType'
  BY DEF BufferType, requestVars
<1>4. StreamType'
  BY DEF StreamType, requestVars
<1> QED BY <1>1, <1>2, <1>3, <1>4

\* Entering an activation keeps every variable in its type.
LEMMA ActivateType ==
    ASSUME IInv, NEW c \in Socks, Activate(c)
    PROVE  TypeOK'
<1> USE DEF IInv, SysTypeOK, TypeOK
<1>1. cur' \in Socks \cup {NoSock} /\ pc' \in {"switch", "recv", "send"}
  BY EndTypes DEF ControlType, ReportType, Activate
<1>2. ReportType'
  BY DEF ReportType, Activate, statVars, ProgressRecords
<1>3. ControlType'
  BY <1>1 DEF ControlType, Activate, connVars, statVars, FSStates, Return, Continue
<1>4. BufferType'
  BY DEF BufferType, Activate, requestVars, replyVars
<1>5. StreamType'
  BY DEF StreamType, Activate, requestVars, netVars
<1> QED BY <1>2, <1>3, <1>4, <1>5

\* FS_IDLE, which clears the offsets, keeps every variable in its type.
LEMMA IdleType ==
    ASSUME IInv, NEW c \in Socks, Idle(c)
    PROVE  TypeOK'
<1> USE DEF IInv, SysTypeOK, TypeOK
<1>1. cur' \in Socks \cup {NoSock} /\ pc' \in {"switch", "recv", "send"}
  BY EndTypes DEF ControlType, ReportType, Idle
<1>2. ReportType'
  BY EndTypes DEF ReportType, Idle, statVars
<1>3. ControlType'
  BY <1>1 DEF ControlType, Idle, connVars, statVars, FSStates, Return, Continue
<1>4. BufferType'
  BY DEF BufferType, Idle, requestVars, replyVars
<1>5. StreamType'
  BY DEF StreamType, Idle, requestVars, netVars
<1> QED BY <1>2, <1>3, <1>4, <1>5

\* Giving up on a request that does not fit keeps every variable in its type.
LEMMA RequestTooLongType ==
    ASSUME IInv, NEW c \in Socks, RequestTooLong(c)
    PROVE  TypeOK'
<1> USE DEF IInv, SysTypeOK, TypeOK
<1>1. cur' \in Socks \cup {NoSock} /\ pc' \in {"switch", "recv", "send"}
  BY EndTypes DEF ControlType, ReportType, RequestTooLong
<1>2. ReportType'
  BY EndTypes DEF ReportType, RequestTooLong, statVars
<1>3. ControlType'
  BY <1>1 DEF ControlType, RequestTooLong, connVars, statVars, FSStates, Return, Continue
<1>4. BufferType'
  BY DEF BufferType, RequestTooLong, requestVars, replyVars
<1>5. StreamType'
  BY DEF StreamType, RequestTooLong, requestVars, netVars
<1> QED BY <1>2, <1>3, <1>4, <1>5

\* Returning because there is nothing to receive keeps every variable in its type.
LEMMA RecvWouldBlockType ==
    ASSUME IInv, NEW c \in Socks, RecvWouldBlock(c)
    PROVE  TypeOK'
<1> USE DEF IInv, SysTypeOK, TypeOK
<1>1. cur' \in Socks \cup {NoSock} /\ pc' \in {"switch", "recv", "send"}
  BY EndTypes DEF ControlType, ReportType, RecvWouldBlock
<1>2. ReportType'
  BY EndTypes DEF ReportType, RecvWouldBlock, statVars
<1>3. ControlType'
  BY <1>1 DEF ControlType, RecvWouldBlock, connVars, statVars, FSStates, Return, Continue
<1>4. BufferType'
  BY DEF BufferType, RecvWouldBlock, requestVars, replyVars
<1>5. StreamType'
  BY DEF StreamType, RecvWouldBlock, requestVars, netVars
<1> QED BY <1>2, <1>3, <1>4, <1>5

\* Returning because nothing can be sent keeps every variable in its type.
LEMMA SendWouldBlockType ==
    ASSUME IInv, NEW c \in Socks, SendWouldBlock(c)
    PROVE  TypeOK'
<1> USE DEF IInv, SysTypeOK, TypeOK
<1>1. cur' \in Socks \cup {NoSock} /\ pc' \in {"switch", "recv", "send"}
  BY EndTypes DEF ControlType, ReportType, SendWouldBlock
<1>2. ReportType'
  BY EndTypes DEF ReportType, SendWouldBlock, statVars
<1>3. ControlType'
  BY <1>1 DEF ControlType, SendWouldBlock, connVars, statVars, FSStates, Return, Continue
<1>4. BufferType'
  BY DEF BufferType, SendWouldBlock, requestVars, replyVars
<1>5. StreamType'
  BY DEF StreamType, SendWouldBlock, requestVars, netVars
<1> QED BY <1>2, <1>3, <1>4, <1>5

\* FS_REPLY_404_START keeps every variable in its type: the 404 line fits the buffer.
LEMMA Reply404StartType ==
    ASSUME IInv, NEW c \in Socks, Reply404Start(c)
    PROVE  TypeOK'
<1> USE DEF IInv, SysTypeOK, TypeOK
<1>0. [i \in 1..BufSize |-> IF i <= NotFoundLen THEN <<NotFound, i>> ELSE buf[c][i]]
        \in [1..BufSize -> Units]
  BY DEF BufferType, Units, ReplyKinds
<1>1. cur' \in Socks \cup {NoSock} /\ pc' \in {"switch", "recv", "send"}
  BY EndTypes DEF ControlType, ReportType, Reply404Start
<1>2. ReportType'
  BY EndTypes DEF ReportType, Reply404Start, statVars
<1>3. ControlType'
  BY <1>1 DEF ControlType, Reply404Start, connVars, statVars, FSStates, Return, Continue
<1>4. BufferType'
  BY <1>0 DEF BufferType, Reply404Start, requestVars, replyVars, ReplyKinds
<1>5. StreamType'
  BY DEF StreamType, Reply404Start, requestVars, netVars
<1> QED BY <1>2, <1>3, <1>4, <1>5

\* FS_REPLY_FILE_START keeps every variable in its type: the header fits the buffer.
LEMMA ReplyFileStartType ==
    ASSUME IInv, NEW c \in Socks, ReplyFileStart(c)
    PROVE  TypeOK'
<1> USE DEF IInv, SysTypeOK, TypeOK
<1> DEFINE hdr == [i \in 1..BufSize |->
                      IF i <= HdrLen THEN <<kind[c], i>> ELSE buf[c][i]]
<1>0. hdr \in [1..BufSize -> Units]
  BY DEF BufferType, Units
<1>1. cur' \in Socks \cup {NoSock} /\ pc' \in {"switch", "recv", "send"}
  BY EndTypes DEF ControlType, ReportType, ReplyFileStart
<1>2. ReportType'
  BY EndTypes DEF ReportType, ReplyFileStart, statVars
<1>3. ControlType'
  BY <1>1 DEF ControlType, ReplyFileStart, statVars, FSStates, Continue,
        ReplyInterest
<1>4. BufferType'
  <2>1. CASE UNCHANGED <<buf, wr, fopened>>
    BY <2>1 DEF BufferType, ReplyFileStart, requestVars
  <2>2. CASE ~UNCHANGED <<buf, wr, fopened>>
    <3>1. /\ buf' = [buf EXCEPT ![c] = hdr]
          /\ wr' = [wr EXCEPT ![c] = HdrLen]
          /\ fopened' = [fopened EXCEPT ![c] = FileLen[kind[c]] # 0]
          /\ UNCHANGED <<kind, foff, rd, sent>>
      BY <2>2 DEF ReplyFileStart, requestVars
    <3> HIDE DEF hdr
    <3> QED BY <1>0, <3>1 DEF BufferType
  <2> QED BY <2>1, <2>2
<1>5. StreamType'
  BY DEF StreamType, ReplyFileStart, requestVars, netVars
<1> QED BY <1>2, <1>3, <1>4, <1>5

\* FS_REPLY_FILE_CONTINUE keeps every variable in its type: the file is read into what
\* is free of the buffer and no further.
LEMMA FileContinueType ==
    ASSUME IInv, NEW c \in Socks, FileContinue(c)
    PROVE  TypeOK'
<1> USE DEF IInv, SysTypeOK, TypeOK
<1>1. cur' \in Socks \cup {NoSock} /\ pc' \in {"switch", "recv", "send"}
  BY EndTypes DEF ControlType, ReportType, FileContinue
<1>2. ReportType'
  BY EndTypes DEF ReportType, FileContinue, statVars
<1>3. ControlType'
  BY <1>1 DEF ControlType, FileContinue, connVars, statVars, FSStates, Return, Continue
<1>4. BufferType'
  <2> DEFINE left == FileLen[kind[c]] - foff[c]
            n == Smaller(BufSize - wr[c], left)
            fill == [i \in 1..BufSize |->
                       IF i \in wr[c] + 1 .. wr[c] + n
                       THEN <<kind[c], HdrLen + foff[c] + (i - wr[c])>>
                       ELSE buf[c][i]]
  <2>1. conn[c] = "accepted" /\ state[c] = "FS_REPLY_FILE_CONTINUE"
    BY DEF FileContinue, Registered
  <2>2. kind[c] \in Files /\ foff[c] <= FileLen[kind[c]]
    BY <2>1 DEF ReplyInv, ConnInv, Filling
  <2>3. n \in Nat /\ wr[c] + n <= BufSize
    BY <2>2 DEF Smaller, BufferType
  <2>4. fill \in [1..BufSize -> Units]
    <3>1. \A i \in 1..BufSize : i \in wr[c] + 1 .. wr[c] + n =>
             HdrLen + foff[c] + (i - wr[c]) \in Nat
      BY <2>3 DEF BufferType
    <3>2. kind[c] \in ReplyKinds /\ \A i \in 1..BufSize : buf[c][i] \in Units
      BY DEF BufferType
    <3>3. ASSUME NEW i \in 1..BufSize
          PROVE  fill[i] \in Units
      <4> HIDE DEF n
      <4>1. CASE i \in wr[c] + 1 .. wr[c] + n
        <5>1. fill[i] = <<kind[c], HdrLen + foff[c] + (i - wr[c])>>
          BY <4>1
        <5>2. HdrLen + foff[c] + (i - wr[c]) \in Nat
          BY <3>1, <4>1 DEF BufferType
        <5> QED BY <5>1, <5>2, <3>2 DEF Units
      <4>2. CASE i \notin wr[c] + 1 .. wr[c] + n
        BY <4>2, <3>2
      <4> QED BY <4>1, <4>2
    <3> HIDE DEF n
    <3> QED BY <3>3
  <2>5. CASE UNCHANGED <<buf, wr, foff, fopened>>
    BY <2>5 DEF BufferType, FileContinue, requestVars
  <2>6. CASE ~UNCHANGED <<buf, wr, foff, fopened>>
    <3>1. /\ buf' = [buf EXCEPT ![c] = fill]
          /\ wr' = [wr EXCEPT ![c] = @ + n]
          /\ foff' = [foff EXCEPT ![c] = @ + n]
          /\ fopened' \in [Socks -> BOOLEAN]
          /\ UNCHANGED <<kind, rd, sent>>
      BY <2>6 DEF FileContinue, FillSpace, requestVars, BufferType, Feof
    <3> HIDE DEF n, fill
    <3> QED BY <2>3, <2>4, <3>1 DEF BufferType
  <2> QED BY <2>5, <2>6
<1>5. StreamType'
  BY DEF StreamType, FileContinue, requestVars, netVars
<1> QED BY <1>2, <1>3, <1>4, <1>5

\* Receiving a part of a request keeps every variable in its type.
LEMMA RecvDataType ==
    ASSUME IInv, NEW c \in Socks, RecvData(c)
    PROVE  TypeOK'
<1> USE DEF IInv, SysTypeOK, TypeOK
<1> DEFINE n == Smaller(ReqSpace(c), Len(req[c]))
           asked1 == Parse(rbuf[c] \o SubSeq(req[c], 1, n))
<1>0. /\ kind' = kind \/ kind' = [kind EXCEPT ![c] = Reply(asked1)]
      /\ UNCHANGED replyVars
  BY DEF RecvData
<1>1. cur' \in Socks \cup {NoSock} /\ pc' \in {"switch", "recv", "send"}
  BY EndTypes DEF ControlType, ReportType, RecvData
<1>2. ReportType'
  BY EndTypes DEF ReportType, RecvData, statVars
<1>3. ControlType'
  BY <1>1 DEF ControlType, RecvData, connVars, statVars, FSStates, Return, Continue
<1>4. BufferType'
  <2>1. Reply(asked1) \in ReplyKinds
    BY ReplyType
  <2> HIDE DEF asked1
  <2>2. kind' \in [Socks -> ReplyKinds]
    BY <1>0, <2>1 DEF BufferType
  <2> QED BY <1>0, <2>2 DEF BufferType, replyVars
<1>5. StreamType'
  <2>0. Len(req[c]) \in Nat /\ Len(rbuf[c]) \in Nat /\ ReqSpace(c) > 0
    BY DEF StreamType, RecvData
  <2>1. n \in 0..Len(req[c])
    BY <2>0 DEF Smaller, ReqSpace
  <2>2. /\ rbuf' = [rbuf EXCEPT ![c] = rbuf[c] \o SubSeq(req[c], 1, n)]
        /\ req' = [req EXCEPT ![c] = SubSeq(@, n + 1, Len(@))]
        /\ UNCHANGED <<cli, rep>>
    BY DEF RecvData
  <2> HIDE DEF n
  <2>3. SubSeq(req[c], 1, n) \in Seq(ReqUnits)
    BY <2>1, PrefixType DEF StreamType
  <2>4. SubSeq(req[c], n + 1, Len(req[c])) \in Seq(ReqUnits)
    BY <2>1, DropType DEF StreamType
  <2> QED BY <2>2, <2>3, <2>4 DEF StreamType
<1> QED BY <1>2, <1>3, <1>4, <1>5

\* Sending a part of the buffer keeps every variable in its type: the read offset never
\* passes the write offset.
LEMMA SendDataType ==
    ASSUME IInv, NEW c \in Socks, SendData(c)
    PROVE  TypeOK'
<1> USE DEF IInv, SysTypeOK, TypeOK
<1> DEFINE n == Smaller(SendLen(c), SndCap - Len(rep[c]))
<1>a. [changed |-> TRUE, reply_done |-> TRUE] \in ProgressRecords
  BY DEF ProgressRecords
<1>b. /\ n > 0
      /\ rd' = [rd EXCEPT ![c] = NextRead(c, n)]
      /\ wr' = [wr EXCEPT ![c] = NextWrite(c, n)]
      /\ sent' = [sent EXCEPT ![c] = @ + n]
      /\ rep' = [rep EXCEPT ![c] = @ \o [i \in 1..n |-> buf[c][rd[c] + i]]]
      /\ UNCHANGED <<kind, fopened, foff, buf, rbuf, cli, req>>
  BY DEF SendData, requestVars
<1>c. rd[c] \in 0..BufSize /\ wr[c] \in 0..BufSize /\ Len(rep[c]) \in Nat
  BY DEF BufferType, StreamType
<1>0. n \in Nat /\ n > 0 /\ rd[c] + n <= wr[c]
  BY <1>b, <1>c DEF SendLen, Smaller
<1> HIDE DEF n
<1>1. cur' \in Socks \cup {NoSock} /\ pc' \in {"switch", "recv", "send"}
  BY <1>a, EndTypes DEF ControlType, ReportType, SendData
<1>2. ReportType'
  <2>1. progress' \in ProgressRecords /\ report' \in {"none", "progress", "complete"}
    BY <1>a, EndTypes DEF SendData, ReportType
  <2>2. \/ UNCHANGED <<replyDone, replies>>
        \/ /\ replyDone' = [replyDone EXCEPT ![c] = TRUE]
           /\ replies' = [replies EXCEPT ![c] = @ + 1]
    BY DEF SendData
  <2>3. replyDone' \in [Socks -> BOOLEAN] /\ replies' \in [Socks -> Nat]
    <3>1. replies' \in [Socks -> Nat]
      BY <2>2 DEF ReportType
    <3>2. replyDone' \in [Socks -> BOOLEAN]
      BY <2>2 DEF ReportType
    <3> QED BY <3>1, <3>2
  <2> QED BY <2>1, <2>3 DEF ReportType
<1>3. ControlType'
  BY <1>1 DEF ControlType, SendData, connVars, statVars, FSStates, Return, Continue
<1>4. BufferType'
  <2>1. NextRead(c, n) \in 0..BufSize /\ NextWrite(c, n) \in 0..BufSize
    BY <1>0 DEF NextRead, NextWrite, BufferType
  <2> QED BY <1>0, <1>b, <2>1 DEF BufferType
<1>5. StreamType'
  <2>2. \A i \in 1..n : buf[c][rd[c] + i] \in Units
    BY <1>0 DEF BufferType
  <2>3. rep[c] \o [i \in 1..n |-> buf[c][rd[c] + i]] \in Seq(Units)
    BY <1>0, <2>2, AppendType DEF StreamType
  <2> QED BY <1>b, <2>3 DEF StreamType
<1> QED BY <1>2, <1>3, <1>4, <1>5

\* Closing steps.
LEMMA EndingType ==
    ASSUME IInv, NEW c \in Socks, RecvEnd(c) \/ FileError(c) \/ SendEnd(c)
    PROVE  TypeOK'
BY CloseType DEF RecvEnd, FileError, SendEnd, IInv, SysTypeOK

\* Accepting connections.
LEMMA AcceptAllType ==
    ASSUME IInv, AcceptAll
    PROVE  TypeOK'
<1> USE DEF IInv, SysTypeOK, TypeOK
<1>1. ControlType'
  BY DEF ControlType, AcceptAll, Fresh, FSStates
<1>2. ReportType'
  <2>1. progress' = progress /\ report' = report
    BY DEF AcceptAll, reportVars
  <2>2. PICK S : /\ replyDone' = Fresh(replyDone, S, FALSE)
                 /\ replies' = Fresh(replies, S, 0)
    BY DEF AcceptAll
  <2>3. replies' \in [Socks -> Nat]
    BY <2>2 DEF ReportType, Fresh
  <2>4. replyDone' \in [Socks -> BOOLEAN]
    BY <2>2 DEF ReportType, Fresh
  <2> QED BY <2>1, <2>3, <2>4 DEF ReportType
<1>3. BufferType'
  BY DEF BufferType, AcceptAll, requestVars, replyVars
<1>4. StreamType'
  BY DEF StreamType, AcceptAll, requestVars, netVars
<1> QED BY <1>1, <1>2, <1>3, <1>4

\* Every step of the server keeps the types.
LEMMA ServerType ==
    ASSUME IInv, Server
    PROVE  SysTypeOK'
<1>1. TypeOK'
  BY ActivateType, IdleType, RequestTooLongType, RecvWouldBlockType,
     SendWouldBlockType, Reply404StartType, ReplyFileStartType,
     FileContinueType, RecvDataType, SendDataType, EndingType, AcceptAllType
     DEF Server, ServerNext, ServerStep
<1>2. ClientType'
  BY DEF IInv, SysTypeOK, ClientType, Server, clientVars
<1> QED BY <1>1, <1>2 DEF SysTypeOK

\* What a client asks and reads keeps the types.
LEMMA ClientStepType ==
    ASSUME IInv, NEW c \in Socks, ClientStep(c)
    PROVE  SysTypeOK'
<1> USE DEF IInv, SysTypeOK, TypeOK
<1>1. CASE ClientConnect(c)
  <2>1. ControlType' /\ ReportType'
    BY <1>1 DEF ControlType, ReportType, ClientConnect, statVars, reportVars
  <2>2. BufferType' /\ StreamType'
    BY <1>1 DEF BufferType, StreamType, ClientConnect, requestVars, replyVars
  <2>3. ClientType'
    BY <1>1 DEF ClientType, ClientConnect
  <2> QED BY <2>1, <2>2, <2>3
<1>2. ASSUME NEW k \in RequestKinds, ClientAsk(c, k) PROVE SysTypeOK'
  <2>1. TypeOK'
    BY <1>2 DEF ClientAsk, vars, serverVars, netVars, ControlType, ReportType,
                BufferType, StreamType
  <2>2. ClientType'
    BY <1>2 DEF ClientType, ClientAsk
  <2> QED BY <2>1, <2>2
<1>3. CASE ClientSend(c)
  <2>1. PICK n \in 1..unsent[c] :
          /\ req' = [req EXCEPT ![c] = @ \o
                [i \in 1..n |-> [k |-> asked[c],
                                 first |-> ReqLen[asked[c]] - unsent[c] + i = 1,
                                 last |-> i = unsent[c]]]]
          /\ unsent' = [unsent EXCEPT ![c] = @ - n]
    BY <1>3 DEF ClientSend
  <2> DEFINE f(i) == [k |-> asked[c],
                      first |-> ReqLen[asked[c]] - unsent[c] + i = 1,
                      last |-> i = unsent[c]]
  <2>2. asked[c] \in RequestKinds
    BY <2>1 DEF ClientType, ClientInv
  <2>3. \A i \in 1..n : f(i) \in ReqUnits
    BY <2>2 DEF ReqUnits
  <2>4. n \in Nat /\ req[c] \in Seq(ReqUnits)
    BY DEF StreamType, ClientType
  <2> HIDE DEF f
  <2>5. req[c] \o [i \in 1..n |-> f(i)] \in Seq(ReqUnits)
    BY <2>3, <2>4, AppendType
  <2>6. req' = [req EXCEPT ![c] = @ \o [i \in 1..n |-> f(i)]]
    BY <2>1 DEF f
  <2>7. StreamType'
    BY <1>3, <2>5, <2>6 DEF StreamType, ClientSend, serverVars
  <2>8. ControlType' /\ ReportType' /\ BufferType'
    BY <1>3 DEF ControlType, ReportType, BufferType, ClientSend, serverVars
  <2>9. ClientType'
    BY <1>3, <2>1 DEF ClientType, ClientSend
  <2> QED BY <2>7, <2>8, <2>9
<1>4. CASE ClientRead(c)
  <2> DEFINE total == Total(Reply(asked[c]))
  <2>1. total \in Nat /\ got[c] < total /\ got[c] \in Nat
    BY <1>4, ReplyType, TotalType DEF ClientRead, ClientInv, ClientType
  <2>2. PICK n \in 1..Len(rep[c]) :
          LET done == got[c] + n >= total
              m == IF done THEN total - got[c] ELSE n
          IN  /\ rep' = [rep EXCEPT ![c] = SubSeq(@, m + 1, Len(@))]
              /\ got' = [got EXCEPT ![c] = @ + m]
              /\ asked' = [asked EXCEPT ![c] = IF done THEN NoKind ELSE @]
              /\ unsent' = [unsent EXCEPT ![c] = IF done THEN 0 ELSE @]
    BY <1>4 DEF ClientRead
  <2> DEFINE m == IF got[c] + n >= total THEN total - got[c] ELSE n
  <2>3. Len(rep[c]) \in Nat /\ rep[c] \in Seq(Units)
    BY DEF StreamType
  <2> HIDE DEF total
  <2>4. m \in 0..Len(rep[c])
    BY <2>1, <2>3
  <2>5. /\ rep' = [rep EXCEPT ![c] = SubSeq(@, m + 1, Len(@))]
        /\ got' = [got EXCEPT ![c] = @ + m]
    BY <2>2
  <2>6. /\ asked' \in [Socks -> RequestKinds \cup {NoKind}]
        /\ unsent' \in [Socks -> Nat]
    BY <2>2 DEF ClientType
  <2> HIDE DEF m
  <2>7. SubSeq(rep[c], m + 1, Len(rep[c])) \in Seq(Units)
    BY <2>3, <2>4, DropType
  <2>8. StreamType'
    BY <1>4, <2>5, <2>7 DEF StreamType, ClientRead, serverVars
  <2>9. ControlType' /\ ReportType' /\ BufferType'
    BY <1>4 DEF ControlType, ReportType, BufferType, ClientRead, serverVars
  <2>10. ClientType'
    BY <1>4, <2>3, <2>4, <2>5, <2>6 DEF ClientType, ClientRead
  <2> QED BY <2>8, <2>9, <2>10
<1>5. CASE ClientClose(c)
  BY <1>5 DEF ClientClose, serverVars, clientVars, ControlType, ReportType,
              BufferType, StreamType, ClientType
<1> QED BY <1>1, <1>2, <1>3, <1>4, <1>5 DEF ClientStep

-----------------------------------------------------------------------------
(* The state of each connection.                                           *)

\* The initial state.
LEMMA InitRest == SysInit => Registered /\ ReplyInv /\ ClientInv /\ CloseOnlyAligned
BY DEF SysInit, Init, Registered, ReplyInv, ClientInv, CloseOnlyAligned

\* What connection d keeps when an activation of another connection steps.
Untouched(d) ==
    /\ conn'[d] = conn[d] /\ state'[d] = state[d] /\ kind'[d] = kind[d]
    /\ fopened'[d] = fopened[d] /\ foff'[d] = foff[d] /\ buf'[d] = buf[d]
    /\ rd'[d] = rd[d] /\ wr'[d] = wr[d] /\ sent'[d] = sent[d]
    /\ why'[d] = why[d] /\ rep'[d] = rep[d] /\ replies'[d] = replies[d]

\* An activation of c touches no other connection.
LEMMA Elsewhere ==
    ASSUME IInv, NEW c \in Socks, NEW d \in Socks, d # c, ServerStep(c)
    PROVE  Untouched(d) /\ cur # d /\ cur' # d
<1> USE DEF IInv, SysTypeOK, TypeOK, ControlType, ReportType, BufferType,
        StreamType, Untouched
<1>0. ASSUME NEW r, Close(c, r), cur = c
      PROVE  Untouched(d) /\ cur # d /\ cur' # d
  BY <1>0 DEF Close, requestVars
<1>1. CASE Activate(c)
  BY <1>1 DEF Activate, AtRecv, AtSend, Return, Continue, connVars, requestVars,
              replyVars, statVars, netVars
<1>2. CASE Idle(c)
  BY <1>2 DEF Idle, AtRecv, AtSend, Return, Continue, connVars, requestVars,
              replyVars, statVars, netVars
<1>3. CASE RequestTooLong(c)
  BY <1>3 DEF RequestTooLong, AtRecv, AtSend, Return, Continue, connVars, requestVars,
              replyVars, statVars, netVars
<1>4. CASE RecvWouldBlock(c)
  BY <1>4 DEF RecvWouldBlock, AtRecv, AtSend, Return, Continue, connVars, requestVars,
              replyVars, statVars, netVars
<1>5. CASE RecvData(c)
  BY <1>5 DEF RecvData, AtRecv, AtSend, Return, Continue, connVars, requestVars,
              replyVars, statVars, netVars
<1>6. CASE Reply404Start(c)
  BY <1>6 DEF Reply404Start, AtRecv, AtSend, Return, Continue, connVars, requestVars,
              replyVars, statVars, netVars
<1>7. CASE ReplyFileStart(c)
  BY <1>7 DEF ReplyFileStart, AtRecv, AtSend, Return, Continue, connVars, requestVars,
              replyVars, statVars, netVars
<1>8. CASE FileContinue(c)
  BY <1>8 DEF FileContinue, AtRecv, AtSend, Return, Continue, connVars, requestVars,
              replyVars, statVars, netVars
<1>9. CASE SendWouldBlock(c)
  BY <1>9 DEF SendWouldBlock, AtRecv, AtSend, Return, Continue, connVars, requestVars,
              replyVars, statVars, netVars
<1>10. CASE SendData(c)
  BY <1>10 DEF SendData, AtRecv, AtSend, Return, Continue, connVars, requestVars,
              replyVars, statVars, netVars
<1>11. CASE RecvEnd(c) \/ FileError(c) \/ SendEnd(c)
  BY <1>0, <1>11 DEF RecvEnd, FileError, SendEnd, AtRecv, AtSend
<1> QED BY <1>1, <1>2, <1>3, <1>4, <1>5, <1>6, <1>7, <1>8, <1>9, <1>10, <1>11
        DEF ServerStep

\* A connection that is not touched, and not activated, keeps its invariant.
LEMMA UntouchedInv ==
    ASSUME NEW d \in Socks, Untouched(d), cur # d, cur' # d, ConnInv(d)
    PROVE  ConnInv(d)'
BY DEF Untouched, ConnInv, NotStarted, Filling, Flushing, Window, Total, Aligned

\* A running activation is of a registered connection, which has its invariant.
LEMMA Running ==
    ASSUME IInv, NEW c \in Socks, cur = c
    PROVE  conn[c] = "accepted" /\ ConnInv(c)
BY DEF IInv, Registered, ReplyInv

\* The steps that read the request leave the connection in order.
LEMMA RequestInv ==
    ASSUME IInv, NEW c \in Socks,
           Activate(c) \/ Idle(c) \/ RequestTooLong(c) \/ RecvWouldBlock(c)
             \/ RecvData(c) \/ SendWouldBlock(c)
    PROVE  ConnInv(c)'
<1> USE DEF IInv, SysTypeOK, TypeOK, ControlType, BufferType
<1>1. CASE Activate(c)
  <2>1. ConnInv(c)
    BY <1>1 DEF Activate, ReplyInv
  <2> QED BY <1>1, <2>1 DEF Activate, connVars, requestVars, replyVars, ConnInv,
               NotStarted, Filling, Flushing, Window, Total, Aligned
<1>2. CASE Idle(c)
  BY <1>2 DEF Idle, Continue, ConnInv, NotStarted
<1>3. CASE RequestTooLong(c)
  <2>1. NotStarted(c)
    BY <1>3, Running DEF RequestTooLong, AtRecv, ConnInv
  <2> QED BY <1>3, <2>1 DEF RequestTooLong, Continue, replyVars, ConnInv, NotStarted
<1>4. CASE RecvWouldBlock(c)
  <2>1. NotStarted(c) /\ state[c] \in {"FS_IDLE", "FS_REQUEST"}
    BY <1>4, Running DEF RecvWouldBlock, AtRecv, ConnInv
  <2> QED BY <1>4, <2>1 DEF RecvWouldBlock, Return, replyVars, ConnInv, NotStarted
<1>5. CASE RecvData(c)
  <2>1. NotStarted(c)
    BY <1>5, Running DEF RecvData, AtRecv, ConnInv
  <2>2. /\ state'[c] \in {"FS_REQUEST", "FS_REPLY_404_START", "FS_REPLY_FILE_START"}
        /\ pc' = "switch" /\ UNCHANGED replyVars
    BY <1>5 DEF RecvData, Return, Continue
  <2> QED BY <2>1, <2>2 DEF replyVars, ConnInv, NotStarted
<1>6. CASE SendWouldBlock(c)
  <2>1. ConnInv(c)
    BY <1>6, Running DEF SendWouldBlock, AtSend
  <2> QED BY <1>6, <2>1 DEF SendWouldBlock, AtSend, Return, requestVars, replyVars,
               ConnInv, NotStarted, Filling, Flushing, Window, Total, Aligned
<1> QED BY <1>1, <1>2, <1>3, <1>4, <1>5, <1>6

\* The two starts of a reply put its first units in the buffer.
LEMMA ReplyStartInv ==
    ASSUME IInv, NEW c \in Socks, Reply404Start(c) \/ ReplyFileStart(c)
    PROVE  ConnInv(c)'
<1> USE DEF IInv, SysTypeOK, TypeOK, ControlType, BufferType
<1>1. NotStarted(c)
  BY Running DEF Reply404Start, ReplyFileStart, ConnInv
<1>2. CASE Reply404Start(c)
  <2>1. /\ state'[c] = "FS_REPLY_SEND" /\ pc' = "switch" /\ ~fopened'[c]
        /\ kind'[c] = NotFound /\ wr'[c] = NotFoundLen
        /\ rd'[c] = 0 /\ sent'[c] = 0
        /\ \A i \in 1..NotFoundLen : buf'[c][i] = <<NotFound, i>>
    BY <1>1, <1>2 DEF Reply404Start, Continue, NotStarted
  <2> QED BY <2>1 DEF ConnInv, Flushing, Window, Total
<1>3. CASE ReplyFileStart(c)
  <2>0. pc' = "switch" /\ rd'[c] = 0 /\ sent'[c] = 0 /\ foff'[c] = 0
        /\ kind'[c] = kind[c]
    BY <1>1, <1>3 DEF ReplyFileStart, Continue, NotStarted, requestVars
  <2>1. CASE state'[c] = "FS_REPLY_404_START"
    <3>1. wr'[c] = 0
      BY <1>1, <1>3, <2>1 DEF ReplyFileStart, NotStarted
    <3> QED BY <2>0, <2>1, <3>1 DEF ConnInv, NotStarted
  <2>2. CASE state'[c] # "FS_REPLY_404_START"
    <3>1. /\ kind[c] \in Files /\ wr'[c] = HdrLen
          /\ \A i \in 1..HdrLen : buf'[c][i] = <<kind[c], i>>
          /\ fopened'[c] = (FileLen[kind[c]] # 0)
          /\ state'[c] = IF FileLen[kind[c]] = 0 THEN "FS_REPLY_SEND"
                                                 ELSE "FS_REPLY_FILE_CONTINUE"
      BY <1>3, <2>2 DEF ReplyFileStart, ReplyKinds
    <3>2. Window(c)'
      BY <2>0, <3>1 DEF Window
    <3>3. FileLen[kind[c]] \in Nat /\ Total(kind[c]) = HdrLen + FileLen[kind[c]]
      BY <3>1 DEF Total
    <3>4. CASE FileLen[kind[c]] = 0
      <4>1. ~fopened'[c] /\ state'[c] = "FS_REPLY_SEND"
        BY <3>1, <3>4
      <4>2. (sent[c] + wr[c] - rd[c] = Total(kind[c]))'
        BY <2>0, <3>1, <3>3, <3>4 DEF Total
      <4>3. Flushing(c)'
        BY <2>0, <3>1, <3>2, <4>1, <4>2 DEF Flushing
      <4> QED BY <2>0, <4>1, <4>3 DEF ConnInv
    <3>5. CASE FileLen[kind[c]] # 0
      <4>1. fopened'[c] /\ state'[c] = "FS_REPLY_FILE_CONTINUE"
        BY <3>1, <3>5
      <4>2. Aligned(sent[c] - rd[c])'
        BY <2>0 DEF Aligned
      <4>3. Filling(c)'
        BY <2>0, <3>1, <3>2, <3>3, <3>5, <4>1, <4>2 DEF Filling
      <4> QED BY <2>0, <4>1, <4>3 DEF ConnInv
    <3> QED BY <3>4, <3>5
  <2> QED BY <2>1, <2>2
<1> QED BY <1>2, <1>3

\* Topping up the buffer from the file: the new units follow the old ones.
LEMMA FileContinueInv ==
    ASSUME IInv, NEW c \in Socks, FileContinue(c)
    PROVE  ConnInv(c)'
<1> DEFINE k == kind[c]
           left == FileLen[k] - foff[c]
           space == BufSize - wr[c]
           n == Smaller(space, left)
<1>1. Filling(c) /\ state[c] = "FS_REPLY_FILE_CONTINUE"
  BY Running DEF FileContinue, ConnInv
<1>2. /\ k \in Files /\ FileLen[k] \in Nat /\ foff[c] \in Nat
      /\ rd[c] \in 0..BufSize /\ wr[c] \in 0..BufSize /\ sent[c] \in Nat
      /\ left \in Nat /\ space \in Nat /\ FileLen[k] > 0
      /\ sent[c] + wr[c] - rd[c] = HdrLen + foff[c]
      /\ rd[c] <= wr[c]
  BY <1>1 DEF Filling, Window, IInv, SysTypeOK, TypeOK, BufferType
<1>3. /\ pc' = "send" /\ kind'[c] = k /\ rd'[c] = rd[c] /\ sent'[c] = sent[c]
      /\ cur' = c
  BY DEF FileContinue, Continue, requestVars
<1>4. CASE space = 0 \/ left = 0
  <2>1. /\ buf'[c] = buf[c] /\ wr'[c] = wr[c] /\ foff'[c] = foff[c]
        /\ fopened'[c] = fopened[c] /\ state'[c] = state[c]
    BY <1>4, <1>2 DEF FileContinue, FillSpace, IInv, SysTypeOK, TypeOK,
       ControlType, BufferType
  <2>2. wr[c] = BufSize \/ (wr[c] = 0 /\ foff[c] = FileLen[k])
    BY <1>1, <1>2, <1>4 DEF Filling
  <2>3. Filling(c)'
    BY <1>1, <1>3, <2>1, <2>2 DEF Filling, Window, Aligned
  <2> QED BY <1>1, <1>3, <2>1, <2>3 DEF ConnInv
<1>5. CASE space > 0 /\ left # 0
  <2>1. n \in Nat /\ n > 0 /\ wr[c] + n <= BufSize /\ foff[c] + n <= FileLen[k]
    BY <1>2, <1>5 DEF Smaller
  <2>2. /\ wr'[c] = wr[c] + n /\ foff'[c] = foff[c] + n
        /\ fopened'[c] = ~(left < space)
        /\ state'[c] = IF left < space THEN "FS_REPLY_SEND"
                                       ELSE "FS_REPLY_FILE_CONTINUE"
        /\ \A i \in 1..BufSize :
              buf'[c][i] = IF i \in wr[c] + 1 .. wr[c] + n
                           THEN <<k, HdrLen + foff[c] + (i - wr[c])>>
                           ELSE buf[c][i]
    <3>1. /\ buf' = [buf EXCEPT ![c] =
                       [i \in 1..BufSize |->
                          IF i \in wr[c] + 1 .. wr[c] + n
                          THEN <<k, HdrLen + foff[c] + (i - wr[c])>>
                          ELSE buf[c][i]]]
          /\ wr' = [wr EXCEPT ![c] = @ + n]
          /\ foff' = [foff EXCEPT ![c] = @ + n]
          /\ fopened' = [fopened EXCEPT ![c] = ~(left < space)]
          /\ state' = [state EXCEPT ![c] =
                           IF left < space THEN "FS_REPLY_SEND" ELSE @]
      <4>1. ~(FillSpace(c) = 0 \/ FileLen[kind[c]] - foff[c] = 0)
        BY <1>2, <1>5 DEF FillSpace
      <4> QED BY <4>1 DEF FileContinue, FillSpace, Feof
    <3> HIDE DEF n, left, space
    <3> QED BY <1>1, <3>1 DEF IInv, SysTypeOK, TypeOK, ControlType, BufferType
  <2> HIDE DEF n
  <2>3. \A i \in rd[c] + 1 .. wr[c] + n : buf'[c][i] = <<k, sent[c] + i - rd[c]>>
    <3> SUFFICES ASSUME NEW i \in rd[c] + 1 .. wr[c] + n
                 PROVE  buf'[c][i] = <<k, sent[c] + i - rd[c]>>
      OBVIOUS
    <3>1. i \in 1..BufSize /\ i \in Int
      BY <1>2, <2>1
    <3>a. buf'[c][i] = IF i \in wr[c] + 1 .. wr[c] + n
                       THEN <<k, HdrLen + foff[c] + (i - wr[c])>>
                       ELSE buf[c][i]
      BY <2>2, <3>1
    <3>2. CASE i <= wr[c]
      <4>1. buf'[c][i] = buf[c][i]
        BY <1>2, <3>1, <3>a, <3>2
      <4> QED BY <1>1, <1>2, <3>1, <3>2, <4>1 DEF Filling, Window
    <3>3. CASE i > wr[c]
      <4>1. i \in wr[c] + 1 .. wr[c] + n
        BY <1>2, <2>1, <3>1, <3>3
      <4>3. buf'[c][i] = <<k, HdrLen + foff[c] + (i - wr[c])>>
        BY <3>a, <4>1
      <4>2. HdrLen + foff[c] + (i - wr[c]) = sent[c] + i - rd[c]
        BY <1>2
      <4> QED BY <4>2, <4>3
    <3> QED BY <1>2, <3>1, <3>2, <3>3
  <2>4. rd[c] <= wr[c]
    BY <1>1, <1>2 DEF Filling, Window
  <2>5. Window(c)' /\ rd'[c] < wr'[c]
    BY <1>2, <1>3, <2>1, <2>2, <2>3, <2>4 DEF Window
  <2>6. CASE left < space
    <3>1. n = left
      BY <1>2, <2>6 DEF n, Smaller
    <3>2. ~fopened'[c] /\ state'[c] = "FS_REPLY_SEND"
      BY <2>2, <2>6
    <3>3. (sent[c] + wr[c] - rd[c] = Total(kind[c]))'
      BY <1>2, <1>3, <2>1, <2>2, <3>1 DEF Total
    <3>4. Flushing(c)'
      BY <2>5, <3>2, <3>3 DEF Flushing
    <3> QED BY <1>3, <3>2, <3>4 DEF ConnInv
  <2>7. CASE ~(left < space)
    <3>1. n = space
      BY <1>2, <2>7 DEF n, Smaller
    <3>2. fopened'[c] /\ state'[c] = "FS_REPLY_FILE_CONTINUE"
      BY <2>2, <2>7
    <3>3. wr'[c] = BufSize
      BY <1>2, <2>2, <3>1
    <3>4. (rd[c] <= sent[c] /\ Aligned(sent[c] - rd[c]))'
      BY <1>1, <1>3 DEF Filling, Aligned
    <3>5. Filling(c)'
      BY <1>2, <1>3, <2>1, <2>2, <2>5, <3>2, <3>3, <3>4 DEF Filling
    <3> QED BY <1>3, <3>2, <3>5 DEF ConnInv
  <2> QED BY <2>6, <2>7
<1> QED BY <1>2, <1>4, <1>5

\* What a send hands over, and where it leaves the offsets.
LEMMA SendFacts ==
    ASSUME IInv, NEW c \in Socks, SendData(c)
    PROVE  \E n \in 1..SndCap :
              /\ n <= wr[c] - rd[c]
              /\ rep' = [rep EXCEPT ![c] = @ \o [i \in 1..n |-> buf[c][rd[c] + i]]]
              /\ sent'[c] = sent[c] + n
              /\ rd'[c] = (IF rd[c] + n = wr[c] THEN 0 ELSE rd[c] + n)
              /\ wr'[c] = (IF rd[c] + n = wr[c] THEN 0 ELSE wr[c])
              /\ kind'[c] = kind[c] /\ fopened'[c] = fopened[c]
              /\ foff'[c] = foff[c] /\ buf'[c] = buf[c] /\ pc' = "switch"
              /\ IF rd[c] + n = wr[c] /\ ~fopened[c]
                 THEN state'[c] = "FS_IDLE" /\ replies'[c] = replies[c] + 1
                 ELSE state'[c] = state[c] /\ replies'[c] = replies[c]
<1> DEFINE n == Smaller(SendLen(c), SndCap - Len(rep[c]))
<1>1. /\ n > 0 /\ pc' = "switch"
      /\ rd' = [rd EXCEPT ![c] = NextRead(c, n)]
      /\ wr' = [wr EXCEPT ![c] = NextWrite(c, n)]
      /\ sent' = [sent EXCEPT ![c] = @ + n]
      /\ rep' = [rep EXCEPT ![c] = @ \o [i \in 1..n |-> buf[c][rd[c] + i]]]
      /\ UNCHANGED <<kind, fopened, foff, buf>>
      /\ IF ReplyFinished(c, n)
         THEN /\ state' = [state EXCEPT ![c] = "FS_IDLE"]
              /\ replies' = [replies EXCEPT ![c] = @ + 1]
         ELSE UNCHANGED <<state, replies>>
  BY DEF SendData, requestVars, Return, Continue
<1>2. rd[c] \in 0..BufSize /\ wr[c] \in 0..BufSize /\ Len(rep[c]) \in Nat
  BY DEF IInv, SysTypeOK, TypeOK, BufferType, StreamType
<1>3. n \in 1..SndCap /\ n <= wr[c] - rd[c]
  BY <1>1, <1>2 DEF SendLen, Smaller
<1> HIDE DEF n
<1>4. /\ sent'[c] = sent[c] + n
      /\ rd'[c] = (IF rd[c] + n = wr[c] THEN 0 ELSE rd[c] + n)
      /\ wr'[c] = (IF rd[c] + n = wr[c] THEN 0 ELSE wr[c])
  BY <1>1 DEF NextRead, NextWrite, IInv, SysTypeOK, TypeOK, BufferType
<1>5. IF rd[c] + n = wr[c] /\ ~fopened[c]
      THEN state'[c] = "FS_IDLE" /\ replies'[c] = replies[c] + 1
      ELSE state'[c] = state[c] /\ replies'[c] = replies[c]
  BY <1>1 DEF ReplyFinished, IInv, SysTypeOK, TypeOK, ControlType, ReportType
<1> QED BY <1>1, <1>3, <1>4, <1>5

\* A send moves the window, and a drained buffer leaves the reply aligned.
LEMMA SendDataInv ==
    ASSUME IInv, NEW c \in Socks, SendData(c)
    PROVE  ConnInv(c)'
<1>1. ConnInv(c) /\ state[c] \in {"FS_REPLY_FILE_CONTINUE", "FS_REPLY_SEND"}
      /\ cur = c /\ (state[c] = "FS_REPLY_FILE_CONTINUE" => pc = "send")
  BY Running DEF SendData, AtSend, ConnInv
<1>2. /\ rd[c] \in 0..BufSize /\ wr[c] \in 0..BufSize /\ sent[c] \in Nat
      /\ foff[c] \in Nat
  BY DEF IInv, SysTypeOK, TypeOK, BufferType
<1>3. PICK n \in 1..SndCap :
              /\ n <= wr[c] - rd[c]
              /\ sent'[c] = sent[c] + n
              /\ rd'[c] = (IF rd[c] + n = wr[c] THEN 0 ELSE rd[c] + n)
              /\ wr'[c] = (IF rd[c] + n = wr[c] THEN 0 ELSE wr[c])
              /\ kind'[c] = kind[c] /\ fopened'[c] = fopened[c]
              /\ foff'[c] = foff[c] /\ buf'[c] = buf[c] /\ pc' = "switch"
              /\ IF rd[c] + n = wr[c] /\ ~fopened[c]
                 THEN state'[c] = "FS_IDLE"
                 ELSE state'[c] = state[c]
  BY SendFacts
<1>4. Window(c)
  BY <1>1 DEF ConnInv, Filling, Flushing
<1>5. Window(c)'
  <2>1. CASE rd[c] + n = wr[c]
    BY <1>2, <1>3, <2>1 DEF Window
  <2>2. CASE rd[c] + n # wr[c]
    BY <1>2, <1>3, <1>4, <2>2 DEF Window
  <2> QED BY <2>1, <2>2
<1>6. CASE state[c] = "FS_REPLY_SEND"
  <2>1. Flushing(c)
    BY <1>1, <1>6 DEF ConnInv
  <2>2. CASE rd[c] + n = wr[c]
    BY <1>3, <2>1, <2>2 DEF Flushing, ConnInv
  <2>3. CASE rd[c] + n # wr[c]
    <3>1. state'[c] = "FS_REPLY_SEND" /\ ~fopened'[c]
      BY <1>3, <1>6, <2>1, <2>3 DEF Flushing
    <3>2. Total(kind[c])' = Total(kind[c]) /\ Total(kind[c]) \in Nat
      BY <1>3, TotalType DEF Total, IInv, SysTypeOK, TypeOK, BufferType
    <3>3. (sent[c] + wr[c] - rd[c] = Total(kind[c]) /\ rd[c] < wr[c])'
      BY <1>2, <1>3, <2>1, <2>3, <3>2 DEF Flushing
    <3>4. Flushing(c)'
      BY <1>5, <3>1, <3>3 DEF Flushing
    <3> QED BY <1>3, <3>1, <3>4 DEF ConnInv
  <2> QED BY <2>2, <2>3
<1>7. CASE state[c] = "FS_REPLY_FILE_CONTINUE"
  <2>1. Filling(c) /\ wr[c] = BufSize
    BY <1>1, <1>2, <1>3, <1>7 DEF ConnInv, Filling
  <2>2. state'[c] = "FS_REPLY_FILE_CONTINUE" /\ fopened'[c]
    BY <1>3, <1>7, <2>1 DEF Filling
  <2>3. (rd[c] <= sent[c] /\ Aligned(sent[c] - rd[c]))'
    <3>1. CASE rd[c] + n = wr[c]
      <4>1. sent[c] - rd[c] \in Nat /\ Aligned(sent[c] - rd[c])
        BY <1>2, <2>1 DEF Filling
      <4>2. Aligned((sent[c] - rd[c]) + BufSize)
        BY <4>1, AlignedStep
      <4>3. rd'[c] = 0 /\ sent'[c] = (sent[c] - rd[c]) + BufSize
        BY <1>2, <1>3, <2>1, <3>1
      <4>4. sent'[c] - rd'[c] = (sent[c] - rd[c]) + BufSize /\ rd'[c] <= sent'[c]
        BY <1>2, <4>1, <4>3
      <4> QED BY <4>2, <4>4 DEF Aligned
    <3>2. CASE rd[c] + n # wr[c]
      <4>1. sent'[c] - rd'[c] = sent[c] - rd[c] /\ rd'[c] <= sent'[c]
        BY <1>2, <1>3, <2>1, <3>2 DEF Filling
      <4>2. Aligned(sent[c] - rd[c])
        BY <2>1 DEF Filling
      <4> QED BY <4>1, <4>2 DEF Aligned
    <3> QED BY <3>1, <3>2
  <2>4. (sent[c] + wr[c] - rd[c] = HdrLen + foff[c])'
    BY <1>2, <1>3, <2>1 DEF Filling
  <2>5. (wr[c] \in {0, BufSize})'
    BY <1>3, <2>1
  <2>6. Filling(c)'
    BY <1>3, <1>5, <2>1, <2>2, <2>3, <2>4, <2>5 DEF Filling
  <2> QED BY <1>3, <2>2, <2>6 DEF ConnInv
<1> QED BY <1>1, <1>6, <1>7

\* A send of nothing happens only at the end of an aligned reply.
LEMMA ZeroSend ==
    ASSUME IInv, NEW c \in Socks, AtSend(c), SendLen(c) = 0
    PROVE  sent[c] = Total(kind[c]) /\ Aligned(sent[c])
<1>1. ConnInv(c) /\ cur = c
  BY Running DEF AtSend
<1>2. /\ rd[c] \in 0..BufSize /\ wr[c] \in 0..BufSize /\ sent[c] \in Nat
      /\ foff[c] \in Nat
  BY DEF IInv, SysTypeOK, TypeOK, BufferType
<1>3. rd[c] = wr[c]
  BY <1>2 DEF SendLen
<1>4. state[c] = "FS_REPLY_FILE_CONTINUE" /\ pc = "send"
  BY <1>1, <1>2, <1>3 DEF AtSend, ConnInv, Flushing
<1>5. Filling(c)
  BY <1>1, <1>4 DEF ConnInv
<1>6. rd[c] = 0 /\ wr[c] = 0 /\ foff[c] = FileLen[kind[c]]
  BY <1>1, <1>2, <1>3, <1>4, <1>5 DEF Filling, Window
<1>7. sent[c] = HdrLen + FileLen[kind[c]] /\ kind[c] \in Files
  BY <1>2, <1>5, <1>6 DEF Filling
<1>8. Aligned(sent[c])
  <2>1. sent[c] - rd[c] = sent[c] /\ Aligned(sent[c] - rd[c])
    BY <1>2, <1>5, <1>6 DEF Filling
  <2> QED BY <2>1
<1> QED BY <1>7, <1>8 DEF Total

\* A step of an activation of c, as seen from its bookkeeping.
LEMMA ServerStepRest ==
    ASSUME IInv, NEW c \in Socks, ServerStep(c)
    PROVE  Registered' /\ ReplyInv' /\ CloseOnlyAligned'
<1> USE DEF IInv, SysTypeOK, TypeOK, ControlType
<1>1. conn[c] = "accepted" /\ why[c] = "none"
  BY Running DEF ServerStep, Activate, Idle, RequestTooLong, RecvWouldBlock,
     RecvEnd, RecvData, Reply404Start, ReplyFileStart, FileContinue, FileError,
     SendWouldBlock, SendEnd, SendData, AtRecv, AtSend, Registered
<1>2. CASE RecvEnd(c) \/ FileError(c) \/ SendEnd(c)
  <2>1. PICK r \in {"peer", "reset", "fault", "zero-send"} :
           Close(c, r) /\ (r = "zero-send" => SendEnd(c) /\ SendLen(c) = 0)
    BY <1>2 DEF RecvEnd, FileError, SendEnd
  <2>2. conn'[c] = "closed" /\ why'[c] = r /\ cur' = NoSock
    BY <2>1 DEF Close
  <2>3. sent'[c] = sent[c] /\ kind'[c] = kind[c]
    BY <2>1 DEF Close, requestVars
  <2>4. Registered'
    BY <1>2, <2>2, Elsewhere DEF ServerStep, Registered, Untouched
  <2>5. ReplyInv'
    BY <1>2, <2>2, Elsewhere, UntouchedInv DEF ServerStep, ReplyInv, Untouched
  <2>6. why'[c] = "zero-send" => sent'[c] = Total(kind'[c]) /\ Aligned(sent'[c])
    <3>1. ASSUME why'[c] = "zero-send"
          PROVE  sent[c] = Total(kind[c]) /\ Aligned(sent[c])
      BY <2>1, <2>2, <3>1, ZeroSend DEF SendEnd
    <3> QED BY <2>3, <3>1
  <2>7. CloseOnlyAligned'
    <3> SUFFICES ASSUME NEW d \in Socks, why'[d] = "zero-send"
                 PROVE  sent'[d] = Total(kind'[d]) /\ Aligned(sent'[d])
      BY DEF CloseOnlyAligned, Total, Aligned
    <3>1. CASE d = c
      BY <2>6, <3>1
    <3>2. CASE d # c
      <4>1. why[d] = "zero-send" /\ sent'[d] = sent[d] /\ kind'[d] = kind[d]
        BY <3>2, Elsewhere DEF Untouched
      <4> QED BY <4>1 DEF CloseOnlyAligned
    <3> QED BY <3>1, <3>2
  <2> QED BY <2>4, <2>5, <2>7
<1>3. CASE ~(RecvEnd(c) \/ FileError(c) \/ SendEnd(c))
  <2>1. conn' = conn /\ why' = why /\ cur' \in {c, NoSock}
    BY <1>3 DEF ServerStep, Activate, Idle, RequestTooLong, RecvWouldBlock,
       RecvData, Reply404Start, ReplyFileStart, FileContinue, SendWouldBlock,
       SendData, AtRecv, AtSend, Return, Continue, connVars, statVars
  <2>2. Registered'
    BY <1>1, <2>1 DEF Registered
  <2>3. ConnInv(c)'
    BY <1>3, RequestInv, ReplyStartInv, FileContinueInv, SendDataInv DEF ServerStep
  <2>4. ReplyInv'
    BY <2>1, <2>3, Elsewhere, UntouchedInv DEF ReplyInv
  <2>5. CloseOnlyAligned'
    <3> SUFFICES ASSUME NEW d \in Socks, why'[d] = "zero-send"
                 PROVE  sent'[d] = Total(kind'[d]) /\ Aligned(sent'[d])
      BY DEF CloseOnlyAligned, Total, Aligned
    <3>1. d # c
      BY <1>1, <2>1
    <3>2. why[d] = "zero-send" /\ sent'[d] = sent[d] /\ kind'[d] = kind[d]
      BY <3>1, Elsewhere DEF Untouched
    <3> QED BY <3>2 DEF CloseOnlyAligned
  <2> QED BY <2>2, <2>4, <2>5
<1> QED BY <1>2, <1>3

\* Accepting connections.
LEMMA AcceptAllRest ==
    ASSUME IInv, AcceptAll
    PROVE  Registered' /\ ReplyInv' /\ CloseOnlyAligned'
<1> USE DEF IInv, SysTypeOK, TypeOK, ControlType
<1>1. PICK S, L :
        /\ conn' = Fresh(Fresh(conn, S, "accepted"), L, "leaked")
        /\ state' = Fresh(state, S, "FS_IDLE") /\ why' = Fresh(why, S, "none")
        /\ L \cap S = {}
  BY DEF AcceptAll
<1>2. cur = NoSock /\ cur' = NoSock /\ UNCHANGED <<requestVars, replyVars>>
  BY DEF AcceptAll
<1>3. Registered'
  BY <1>1, <1>2 DEF Registered, Fresh
<1>4. ReplyInv'
  <2> SUFFICES ASSUME NEW d \in Socks, conn'[d] = "accepted" PROVE ConnInv(d)'
    BY DEF ReplyInv
  <2>1. CASE d \in S
    BY <1>1, <1>2, <2>1 DEF Fresh, ConnInv
  <2>2. CASE d \notin S
    <3>1. conn[d] = "accepted" /\ state'[d] = state[d]
      BY <1>1, <2>2 DEF Fresh
    <3>2. ConnInv(d)
      BY <3>1 DEF ReplyInv
    <3> QED BY <1>2, <3>1, <3>2 DEF ConnInv, NotStarted, Filling, Flushing, Window,
               Total, Aligned, requestVars, replyVars
  <2> QED BY <2>1, <2>2
<1>5. CloseOnlyAligned'
  <2> SUFFICES ASSUME NEW d \in Socks, why'[d] = "zero-send"
               PROVE  sent'[d] = Total(kind'[d]) /\ Aligned(sent'[d])
    BY DEF CloseOnlyAligned, Total, Aligned
  <2>1. why[d] = "zero-send"
    BY <1>1 DEF Fresh
  <2> QED BY <1>2, <2>1 DEF CloseOnlyAligned, requestVars, replyVars
<1> QED BY <1>3, <1>4, <1>5

\* A client touches nothing of the server but the table of pending connections.
LEMMA ClientStepRest ==
    ASSUME IInv, NEW c \in Socks, ClientStep(c)
    PROVE  Registered' /\ ReplyInv' /\ CloseOnlyAligned'
<1> USE DEF IInv, SysTypeOK, TypeOK, ControlType
<1>1. /\ UNCHANGED <<cur, pc, state, kind, fopened, foff, buf, rd, wr, sent, why>>
      /\ \/ conn' = conn
         \/ conn[c] # "accepted" /\ conn' = [conn EXCEPT ![c] = "pending"]
  BY DEF ClientStep, ClientConnect, ClientAsk, ClientSend, ClientRead, ClientClose,
         vars, serverVars, requestVars, replyVars, statVars
<1>2. \A d \in Socks : conn'[d] = "accepted" => conn[d] = "accepted"
  BY <1>1
<1>3. Registered'
  BY <1>1, <1>2 DEF Registered
<1>4. ReplyInv'
  BY <1>1, <1>2 DEF ReplyInv, ConnInv, NotStarted, Filling, Flushing, Window,
                    Total, Aligned
<1>5. CloseOnlyAligned'
  BY <1>1 DEF CloseOnlyAligned, Total, Aligned
<1> QED BY <1>3, <1>4, <1>5

\* A client stays short of the end of what it asked for.
LEMMA ClientStepInv ==
    ASSUME IInv, NEW c \in Socks, ClientStep(c)
    PROVE  ClientInv'
<1> USE DEF IInv, SysTypeOK, ClientType
<1>1. \A k : Total(Reply(k)) \in Nat /\ Total(Reply(k)) > 0
  BY ReplyType, TotalType
<1>2. CASE ClientConnect(c)
  BY <1>2 DEF ClientInv, ClientConnect
<1>3. ASSUME NEW k \in RequestKinds, ClientAsk(c, k) PROVE ClientInv'
  <2>1. NoKind \notin RequestKinds
    BY DEF RequestKinds, NoKind, Missing, Malformed
  <2> QED BY <1>1, <1>3, <2>1 DEF ClientInv, ClientAsk
<1>4. CASE ClientSend(c)
  <2>1. asked' = asked /\ got' = got /\ asked[c] # NoKind
    BY <1>4 DEF ClientSend, ClientInv
  <2>2. \A d \in Socks : d # c => unsent'[d] = unsent[d]
    BY <1>4 DEF ClientSend
  <2> QED BY <2>1, <2>2 DEF ClientInv
<1>5. CASE ClientRead(c)
  <2>1. PICK n \in 1..Len(rep[c]) :
          LET done == got[c] + n >= Total(Reply(asked[c]))
          IN  /\ ~done => got' = [got EXCEPT ![c] = @ + n]
              /\ \A d \in Socks : d # c => got'[d] = got[d]
              /\ asked' = [asked EXCEPT ![c] = IF done THEN NoKind ELSE @]
              /\ unsent' = [unsent EXCEPT ![c] = IF done THEN 0 ELSE @]
    BY <1>5 DEF ClientRead
  <2>2. \A d \in Socks : d # c =>
           asked'[d] = asked[d] /\ got'[d] = got[d] /\ unsent'[d] = unsent[d]
    BY <2>1
  <2>3. CASE got[c] + n >= Total(Reply(asked[c]))
    <3>1. asked'[c] = NoKind /\ unsent'[c] = 0
      BY <2>1, <2>3
    <3> QED BY <2>2, <3>1 DEF ClientInv
  <2>4. CASE ~(got[c] + n >= Total(Reply(asked[c])))
    <3>1. asked'[c] = asked[c] /\ unsent'[c] = unsent[c] /\ got'[c] = got[c] + n
      BY <2>1, <2>4
    <3>2. Len(rep[c]) \in Nat
      BY DEF TypeOK, StreamType
    <3>3. got'[c] < Total(Reply(asked[c]))
      BY <1>1, <2>4, <3>1, <3>2
    <3> QED BY <2>2, <3>1, <3>3 DEF ClientInv
  <2> QED BY <2>3, <2>4
<1>6. CASE ClientClose(c)
  BY <1>6 DEF ClientInv, ClientClose, clientVars
<1> QED BY <1>2, <1>3, <1>4, <1>5, <1>6 DEF ClientStep

-----------------------------------------------------------------------------
(* The theorems.                                                           *)

\* IInv holds in every reachable state: it holds initially, and every step of
\* the event loop, of a connection's state machine or of a client preserves it.
THEOREM Invariance == SysSpec => []IInv
<1>1. SysInit => IInv
  BY InitType, InitRest DEF IInv
<1>2. IInv /\ [SysNext]_sysVars => IInv'
  <2> SUFFICES ASSUME IInv, [SysNext]_sysVars PROVE IInv'
    OBVIOUS
  <2>1. CASE UNCHANGED sysVars
    <3>0. UNCHANGED <<cur, pc, conn, state, interest, rbuf, kind, fopened, foff,
             buf, rd, wr, replyDone, progress, report, replies, sent, why, cli,
             req, rep, asked, unsent, got, requests>>
      BY <2>1 DEF sysVars, vars, serverVars, netVars, clientVars
    <3>1. SysTypeOK'
      BY <3>0 DEF IInv, SysTypeOK, TypeOK, ControlType, ReportType, BufferType,
         StreamType, ClientType
    <3>2. Registered' /\ ClientInv'
      BY <3>0 DEF IInv, Registered, ClientInv, Reply, Total
    <3>3. ReplyInv'
      BY <3>0 DEF IInv, ReplyInv, ConnInv, NotStarted, Filling, Flushing, Window,
         Total, Aligned
    <3>4. CloseOnlyAligned'
      BY <3>0 DEF IInv, CloseOnlyAligned, Total, Aligned
    <3> QED BY <3>1, <3>2, <3>3, <3>4 DEF IInv
  <2>2. CASE Server
    <3>1. SysTypeOK'
      BY <2>2, ServerType
    <3>2. ClientInv'
      BY <2>2 DEF Server, clientVars, ClientInv, IInv, Reply, Total
    <3>3. Registered' /\ ReplyInv' /\ CloseOnlyAligned'
      BY <2>2, ServerStepRest, AcceptAllRest DEF Server, ServerNext
    <3> QED BY <3>1, <3>2, <3>3 DEF IInv
  <2>3. ASSUME NEW c \in Socks, ClientStep(c) PROVE IInv'
    BY <2>3, ClientStepType, ClientStepRest, ClientStepInv DEF IInv
  <2> QED BY <2>1, <2>2, <2>3 DEF SysNext
<1> QED BY <1>1, <1>2, PTL DEF SysSpec

\* The type invariant, which keeps both offsets inside reply.buf: fread and
\* send never run past the buffer, whatever the sizes of files and buffers.
THEOREM TypeCorrect == SysSpec => []SysTypeOK
BY Invariance, PTL DEF IInv

\* The buffer arithmetic of every registered connection holds at every step of
\* its activations and across them.
THEOREM BufferArithmetic == SysSpec => []ReplyInv
BY Invariance, PTL DEF IInv

\* The server hangs up of its own accord only at the end of a reply that fills
\* the buffer a whole number of times.
THEOREM HangUpOnlyAligned == SysSpec => []CloseOnlyAligned
BY Invariance, PTL DEF IInv

\* replies_sent counts a reply only when all of it has been handed over.
THEOREM RepliesCountedExactly == SysSpec => ReplyExact
<1>1. IInv /\ [SysNext]_sysVars =>
        [\A c \in Socks :
            replies'[c] = replies[c] + 1 => sent'[c] = Total(kind[c])]_sysVars
  <2> SUFFICES ASSUME IInv, SysNext, NEW c \in Socks,
                      replies'[c] = replies[c] + 1
               PROVE  sent'[c] = Total(kind[c])
    OBVIOUS
  <2>0. replies[c] \in Nat
    BY DEF IInv, SysTypeOK, TypeOK, ReportType
  <2>1. CASE SendData(c)
    <3>1. PICK n \in 1..SndCap :
             /\ sent'[c] = sent[c] + n
             /\ IF rd[c] + n = wr[c] /\ ~fopened[c]
                THEN replies'[c] = replies[c] + 1
                ELSE replies'[c] = replies[c]
      BY <2>1, SendFacts
    <3>2. rd[c] + n = wr[c] /\ ~fopened[c]
      BY <2>0, <3>1
    <3>3. ConnInv(c) /\ state[c] \in {"FS_REPLY_FILE_CONTINUE", "FS_REPLY_SEND"}
      BY <2>1, Running DEF SendData, AtSend, ConnInv
    <3>4. Flushing(c)
      BY <3>2, <3>3 DEF ConnInv, Filling
    <3>5. rd[c] \in 0..BufSize /\ wr[c] \in 0..BufSize /\ sent[c] \in Nat
      BY DEF IInv, SysTypeOK, TypeOK, BufferType
    <3> QED BY <3>1, <3>2, <3>4, <3>5 DEF Flushing
  <2>2. CASE AcceptAll
    <3>1. replies'[c] \in {replies[c], 0}
      BY <2>2 DEF AcceptAll, Fresh, IInv, SysTypeOK, TypeOK, ReportType
    <3> QED BY <2>0, <3>1
  <2>3. CASE ServerStep(c) /\ ~SendData(c)
    <3>1. replies' = replies
      BY <2>3 DEF ServerStep, Activate, Idle, RequestTooLong, RecvWouldBlock,
         RecvEnd, RecvData, Reply404Start, ReplyFileStart, FileContinue,
         FileError, SendWouldBlock, SendEnd, Close, statVars
    <3> QED BY <2>0, <3>1
  <2>4. ASSUME NEW d \in Socks, d # c, ServerStep(d) PROVE FALSE
    <3>1. replies'[c] = replies[c]
      BY <2>4, Elsewhere DEF Untouched
    <3> QED BY <2>0, <3>1
  <2>5. ASSUME NEW d \in Socks, ClientStep(d) PROVE FALSE
    <3>1. replies' = replies
      BY <2>5 DEF ClientStep, ClientConnect, ClientAsk, ClientSend, ClientRead,
         ClientClose, vars, serverVars, statVars
    <3> QED BY <2>0, <3>1
  <2> QED BY <2>1, <2>2, <2>3, <2>4, <2>5 DEF SysNext, Server, ServerNext
<1> QED BY <1>1, Invariance, PTL DEF SysSpec, ReplyExact

\* Every step that hands units to a socket hands over the next ones of the
\* reply: nothing is lost, repeated or reordered by refills and partial sends.
THEOREM StreamInOrder == SysSpec => SendInOrder
<1> DEFINE Ordered(c) ==
             Len(rep'[c]) > Len(rep[c]) =>
                \E n \in 1..SndCap :
                   /\ rep'[c] = rep[c] \o [i \in 1..n |-> <<kind[c], sent[c] + i>>]
                   /\ sent'[c] = sent[c] + n
<1>1. IInv /\ [SysNext]_sysVars => [\A c \in Socks : Ordered(c)]_sysVars
  <2> SUFFICES ASSUME IInv, SysNext, NEW c \in Socks PROVE Ordered(c)
    OBVIOUS
  <2>0. rep[c] \in Seq(Units) /\ Len(rep[c]) \in Nat
    BY DEF IInv, SysTypeOK, TypeOK, StreamType
  <2>1. CASE SendData(c)
    <3>1. PICK n \in 1..SndCap :
             /\ n <= wr[c] - rd[c]
             /\ rep' = [rep EXCEPT ![c] = @ \o [i \in 1..n |-> buf[c][rd[c] + i]]]
             /\ sent'[c] = sent[c] + n
      BY <2>1, SendFacts
    <3>2. Window(c)
      BY <2>1, Running DEF SendData, AtSend, ConnInv, Filling, Flushing
    <3>3. rd[c] \in 0..BufSize /\ wr[c] \in 0..BufSize /\ sent[c] \in Nat
      BY DEF IInv, SysTypeOK, TypeOK, BufferType
    <3>4. \A i \in 1..n : buf[c][rd[c] + i] = <<kind[c], sent[c] + i>>
      <4> SUFFICES ASSUME NEW i \in 1..n
                   PROVE  buf[c][rd[c] + i] = <<kind[c], sent[c] + i>>
        OBVIOUS
      <4>1. rd[c] + i \in rd[c] + 1 .. wr[c]
        BY <3>1, <3>3
      <4>2. sent[c] + (rd[c] + i) - rd[c] = sent[c] + i
        BY <3>3
      <4> QED BY <3>2, <4>1, <4>2 DEF Window
    <3>5. [i \in 1..n |-> buf[c][rd[c] + i]] = [i \in 1..n |-> <<kind[c], sent[c] + i>>]
      BY <3>4
    <3>6. rep'[c] = rep[c] \o [i \in 1..n |-> buf[c][rd[c] + i]]
      BY <3>1 DEF IInv, SysTypeOK, TypeOK, StreamType
    <3> QED BY <3>1, <3>5, <3>6
  <2>2. CASE AcceptAll
    BY <2>0, <2>2 DEF AcceptAll, netVars
  <2>3. CASE ServerStep(c) /\ ~SendData(c)
    <3>1. rep' = rep
      BY <2>3 DEF ServerStep, Activate, Idle, RequestTooLong, RecvWouldBlock,
         RecvEnd, RecvData, Reply404Start, ReplyFileStart, FileContinue,
         FileError, SendWouldBlock, SendEnd, Close, netVars
    <3> QED BY <2>0, <3>1
  <2>4. ASSUME NEW d \in Socks, d # c, ServerStep(d) PROVE Ordered(c)
    <3>1. rep'[c] = rep[c]
      BY <2>4, Elsewhere DEF Untouched
    <3> QED BY <2>0, <3>1
  <2>5. ASSUME NEW d \in Socks, ClientStep(d) PROVE Ordered(c)
    <3>1. Len(rep'[c]) <= Len(rep[c])
      <4>1. CASE ClientRead(d)
        <5>1. PICK m \in Nat : rep' = [rep EXCEPT ![d] = SubSeq(@, m + 1, Len(@))]
          <6>1. Total(Reply(asked[d])) \in Nat /\ got[d] \in Nat
                /\ got[d] < Total(Reply(asked[d]))
            BY <4>1, ReplyType, TotalType
               DEF ClientRead, IInv, SysTypeOK, ClientType, ClientInv
          <6>2. Total(Reply(asked[d])) - got[d] \in Nat
            BY <6>1
          <6>3. Len(rep[d]) \in Nat
            BY DEF IInv, SysTypeOK, TypeOK, StreamType
          <6>4. PICK n \in 1..Len(rep[d]) :
                   \E m \in {Total(Reply(asked[d])) - got[d], n} :
                      rep' = [rep EXCEPT ![d] = SubSeq(@, m + 1, Len(@))]
            BY <4>1 DEF ClientRead
          <6>5. n \in Nat
            BY <6>3
          <6>6. PICK m \in {Total(Reply(asked[d])) - got[d], n} :
                   rep' = [rep EXCEPT ![d] = SubSeq(@, m + 1, Len(@))]
            BY <6>4
          <6>7. m \in Nat
            BY <6>2, <6>5, <6>6
          <6> QED BY <6>6, <6>7
        <5>2. Len(SubSeq(rep[c], m + 1, Len(rep[c]))) <= Len(rep[c])
          BY <2>0
        <5>3. rep'[c] = rep[c] \/ rep'[c] = SubSeq(rep[c], m + 1, Len(rep[c]))
          BY <5>1 DEF IInv, SysTypeOK, TypeOK, StreamType
        <5> QED BY <2>0, <5>2, <5>3
      <4>2. CASE ClientConnect(d)
        <5>1. rep'[c] = rep[c] \/ rep'[c] = <<>>
          BY <4>2 DEF ClientConnect, IInv, SysTypeOK, TypeOK, StreamType
        <5> QED BY <2>0, <5>1
      <4>3. CASE ~ClientRead(d) /\ ~ClientConnect(d)
        <5>1. rep' = rep
          BY <2>5, <4>3 DEF ClientStep, ClientAsk, ClientSend, ClientClose, vars, netVars
        <5> QED BY <2>0, <5>1
      <4> QED BY <4>1, <4>2, <4>3
    <3>2. rep'[c] \in Seq(Units)
      <4>1. SysTypeOK'
        BY <2>5, ClientStepType
      <4> QED BY <4>1 DEF SysTypeOK, TypeOK, StreamType
    <3>3. Len(rep'[c]) \in Nat
      BY <3>2
    <3> QED BY <2>0, <3>1, <3>3
  <2> QED BY <2>1, <2>2, <2>3, <2>4, <2>5 DEF SysNext, Server, ServerNext
<1> QED BY <1>1, Invariance, PTL DEF SysSpec, SendInOrder

-----------------------------------------------------------------------------
(* What travels between the two ends is the exchange that the client began. *)

\* What FS_IDLE will not throw away of the request buffer.
Kept(c) ==
    IF conn[c] = "accepted" /\ state[c] = "FS_REQUEST" THEN rbuf[c] ELSE <<>>

\* Nothing was asked, or the request is on its way.
Asking(c) ==
    /\ conn[c] = "accepted" => state[c] \in {"FS_IDLE", "FS_REQUEST"}
    /\ rep[c] = <<>>
    /\ IF asked[c] = NoKind
       THEN req[c] = <<>> /\ (conn[c] = "accepted" => state[c] = "FS_IDLE")
       ELSE got[c] = 0 /\ Outstanding(asked[c], Kept(c), req[c], unsent[c])

\* What the client will read is the next part of the reply, and not more than that.
OnTheWay(c) ==
    IF asked[c] = NoKind
    THEN rep[c] = <<>>
    ELSE /\ got[c] + Len(rep[c]) <= Total(Reply(asked[c]))
         /\ \A i \in 1..Len(rep[c]) : rep[c][i] = <<Reply(asked[c]), got[c] + i>>

\* The server has all of the request.
Handed(c) == asked[c] # NoKind /\ unsent[c] = 0 /\ req[c] = <<>>

Starting(c) ==
    /\ Handed(c) /\ got[c] = 0 /\ rep[c] = <<>>
    /\ \/ state[c] = "FS_REPLY_404_START" /\ Reply(asked[c]) = NotFound
       \/ state[c] = "FS_REPLY_FILE_START" /\ Reply(asked[c]) = kind[c]

Replying(c) ==
    /\ Handed(c) /\ OnTheWay(c)
    /\ state[c] \in {"FS_REPLY_FILE_CONTINUE", "FS_REPLY_SEND"}
    /\ kind[c] = Reply(asked[c]) /\ sent[c] = got[c] + Len(rep[c])

\* The server is done with the reply, the client is not.
Finished(c) ==
    /\ Handed(c) /\ OnTheWay(c) /\ state[c] = "FS_IDLE"
    /\ got[c] + Len(rep[c]) = Total(Reply(asked[c]))

\* The client is done with the reply, and the server, which has not seen the end of the
\* file, is about to send nothing and hang up.
Stalled(c) ==
    /\ state[c] = "FS_REPLY_FILE_CONTINUE" /\ sent[c] = Total(kind[c])
    /\ rep[c] = <<>> /\ (asked[c] # NoKind => got[c] = 0)

Exchange(c) ==
    \/ conn[c] = "closed" /\ OnTheWay(c)
    \/ conn[c] \in {"pending", "accepted", "leaked"} /\ Asking(c)
    \/ /\ conn[c] = "accepted"
       /\ Starting(c) \/ Replying(c) \/ Finished(c) \/ Stalled(c)

Stream(c) ==
    /\ cur = c /\ pc = "recv" => rbuf[c] = <<>>
    /\ cli[c] = "open" => Exchange(c)

StreamInv == \A c \in Socks : Stream(c)

\* A request and its final NUL fit the request buffer.
RequestsFit == \A k \in RequestKinds : ReqLen[k] < ReqBufSize

\* The types that are needed of a connection.
LEMMA StreamTypes ==
    ASSUME IInv, NEW c \in Socks
    PROVE  /\ req[c] \in Seq(ReqUnits) /\ rbuf[c] \in Seq(ReqUnits) /\ rep[c] \in Seq(Units)
           /\ Len(req[c]) \in Nat /\ Len(rbuf[c]) \in Nat /\ Len(rep[c]) \in Nat
           /\ got[c] \in Nat /\ unsent[c] \in Nat /\ sent[c] \in Nat
           /\ rd[c] \in 0..BufSize /\ wr[c] \in 0..BufSize /\ foff[c] \in Nat
           /\ asked[c] \in RequestKinds \cup {NoKind} /\ kind[c] \in ReplyKinds
           /\ conn[c] \in {"free", "pending", "accepted", "leaked", "closed"}
           /\ NoKind \notin RequestKinds
           /\ \A k \in RequestKinds : ReqLen[k] \in Nat /\ ReqLen[k] > 0
           /\ Total(Reply(asked[c])) \in Nat /\ Total(kind[c]) \in Nat
<1>1. /\ req[c] \in Seq(ReqUnits) /\ rbuf[c] \in Seq(ReqUnits) /\ rep[c] \in Seq(Units)
      /\ got[c] \in Nat /\ unsent[c] \in Nat /\ sent[c] \in Nat
      /\ rd[c] \in 0..BufSize /\ wr[c] \in 0..BufSize /\ foff[c] \in Nat
      /\ asked[c] \in RequestKinds \cup {NoKind} /\ kind[c] \in ReplyKinds
      /\ conn[c] \in {"free", "pending", "accepted", "leaked", "closed"}
  BY DEF IInv, SysTypeOK, TypeOK, ControlType, BufferType, StreamType, ClientType
<1>2. NoKind \notin RequestKinds
  BY DEF RequestKinds, NoKind, Missing, Malformed
<1>3. \A k \in RequestKinds : ReqLen[k] \in Nat /\ ReqLen[k] > 0
  OBVIOUS
<1>4. Total(Reply(asked[c])) \in Nat /\ Total(kind[c]) \in Nat
  BY <1>1, ReplyType, TotalType
<1>5. Len(req[c]) \in Nat /\ Len(rbuf[c]) \in Nat /\ Len(rep[c]) \in Nat
  BY <1>1
<1> QED BY <1>1, <1>2, <1>3, <1>4, <1>5, Zenon

\* Whatever the stage, nothing but the reply is on its way to the client.
LEMMA AlwaysOnTheWay ==
    ASSUME IInv, NEW c \in Socks, Exchange(c)
    PROVE  OnTheWay(c)
<1>1. /\ Total(Reply(asked[c])) \in Nat /\ Len(rep[c]) \in Nat
  BY StreamTypes
<1>2. ASSUME rep[c] = <<>>, asked[c] # NoKind => got[c] = 0 PROVE OnTheWay(c)
  BY <1>1, <1>2 DEF OnTheWay
<1>3. CASE Asking(c)
  BY <1>2, <1>3 DEF Asking
<1>4. CASE Starting(c) \/ Stalled(c)
  BY <1>2, <1>4 DEF Starting, Stalled
<1>5. CASE Replying(c) \/ Finished(c)
  BY <1>5 DEF Replying, Finished
<1> QED BY <1>3, <1>4, <1>5 DEF Exchange

\* At the start nobody is connected.
LEMMA StreamInit == SysInit => StreamInv
BY DEF SysInit, Init, StreamInv, Stream

\* What a step leaves alone of connection c, on both ends.
Same(c) ==
    /\ conn'[c] = conn[c] /\ state'[c] = state[c] /\ kind'[c] = kind[c]
    /\ sent'[c] = sent[c] /\ rbuf'[c] = rbuf[c]
    /\ cli'[c] = cli[c] /\ req'[c] = req[c] /\ rep'[c] = rep[c]
    /\ asked'[c] = asked[c] /\ unsent'[c] = unsent[c] /\ got'[c] = got[c]

LEMMA SameExchange ==
    ASSUME NEW c \in Socks, Same(c), Exchange(c)
    PROVE  Exchange(c)'
<1> USE DEF Same
<1>1. ASSUME Asking(c) PROVE Asking(c)'
  <2>1. Kept(c)' = Kept(c)
    BY DEF Kept
  <2>2. Outstanding(asked'[c], Kept(c)', req'[c], unsent'[c])
           <=> Outstanding(asked[c], Kept(c), req[c], unsent[c])
    BY <2>1
  <2> QED BY <1>1, <2>2 DEF Asking
<1>2. OnTheWay(c)' = OnTheWay(c) /\ Handed(c)' = Handed(c)
  BY DEF OnTheWay, Handed, Reply, Total
<1>3. ASSUME Starting(c) PROVE Starting(c)'
  BY <1>2, <1>3 DEF Starting, Reply
<1>4. ASSUME Replying(c) PROVE Replying(c)'
  BY <1>2, <1>4 DEF Replying, Reply
<1>5. ASSUME Finished(c) PROVE Finished(c)'
  BY <1>2, <1>5 DEF Finished, Reply, Total
<1>6. ASSUME Stalled(c) PROVE Stalled(c)'
  BY <1>6 DEF Stalled, Total
<1> QED BY <1>1, <1>2, <1>3, <1>4, <1>5, <1>6 DEF Exchange

LEMMA SameStream ==
    ASSUME NEW c \in Socks, Same(c), Stream(c), cur' = c => cur = c,
           cur' = c /\ pc' = "recv" => pc = "recv"
    PROVE  Stream(c)'
<1>1. cur' = c /\ pc' = "recv" => rbuf'[c] = <<>>
  BY DEF Same, Stream
<1>2. ASSUME cli'[c] = "open" PROVE Exchange(c)'
  BY <1>2, SameExchange DEF Same, Stream
<1> QED BY <1>1, <1>2 DEF Stream

\* A step of the server for one connection leaves the others alone, and what the
\* clients know.
LEMMA StreamElsewhere ==
    ASSUME IInv, NEW c \in Socks, NEW d \in Socks, d # c, ServerStep(c),
           UNCHANGED clientVars, Stream(d)
    PROVE  Stream(d)'
<1>1. Untouched(d) /\ cur' # d
  BY Elsewhere
<1>2. rbuf'[d] = rbuf[d] /\ req'[d] = req[d]
  <2> USE DEF IInv, SysTypeOK, TypeOK, StreamType
  <2>0. ASSUME NEW r, Close(c, r) PROVE rbuf'[d] = rbuf[d] /\ req'[d] = req[d]
    BY <2>0 DEF Close, requestVars
  <2>1. CASE RecvEnd(c) \/ FileError(c) \/ SendEnd(c)
    BY <2>0, <2>1 DEF RecvEnd, FileError, SendEnd
  <2>2. CASE Idle(c)
    BY <2>2 DEF Idle, netVars
  <2>3. CASE RecvData(c)
    BY <2>3 DEF RecvData
  <2>4. CASE SendData(c)
    BY <2>4 DEF SendData, requestVars
  <2>5. CASE Activate(c) \/ RequestTooLong(c) \/ RecvWouldBlock(c) \/ Reply404Start(c)
             \/ ReplyFileStart(c) \/ FileContinue(c) \/ SendWouldBlock(c)
    BY <2>5 DEF Activate, RequestTooLong, RecvWouldBlock, Reply404Start, ReplyFileStart,
       FileContinue, SendWouldBlock, requestVars, netVars
  <2> QED BY <2>1, <2>2, <2>3, <2>4, <2>5 DEF ServerStep
<1>3. cli' = cli
  BY DEF ServerStep, Activate, Idle, RequestTooLong, RecvWouldBlock, RecvEnd, RecvData,
     Reply404Start, ReplyFileStart, FileContinue, FileError, SendWouldBlock, SendEnd,
     SendData, Close, netVars
<1>4. Same(d)
  BY <1>1, <1>2, <1>3 DEF Untouched, Same, clientVars
<1> QED BY <1>1, <1>4, SameStream

\* Only FS_IDLE goes on to recv without the switch, with an empty buffer.
LEMMA RecvIsFresh ==
    ASSUME IInv, NEW c \in Socks, ServerStep(c), cur' = c, pc' = "recv"
    PROVE  rbuf'[c] = <<>>
<1>1. ~Activate(c) /\ ~RequestTooLong(c) /\ ~Reply404Start(c) /\ ~ReplyFileStart(c)
      /\ ~FileContinue(c)
  BY DEF Activate, RequestTooLong, Reply404Start, ReplyFileStart, FileContinue, Continue
<1>2. ~RecvWouldBlock(c) /\ ~SendWouldBlock(c) /\ ~RecvEnd(c) /\ ~FileError(c) /\ ~SendEnd(c)
  BY DEF RecvWouldBlock, SendWouldBlock, RecvEnd, FileError, SendEnd, Return, Close
<1>3. ~RecvData(c) /\ ~SendData(c)
  BY DEF RecvData, SendData, Return, Continue
<1>4. Idle(c)
  BY <1>1, <1>2, <1>3 DEF ServerStep
<1> QED BY <1>4 DEF Idle, IInv, SysTypeOK, TypeOK, StreamType

\* Closing: what is on its way stays there.
LEMMA CloseStream ==
    ASSUME IInv, NEW c \in Socks, NEW r, Close(c, r), UNCHANGED clientVars, Exchange(c)
    PROVE  Exchange(c)'
<1>1. conn'[c] = "closed"
  BY DEF Close, IInv, SysTypeOK, TypeOK, ControlType
<1>2. OnTheWay(c)'
  BY AlwaysOnTheWay DEF Close, OnTheWay, clientVars, Reply, Total
<1> QED BY <1>1, <1>2 DEF Exchange

\* Steps that read nothing, and those that wait.
LEMMA WaitStream ==
    ASSUME IInv, NEW c \in Socks, UNCHANGED clientVars, Exchange(c),
           Activate(c) \/ RecvWouldBlock(c) \/ SendWouldBlock(c)
    PROVE  Exchange(c)'
<1>1. Same(c)
  BY DEF Activate, RecvWouldBlock, SendWouldBlock, Return, connVars, requestVars, replyVars,
     netVars, clientVars, Same
<1> QED BY <1>1, SameExchange

\* FS_IDLE throws away what is not needed any more.
LEMMA IdleStream ==
    ASSUME IInv, NEW c \in Socks, UNCHANGED clientVars, Exchange(c), Idle(c)
    PROVE  Exchange(c)'
<1>1. /\ conn[c] = "accepted" /\ conn'[c] = "accepted" /\ state[c] = "FS_IDLE"
      /\ state'[c] = "FS_IDLE"
  BY Running DEF Idle, Continue
<1>2. UNCHANGED <<asked, unsent, got, req, rep>>
  BY DEF Idle, netVars, clientVars
<1>3. Asking(c) \/ Finished(c)
  BY <1>1 DEF Exchange, Starting, Replying, Stalled
<1>4. Kept(c) = <<>> /\ Kept(c)' = <<>>
  BY <1>1 DEF Kept
<1>5. ASSUME Asking(c) PROVE Asking(c)'
  <2>1. Outstanding(asked'[c], Kept(c)', req'[c], unsent'[c])
           <=> Outstanding(asked[c], Kept(c), req[c], unsent[c])
    BY <1>2, <1>4
  <2> QED BY <1>1, <1>2, <1>5, <2>1 DEF Asking
<1>6. ASSUME Finished(c) PROVE Finished(c)'
  BY <1>1, <1>2, <1>6 DEF Finished, Handed, OnTheWay, Reply, Total
<1> QED BY <1>1, <1>3, <1>5, <1>6 DEF Exchange

\* A request that is being received fits the buffer.
LEMMA NeverTooLong ==
    ASSUME IInv, RequestsFit, NEW c \in Socks, Stream(c), Exchange(c)
    PROVE  ~RequestTooLong(c)
<1> SUFFICES ASSUME RequestTooLong(c) PROVE FALSE
  OBVIOUS
<1>1. cur = c /\ conn[c] = "accepted" /\ ConnInv(c)
      /\ (pc = "recv" \/ (pc = "switch" /\ state[c] = "FS_REQUEST"))
  BY Running DEF RequestTooLong, AtRecv
<1>2. ReqBufSize - Len(rbuf[c]) - 1 <= 0
  BY DEF RequestTooLong, ReqSpace
<1>3. CASE pc = "recv"
  <2>1. Len(rbuf[c]) = 0
    BY <1>1, <1>3 DEF Stream
  <2> QED BY <1>2, <2>1
<1>4. CASE state[c] = "FS_REQUEST"
  <2>1. Asking(c) /\ asked[c] # NoKind /\ Kept(c) = rbuf[c]
    BY <1>1, <1>4 DEF Exchange, Asking, Starting, Replying, Finished, Stalled, Kept
  <2>2. Len(rbuf[c]) < ReqLen[asked[c]] /\ asked[c] \in RequestKinds
    BY <2>1, StreamTypes DEF Asking, Outstanding
  <2>3. ReqLen[asked[c]] < ReqBufSize /\ ReqLen[asked[c]] \in Nat /\ Len(rbuf[c]) \in Nat
    BY <2>2, StreamTypes DEF RequestsFit
  <2> QED BY <1>2, <2>2, <2>3
<1> QED BY <1>1, <1>3, <1>4

\* What the buffer holds of the request before recv: what the state keeps.
LEMMA Receiving ==
    ASSUME IInv, NEW c \in Socks, Stream(c), Exchange(c), RecvData(c)
    PROVE  /\ conn[c] = "accepted" /\ asked[c] \in RequestKinds
           /\ got[c] = 0 /\ rep[c] = <<>>
           /\ Outstanding(asked[c], rbuf[c], req[c], unsent[c])
<1>1. cur = c /\ conn[c] = "accepted" /\ ConnInv(c) /\ req[c] # <<>>
      /\ (pc = "recv" \/ (pc = "switch" /\ state[c] = "FS_REQUEST"))
  BY Running DEF RecvData, AtRecv
<1>2. state[c] \in {"FS_IDLE", "FS_REQUEST"}
  BY <1>1 DEF ConnInv
<1>3. Asking(c) /\ asked[c] # NoKind
  BY <1>1, <1>2 DEF Exchange, Starting, Replying, Finished, Stalled, Handed, Asking
<1>4. Kept(c) = rbuf[c]
  BY <1>1, <1>2 DEF Kept, Stream, ConnInv
<1> QED BY <1>1, <1>3, <1>4, StreamTypes DEF Asking

\* recv takes the next part of the request, and knows it when it is complete.
LEMMA RecvDataStream ==
    ASSUME IInv, RequestsFit, NEW c \in Socks, UNCHANGED clientVars, Stream(c), Exchange(c),
           RecvData(c)
    PROVE  Exchange(c)'
<1>1. PICK k \in RequestKinds :
         /\ asked[c] = k /\ conn[c] = "accepted" /\ got[c] = 0 /\ rep[c] = <<>>
         /\ Outstanding(k, rbuf[c], req[c], unsent[c])
  BY Receiving
<1>2. /\ req[c] \in Seq(ReqUnits) /\ rbuf[c] \in Seq(ReqUnits) /\ unsent[c] \in Nat
      /\ Len(req[c]) \in Nat /\ Len(rbuf[c]) \in Nat
      /\ ReqLen[k] \in Nat /\ ReqLen[k] > 0 /\ ReqLen[k] < ReqBufSize
      /\ k # NoKind
  BY StreamTypes DEF RequestsFit
<1>3. PICK n \in 1..Len(req[c]) : n = Smaller(ReqSpace(c), Len(req[c]))
  <2>1. ReqSpace(c) > 0 /\ req[c] # <<>> /\ ReqSpace(c) = ReqBufSize - Len(rbuf[c]) - 1
    BY DEF RecvData, ReqSpace
  <2>2. Len(req[c]) > 0
    BY <1>2, <2>1
  <2> QED BY <1>2, <2>1, <2>2 DEF Smaller
<1>4. PICK b : b = rbuf[c] \o SubSeq(req[c], 1, n)
  OBVIOUS
<1>5. PICK p : p = SubSeq(req[c], n + 1, Len(req[c]))
  OBVIOUS
<1>6. /\ rbuf'[c] = b /\ req'[c] = p /\ conn'[c] = "accepted" /\ rep'[c] = rep[c]
      /\ \/ state'[c] = "FS_REQUEST" /\ ~(\E i \in 1..Len(b) : b[i].last)
         \/ /\ state'[c] = "FS_REPLY_404_START" /\ \E i \in 1..Len(b) : b[i].last
            /\ Parse(b) = Malformed
         \/ /\ state'[c] = "FS_REPLY_FILE_START" /\ \E i \in 1..Len(b) : b[i].last
            /\ kind'[c] = Reply(Parse(b))
  BY <1>1, <1>3, <1>4, <1>5 DEF RecvData, Return, Continue, IInv, SysTypeOK, TypeOK,
     ControlType, StreamType, BufferType
<1>7. asked'[c] = k /\ got'[c] = 0 /\ unsent'[c] = unsent[c]
  BY <1>1 DEF clientVars
<1>8. /\ b \in Seq(ReqUnits)
      /\ \A i \in 1..Len(b) : b[i] = ReqUnit(k, i)
      /\ (\E i \in 1..Len(b) : b[i].last) <=> Len(b) = ReqLen[k]
      /\ Parse(b) = k
      /\ p \in Seq(ReqUnits) /\ Len(b) + Len(p) + unsent[c] = ReqLen[k]
      /\ Len(b) \in Nat /\ Len(p) \in Nat
      /\ \A i \in 1..Len(p) : p[i] = ReqUnit(k, Len(b) + i)
  <2>1. Receipt(k, rbuf[c], req[c], unsent[c], n)
    BY <1>1, <1>2, <1>3 DEF Receipt
  <2>2. Received(k, b, p, unsent[c])
    BY <1>4, <1>5, <2>1, PartOfRequest
  <2> QED BY <2>2 DEF Received
<1>9. Len(b) + Len(p) + unsent[c] = ReqLen[k] /\ Len(b) \in Nat /\ Len(p) \in Nat
  BY <1>8
<1>10. CASE state'[c] = "FS_REQUEST"
  <2>1. Len(b) # ReqLen[k]
    BY <1>6, <1>8, <1>10
  <2>2. Len(b) < ReqLen[k]
    BY <1>2, <1>9, <2>1
  <2>3. Outstanding(k, b, p, unsent[c])
    BY <1>8, <1>9, <2>2 DEF Outstanding
  <2>4. Asking(c)'
    BY <1>1, <1>2, <1>6, <1>7, <1>10, <2>3 DEF Asking, Kept, Outstanding, ReqUnit
  <2> QED BY <1>6, <2>4 DEF Exchange
<1>11. CASE state'[c] # "FS_REQUEST"
  <2>1. Len(b) = ReqLen[k]
    BY <1>6, <1>8, <1>11
  <2>2. unsent[c] = 0 /\ Len(p) = 0
    BY <1>2, <1>9, <2>1
  <2>3. p = <<>>
    BY <1>8, <2>2
  <2>4. Reply(Malformed) = NotFound
    BY DEF Reply, Malformed
  <2>5. Handed(c)'
    BY <1>2, <1>6, <1>7, <2>2, <2>3 DEF Handed
  <2>6. \/ state'[c] = "FS_REPLY_404_START" /\ Reply(k) = NotFound
        \/ state'[c] = "FS_REPLY_FILE_START" /\ kind'[c] = Reply(k)
    BY <1>6, <1>8, <1>11, <2>4
  <2>7. Starting(c)'
    BY <1>1, <1>6, <1>7, <2>5, <2>6 DEF Starting, Reply
  <2> QED BY <1>6, <2>7 DEF Exchange
<1> QED BY <1>10, <1>11

\* The two starts of a reply choose what the client asked for.
LEMMA ReplyStartStream ==
    ASSUME IInv, "file" \notin Faults, NEW c \in Socks, UNCHANGED clientVars, Exchange(c),
           Reply404Start(c) \/ ReplyFileStart(c)
    PROVE  Exchange(c)'
<1>1. /\ conn[c] = "accepted" /\ ConnInv(c) /\ sent[c] = 0
      /\ state[c] \in {"FS_REPLY_404_START", "FS_REPLY_FILE_START"}
  BY Running DEF Reply404Start, ReplyFileStart, ConnInv, NotStarted
<1>2. Starting(c)
  BY <1>1 DEF Exchange, Asking, Replying, Finished, Stalled
<1>3. /\ UNCHANGED <<asked, unsent, got, req, rep>> /\ conn'[c] = "accepted" /\ sent'[c] = 0
  BY <1>1 DEF Reply404Start, ReplyFileStart, Continue, netVars, clientVars
<1>4. Handed(c)' /\ OnTheWay(c)' /\ got'[c] = 0 /\ rep'[c] = <<>> /\ Len(rep'[c]) = 0
  <2>1. Handed(c)' /\ got'[c] = 0 /\ rep'[c] = <<>> /\ Len(rep'[c]) = 0
    BY <1>2, <1>3 DEF Starting, Handed
  <2>2. OnTheWay(c)
    BY AlwaysOnTheWay
  <2>3. OnTheWay(c)'
    BY <1>3, <2>2 DEF OnTheWay, Reply, Total
  <2> QED BY <2>1, <2>3
<1>5. asked[c] # NoKind /\ Reply(asked[c])' = Reply(asked[c])
  BY <1>2, <1>3 DEF Starting, Handed, Reply
<1>6. ASSUME state'[c] \in {"FS_REPLY_FILE_CONTINUE", "FS_REPLY_SEND"},
             kind'[c] = Reply(asked[c])
      PROVE  Exchange(c)'
  <2>1. Replying(c)'
    BY <1>3, <1>4, <1>5, <1>6 DEF Replying
  <2> QED BY <1>3, <2>1 DEF Exchange
<1>7. CASE Reply404Start(c)
  <2>1. state'[c] = "FS_REPLY_SEND" /\ kind'[c] = NotFound /\ state[c] = "FS_REPLY_404_START"
    BY <1>7 DEF Reply404Start, IInv, SysTypeOK, TypeOK, ControlType, BufferType
  <2> QED BY <1>2, <1>6, <2>1 DEF Starting
<1>8. CASE ReplyFileStart(c)
  <2>1. /\ kind'[c] = kind[c] /\ state[c] = "FS_REPLY_FILE_START"
        /\ \/ kind[c] = NotFound /\ state'[c] = "FS_REPLY_404_START"
           \/ state'[c] \in {"FS_REPLY_FILE_CONTINUE", "FS_REPLY_SEND"}
    BY <1>8 DEF ReplyFileStart, requestVars, IInv, SysTypeOK, TypeOK, ControlType, BufferType
  <2>2. kind[c] = Reply(asked[c])
    BY <1>2, <2>1 DEF Starting
  <2>3. CASE state'[c] = "FS_REPLY_404_START" /\ kind[c] = NotFound
    <3>1. Starting(c)'
      BY <1>4, <1>5, <2>2, <2>3 DEF Starting
    <3> QED BY <1>3, <3>1 DEF Exchange
  <2> QED BY <1>6, <2>1, <2>2, <2>3
<1> QED BY <1>7, <1>8

\* Topping up the buffer sends nothing.
LEMMA FileContinueStream ==
    ASSUME IInv, NEW c \in Socks, UNCHANGED clientVars, Exchange(c), FileContinue(c)
    PROVE  Exchange(c)'
<1>1. conn[c] = "accepted" /\ Filling(c) /\ state[c] = "FS_REPLY_FILE_CONTINUE"
  BY Running DEF FileContinue, ConnInv
<1>2. /\ UNCHANGED <<asked, unsent, got, req, rep>> /\ conn'[c] = "accepted"
      /\ kind'[c] = kind[c] /\ sent'[c] = sent[c]
      /\ state'[c] \in {"FS_REPLY_FILE_CONTINUE", "FS_REPLY_SEND"}
      /\ FileLen[kind[c]] - foff[c] = 0 => state'[c] = state[c]
  BY <1>1 DEF FileContinue, Continue, netVars, requestVars, clientVars, IInv, SysTypeOK,
     TypeOK, ControlType
<1>3. Replying(c) \/ Stalled(c)
  BY <1>1 DEF Exchange, Asking, Starting, Finished
<1>4. CASE Replying(c)
  <2>1. Replying(c)'
    BY <1>2, <1>4 DEF Replying, Handed, OnTheWay, Reply, Total
  <2> QED BY <1>2, <2>1 DEF Exchange
<1>5. CASE Stalled(c)
  <2>1. /\ FileLen[kind[c]] \in Nat /\ foff[c] <= FileLen[kind[c]]
        /\ sent[c] + wr[c] - rd[c] = HdrLen + foff[c] /\ rd[c] <= wr[c]
        /\ Total(kind[c]) = HdrLen + FileLen[kind[c]]
    <3>1. kind[c] \in Files /\ kind[c] # NotFound
      BY <1>1 DEF Filling
    <3>2. FileLen[kind[c]] \in Nat
      BY <3>1
    <3> QED BY <1>1, <3>1, <3>2, StreamTypes DEF Filling, Window, Total
  <2>2. foff[c] = FileLen[kind[c]]
    <3>1. sent[c] = HdrLen + FileLen[kind[c]]
      BY <1>5, <2>1 DEF Stalled
    <3>2. HdrLen \in Nat
      BY SizesAssumption
    <3>3. /\ sent[c] \in Nat /\ wr[c] \in Nat /\ rd[c] \in Nat /\ foff[c] \in Nat
      BY StreamTypes, SizesAssumption
    <3>4. PICK s, w, r, h, o, l \in Nat :
             /\ s = sent[c] /\ w = wr[c] /\ r = rd[c]
             /\ h = HdrLen /\ o = foff[c] /\ l = FileLen[kind[c]]
      BY <2>1, <3>2, <3>3, Zenon
    <3>5. s = h + l /\ s + w - r = h + o /\ r <= w /\ o <= l
      BY <2>1, <3>1, <3>4
    <3>6. o = l
      BY <3>5
    <3> QED BY <3>4, <3>6
  <2>3. state'[c] = state[c]
    BY <1>2, <2>1, <2>2
  <2>4. Stalled(c)'
    BY <1>2, <1>5, <2>3 DEF Stalled, Total
  <2> QED BY <1>2, <2>4 DEF Exchange
<1> QED BY <1>3, <1>4, <1>5

\* send takes the next units of the window, and the client will read them next.
LEMMA SendDataStream ==
    ASSUME IInv, NEW c \in Socks, UNCHANGED clientVars, Exchange(c), SendData(c)
    PROVE  Exchange(c)'
<1>1. /\ conn[c] = "accepted" /\ ConnInv(c) /\ conn'[c] = "accepted"
      /\ state[c] \in {"FS_REPLY_FILE_CONTINUE", "FS_REPLY_SEND"}
  BY Running DEF SendData, AtSend, ConnInv, Return, Continue
<1>2. UNCHANGED <<asked, unsent, got, req>> /\ Window(c)
  BY <1>1 DEF SendData, clientVars, ConnInv, Filling, Flushing
<1>3. PICK n \in 1..SndCap :
         /\ n <= wr[c] - rd[c]
         /\ rep' = [rep EXCEPT ![c] = @ \o [i \in 1..n |-> buf[c][rd[c] + i]]]
         /\ sent'[c] = sent[c] + n /\ kind'[c] = kind[c]
         /\ IF rd[c] + n = wr[c] /\ ~fopened[c]
            THEN state'[c] = "FS_IDLE"
            ELSE state'[c] = state[c]
  BY SendFacts
<1>4. /\ rep[c] \in Seq(Units) /\ Len(rep[c]) \in Nat /\ got[c] \in Nat /\ sent[c] \in Nat
      /\ rd[c] \in Nat /\ wr[c] \in Nat /\ n \in Nat /\ n > 0
      /\ Total(kind[c]) \in Nat /\ foff[c] \in Nat
      /\ n <= wr[c] - rd[c] /\ sent'[c] = sent[c] + n
  BY <1>3, StreamTypes
<1>5. Replying(c)
  <2>1. ASSUME Stalled(c) PROVE FALSE
    <3>1. Filling(c) /\ sent[c] = Total(kind[c])
      BY <1>1, <2>1 DEF Stalled, ConnInv
    <3>2. kind[c] \in Files /\ kind[c] # NotFound
      BY <3>1 DEF Filling
    <3>3. FileLen[kind[c]] \in Nat
      BY <3>2
    <3>4. /\ foff[c] <= FileLen[kind[c]] /\ sent[c] + wr[c] - rd[c] = HdrLen + foff[c]
          /\ Total(kind[c]) = HdrLen + FileLen[kind[c]]
      BY <3>1, <3>2 DEF Filling, Total
    <3>5. InWindow(sent[c], rd[c], wr[c], HdrLen, foff[c], FileLen[kind[c]], n)
      BY <1>4, <3>3, <3>4 DEF InWindow
    <3> QED BY <3>1, <3>4, <3>5, WindowInReply
  <2> QED BY <1>1, <2>1 DEF Exchange, Asking, Starting, Finished
<1>6. /\ asked[c] # NoKind /\ kind[c] = Reply(asked[c]) /\ sent[c] = got[c] + Len(rep[c])
      /\ \A i \in 1..Len(rep[c]) : rep[c][i] = <<kind[c], got[c] + i>>
  BY <1>5 DEF Replying, Handed, OnTheWay
<1>7. PICK w : w = [i \in 1..n |-> buf[c][rd[c] + i]]
  OBVIOUS
<1>8. /\ w = [i \in 1..n |-> w[i]]
      /\ \A i \in 1..n : w[i] = <<kind[c], got[c] + Len(rep[c]) + i>> /\ w[i] \in Units
  <2>1. ASSUME NEW i \in 1..n
        PROVE  w[i] = <<kind[c], got[c] + Len(rep[c]) + i>> /\ w[i] \in Units
    <3>1. rd[c] + i \in rd[c] + 1 .. wr[c] /\ (rd[c] + i) - rd[c] = i
      <4>1. rd[c] \in Nat /\ wr[c] \in Nat /\ n \in Nat /\ n <= wr[c] - rd[c]
        BY <1>4
      <4> DEFINE a == rd[c]
                 b == wr[c]
      <4>2. a \in Nat /\ b \in Nat /\ n \in Nat /\ n <= b - a /\ i \in 1..n
        BY <4>1
      <4> HIDE DEF a, b
      <4>3. a + i \in a + 1 .. b /\ (a + i) - a = i
        BY <4>2
      <4> QED BY <4>3 DEF a, b
    <3>2. buf[c][rd[c] + i] = <<kind[c], sent[c] + (rd[c] + i) - rd[c]>>
      BY <1>2, <3>1 DEF Window
    <3>3. sent[c] + (rd[c] + i) - rd[c] = sent[c] + i /\ sent[c] + i \in Nat
      BY <1>4
    <3>4. w[i] = <<kind[c], sent[c] + i>>
      BY <1>7, <3>2, <3>3
    <3> QED BY <1>6, <3>3, <3>4, StreamTypes DEF Units
  <2>2. w = [i \in 1..n |-> w[i]]
    BY <1>7
  <2> QED BY <2>1, <2>2
<1>9. /\ Len(rep'[c]) = Len(rep[c]) + n
      /\ \A i \in 1..Len(rep'[c]) : rep'[c][i] = <<kind[c], got[c] + i>>
  <2>1. rep'[c] = rep[c] \o w
    BY <1>3, <1>7 DEF IInv, SysTypeOK, TypeOK, StreamType
  <2>2. Joins(rep[c], w, n, kind[c], got[c])
    BY <1>4, <1>6, <1>8 DEF Joins
  <2>3. Joined(rep[c], rep'[c], n, kind[c], got[c])
    BY <2>1, <2>2, AppendUnits
  <2> QED BY <2>3 DEF Joined
<1>10. sent'[c] = got[c] + Len(rep'[c])
  BY <1>4, <1>6, <1>9
<1>11. /\ Handed(c)'
       /\ sent'[c] <= Total(kind[c]) => OnTheWay(c)'
       /\ Reply(asked[c])' = kind[c] /\ kind'[c] = kind[c]
  BY <1>2, <1>3, <1>5, <1>6, <1>9, <1>10 DEF Replying, Handed, OnTheWay, Reply, Total
<1>12. CASE state[c] = "FS_REPLY_SEND"
  <2>1. sent[c] + wr[c] - rd[c] = Total(kind[c]) /\ ~fopened[c]
    BY <1>1, <1>12 DEF ConnInv, Flushing
  <2>2. sent'[c] <= Total(kind[c]) /\ (rd[c] + n = wr[c] => sent'[c] = Total(kind[c]))
    BY <1>3, <1>4, <2>1
  <2>3. CASE rd[c] + n = wr[c]
    <3>1. Finished(c)'
      BY <1>2, <1>3, <1>10, <1>11, <2>1, <2>2, <2>3 DEF Finished, Total, Reply
    <3> QED BY <1>1, <3>1 DEF Exchange
  <2>4. CASE rd[c] + n # wr[c]
    <3>1. Replying(c)'
      BY <1>2, <1>3, <1>10, <1>11, <1>12, <2>2, <2>4 DEF Replying
    <3> QED BY <1>1, <3>1 DEF Exchange
  <2> QED BY <2>3, <2>4
<1>13. CASE state[c] = "FS_REPLY_FILE_CONTINUE"
  <2>1. Filling(c)
    BY <1>1, <1>13 DEF ConnInv
  <2>2. kind[c] \in Files /\ kind[c] # NotFound /\ fopened[c]
    BY <2>1 DEF Filling
  <2>3. FileLen[kind[c]] \in Nat
    BY <2>2
  <2>4. /\ foff[c] <= FileLen[kind[c]] /\ sent[c] + wr[c] - rd[c] = HdrLen + foff[c]
        /\ Total(kind[c]) = HdrLen + FileLen[kind[c]]
    BY <2>1, <2>2 DEF Filling, Total
  <2>5. sent'[c] <= Total(kind[c])
    <3>1. InWindow(sent[c], rd[c], wr[c], HdrLen, foff[c], FileLen[kind[c]], n)
      BY <1>4, <2>3, <2>4 DEF InWindow
    <3> QED BY <1>4, <2>4, <3>1, WindowInReply
  <2>6. Replying(c)'
    BY <1>2, <1>3, <1>10, <1>11, <1>13, <2>2, <2>5 DEF Replying
  <2> QED BY <1>1, <2>6 DEF Exchange
<1> QED BY <1>1, <1>12, <1>13

\* A step of the server's event loop for a connection.
LEMMA ServerStream ==
    ASSUME IInv, StreamInv, RequestsFit, "file" \notin Faults, NEW c \in Socks, ServerStep(c),
           UNCHANGED clientVars
    PROVE  StreamInv'
<1>1. ASSUME NEW d \in Socks, d # c PROVE Stream(d)'
  BY <1>1, StreamElsewhere DEF StreamInv
<1>2. Stream(c)
  BY DEF StreamInv
<1>3. cli' = cli
  BY DEF ServerStep, Activate, Idle, RequestTooLong, RecvWouldBlock, RecvEnd, RecvData,
     Reply404Start, ReplyFileStart, FileContinue, FileError, SendWouldBlock, SendEnd,
     SendData, Close, netVars
<1>4. ASSUME Exchange(c) PROVE Exchange(c)'
  <2>1. CASE RecvEnd(c) \/ FileError(c) \/ SendEnd(c)
    <3>1. PICK r \in {"peer", "reset", "fault", "zero-send"} : Close(c, r)
      BY <2>1 DEF RecvEnd, FileError, SendEnd
    <3> QED BY <1>4, <3>1, CloseStream
  <2>2. ~RequestTooLong(c)
    BY <1>2, <1>4, NeverTooLong
  <2>3. CASE Activate(c) \/ RecvWouldBlock(c) \/ SendWouldBlock(c)
    BY <1>4, <2>3, WaitStream
  <2>4. CASE Idle(c)
    BY <1>4, <2>4, IdleStream
  <2>5. CASE RecvData(c)
    BY <1>2, <1>4, <2>5, RecvDataStream
  <2>6. CASE Reply404Start(c) \/ ReplyFileStart(c)
    BY <1>4, <2>6, ReplyStartStream
  <2>7. CASE FileContinue(c)
    BY <1>4, <2>7, FileContinueStream
  <2>8. CASE SendData(c)
    BY <1>4, <2>8, SendDataStream
  <2> QED BY <2>1, <2>2, <2>3, <2>4, <2>5, <2>6, <2>7, <2>8 DEF ServerStep
<1>5. Stream(c)'
  BY <1>2, <1>3, <1>4, RecvIsFresh DEF Stream
<1> QED BY <1>1, <1>5 DEF StreamInv

\* Accepting: what has arrived stays, and the new machine is in FS_IDLE.
LEMMA AcceptStream ==
    ASSUME IInv, StreamInv, AcceptAll, UNCHANGED clientVars
    PROVE  StreamInv'
<1> SUFFICES ASSUME NEW c \in Socks PROVE Stream(c)'
  BY DEF StreamInv
<1>1. PICK S \in SUBSET {d \in Socks : conn[d] = "pending"},
           L \in SUBSET {d \in Socks : conn[d] = "pending"} :
        /\ S \cap L = {}
        /\ conn' = Fresh(Fresh(conn, S, "accepted"), L, "leaked")
        /\ state' = Fresh(state, S, "FS_IDLE")
  BY DEF AcceptAll
<1>2. /\ cur' = NoSock /\ UNCHANGED <<kind, sent, rbuf, cli, req, rep, asked, unsent, got>>
      /\ Stream(c)
  BY DEF AcceptAll, requestVars, replyVars, netVars, clientVars, StreamInv
<1>3. CASE c \in S \cup L
  <2>1. /\ conn[c] = "pending" /\ conn'[c] \in {"accepted", "leaked"}
        /\ conn'[c] = "accepted" => state'[c] = "FS_IDLE"
    BY <1>1, <1>3 DEF Fresh
  <2>2. ASSUME cli'[c] = "open" PROVE Exchange(c)'
    <3>1. Asking(c)
      BY <1>2, <2>1, <2>2 DEF Stream, Exchange
    <3>2. Kept(c) = <<>> /\ Kept(c)' = <<>>
      BY <2>1 DEF Kept
    <3>3. Asking(c)'
      BY <1>2, <2>1, <3>1, <3>2 DEF Asking, Outstanding, ReqUnit
    <3> QED BY <2>1, <3>3 DEF Exchange
  <2> QED BY <1>2, <2>2 DEF Stream
<1>4. CASE c \notin S \cup L
  <2>1. Same(c)
    BY <1>1, <1>2, <1>4 DEF Same, Fresh
  <2> QED BY <1>2, <2>1, SameStream
<1> QED BY <1>3, <1>4

\* A client that begins, and one that asks.
LEMMA AskStream ==
    ASSUME IInv, NEW c \in Socks, Stream(c),
           ClientConnect(c) \/ \E k \in RequestKinds : ClientAsk(c, k)
    PROVE  Stream(c)'
<1> USE DEF IInv, SysTypeOK, TypeOK, ControlType, StreamType, ClientType
<1>1. UNCHANGED <<cur, pc, rbuf, state, kind, sent>>
  BY DEF ClientConnect, ClientAsk, vars, serverVars, requestVars, replyVars
<1>2. CASE ClientConnect(c)
  <2>1. /\ conn'[c] = "pending" /\ asked'[c] = NoKind /\ req'[c] = <<>> /\ rep'[c] = <<>>
    BY <1>2 DEF ClientConnect
  <2>2. Asking(c)'
    BY <2>1 DEF Asking
  <2> QED BY <1>1, <2>1, <2>2 DEF Stream, Exchange
<1>3. ASSUME NEW k \in RequestKinds, ClientAsk(c, k) PROVE Stream(c)'
  <2>1. /\ cli[c] = "open" /\ conn[c] # "closed" /\ asked[c] = NoKind /\ asked'[c] = k
        /\ unsent'[c] = ReqLen[k] /\ got'[c] = 0 /\ UNCHANGED <<conn, cli, req, rep>>
    BY <1>3 DEF ClientAsk, vars, serverVars, netVars
  <2>2. k # NoKind /\ ReqLen[k] \in Nat /\ ReqLen[k] > 0
    BY StreamTypes
  <2>3. Asking(c) \/ (conn[c] = "accepted" /\ Stalled(c))
    BY <2>1 DEF Stream, Exchange, Starting, Replying, Finished, Handed
  <2>4. CASE Asking(c)
    <3>1. /\ req[c] = <<>> /\ rep[c] = <<>>
          /\ conn[c] = "accepted" => state[c] = "FS_IDLE"
          /\ conn[c] \in {"pending", "accepted", "leaked"}
      BY <2>1, <2>4 DEF Asking, Stream, Exchange
    <3>2. Kept(c)' = <<>>
      BY <1>1, <2>1, <3>1 DEF Kept
    <3>3. Outstanding(k, <<>>, <<>>, ReqLen[k])
      BY <2>2 DEF Outstanding
    <3>4. Outstanding(asked'[c], Kept(c)', req'[c], unsent'[c])
      BY <2>1, <3>1, <3>2, <3>3
    <3>5. Asking(c)'
      BY <1>1, <2>1, <2>2, <3>1, <3>4 DEF Asking
    <3> QED BY <1>1, <2>1, <3>1, <3>5 DEF Stream, Exchange
  <2>5. CASE Stalled(c) /\ conn[c] = "accepted"
    <3>1. Stalled(c)'
      BY <1>1, <2>1, <2>5 DEF Stalled, Total
    <3> QED BY <1>1, <2>1, <2>5, <3>1 DEF Stream, Exchange
  <2> QED BY <2>3, <2>4, <2>5
<1> QED BY <1>2, <1>3

\* A fragment of a request arrives.
LEMMA ClientSendStream ==
    ASSUME IInv, NEW c \in Socks, Stream(c), ClientSend(c)
    PROVE  Stream(c)'
<1>1. UNCHANGED <<cur, pc, conn, rbuf, state, kind, sent, cli, rep, asked, got>>
  BY DEF ClientSend, serverVars
<1>2. cli[c] = "open" /\ conn[c] # "closed"
  BY DEF ClientSend
<1>3. PICK n \in 1..unsent[c] :
         /\ req'[c] = req[c] \o Fragment(asked[c], unsent[c], n)
         /\ unsent'[c] = unsent[c] - n
  BY DEF ClientSend, Fragment, IInv, SysTypeOK, TypeOK, StreamType, ClientType
<1>4. unsent[c] > 0 /\ asked[c] # NoKind
  BY <1>3, StreamTypes DEF IInv, ClientInv
<1>5. Asking(c) \/ (conn[c] = "accepted" /\ Stalled(c))
  BY <1>2, <1>4 DEF Stream, Exchange, Starting, Replying, Finished, Handed
<1>6. CASE Asking(c)
  <2>1. got[c] = 0 /\ Outstanding(asked[c], Kept(c), req[c], unsent[c]) /\ Kept(c)' = Kept(c)
        /\ conn[c] \in {"pending", "accepted", "leaked"}
    BY <1>1, <1>2, <1>4, <1>6 DEF Asking, Kept, Stream, Exchange
  <2>2. Kept(c) \in Seq(ReqUnits)
    BY StreamTypes DEF Kept
  <2>3. Follows(asked[c], Kept(c), req[c], unsent[c], n)
    BY <1>4, <2>1, <2>2, StreamTypes DEF Follows
  <2>4. Outstanding(asked[c], Kept(c), req'[c], unsent'[c])
    BY <1>3, <2>3, FragmentFollows
  <2>5. Outstanding(asked'[c], Kept(c)', req'[c], unsent'[c])
    BY <1>1, <2>1, <2>4
  <2>6. Asking(c)'
    BY <1>1, <1>4, <1>6, <2>1, <2>5 DEF Asking
  <2> QED BY <1>1, <1>2, <2>1, <2>6 DEF Stream, Exchange
<1>7. CASE conn[c] = "accepted" /\ Stalled(c)
  <2>1. Stalled(c)'
    BY <1>1, <1>7 DEF Stalled, Total
  <2> QED BY <1>1, <1>7, <2>1 DEF Stream, Exchange
<1> QED BY <1>5, <1>6, <1>7

\* A client that reads m units of what is on its way, and has not read all of the reply.
LEMMA PartReadStream ==
    ASSUME IInv, NEW c \in Socks, asked[c] # NoKind, Exchange(c), NEW n \in 1..Len(rep[c]),
           UNCHANGED <<conn, state, kind, sent, req, asked>>,
           unsent'[c] = unsent[c], got'[c] = got[c] + n,
           rep'[c] = SubSeq(rep[c], n + 1, Len(rep[c]))
    PROVE  Exchange(c)'
<1>1. /\ rep[c] \in Seq(Units) /\ Len(rep[c]) \in Nat /\ got[c] \in Nat /\ n \in Nat
      /\ Total(Reply(asked[c])) \in Nat
  BY StreamTypes
<1>2. Ahead(rep[c], Reply(asked[c]), got[c], Total(Reply(asked[c])))
  BY <1>1, AlwaysOnTheWay DEF OnTheWay, Ahead
<1>3. /\ Ahead(rep'[c], Reply(asked[c]), got'[c], Total(Reply(asked[c])))
      /\ got'[c] + Len(rep'[c]) = got[c] + Len(rep[c])
  BY <1>2, ReadUnits
<1>4. rep[c] # <<>>
  BY <1>1
<1>5. OnTheWay(c)'
  BY <1>3 DEF OnTheWay, Ahead, Reply, Total
<1>6. conn[c] = "closed" \/ (conn[c] = "accepted" /\ (Replying(c) \/ Finished(c)))
  BY <1>4 DEF Exchange, Asking, Starting, Stalled
<1>7. ASSUME Replying(c) PROVE Replying(c)'
  BY <1>3, <1>5, <1>7 DEF Replying, Handed, Reply
<1>8. ASSUME Finished(c) PROVE Finished(c)'
  BY <1>3, <1>5, <1>8 DEF Finished, Handed, Reply, Total
<1> QED BY <1>5, <1>6, <1>7, <1>8 DEF Exchange

\* A client that reads the last of the reply: the server is done as well, or stalls.
LEMMA LastReadStream ==
    ASSUME IInv, NEW c \in Socks, asked[c] # NoKind, Exchange(c), rep[c] # <<>>,
           got[c] + Len(rep[c]) = Total(Reply(asked[c])),
           UNCHANGED <<conn, state, kind, sent, req>>,
           unsent'[c] = 0, asked'[c] = NoKind, rep'[c] = <<>>
    PROVE  Exchange(c)'
<1>1. conn[c] = "closed" \/ (conn[c] = "accepted" /\ (Replying(c) \/ Finished(c)))
  BY DEF Exchange, Asking, Starting, Stalled
<1>2. CASE conn[c] = "closed"
  BY <1>2 DEF Exchange, OnTheWay
<1>3. CASE conn[c] = "accepted" /\ Finished(c)
  <2>1. Asking(c)'
    BY <1>3 DEF Finished, Handed, Asking
  <2> QED BY <1>3, <2>1 DEF Exchange
<1>4. CASE conn[c] = "accepted" /\ Replying(c)
  <2>1. sent[c] = Total(kind[c])
    BY <1>4 DEF Replying
  <2>2. ConnInv(c)
    BY <1>4 DEF IInv, ReplyInv
  <2>3. state[c] # "FS_REPLY_SEND"
    <3> SUFFICES ASSUME state[c] = "FS_REPLY_SEND" PROVE FALSE
      OBVIOUS
    <3>1. sent[c] + wr[c] - rd[c] = Total(kind[c]) /\ rd[c] < wr[c]
      BY <2>2 DEF ConnInv, Flushing
    <3> QED BY <2>1, <3>1, StreamTypes
  <2>4. Stalled(c)'
    BY <1>4, <2>1, <2>3 DEF Replying, Stalled, Total
  <2> QED BY <1>4, <2>4 DEF Exchange
<1> QED BY <1>1, <1>2, <1>3, <1>4

LEMMA ClientReadStream ==
    ASSUME IInv, NEW c \in Socks, Stream(c), ClientRead(c)
    PROVE  Stream(c)'
<1>1. UNCHANGED <<cur, pc, conn, rbuf, state, kind, sent, cli, req>>
  BY DEF ClientRead, serverVars
<1>2. cli[c] = "open" /\ asked[c] # NoKind /\ Exchange(c)
  BY DEF ClientRead, Stream
<1>3. PICK n \in 1..Len(rep[c]) :
         \/ /\ got[c] + n >= Total(Reply(asked[c])) /\ unsent'[c] = 0 /\ asked'[c] = NoKind
            /\ rep'[c] = SubSeq(rep[c], Total(Reply(asked[c])) - got[c] + 1, Len(rep[c]))
         \/ /\ got'[c] = got[c] + n /\ unsent'[c] = unsent[c] /\ asked' = asked
            /\ rep'[c] = SubSeq(rep[c], n + 1, Len(rep[c]))
  <2>1. PICK n \in 1..Len(rep[c]) :
          LET done == got[c] + n >= Total(Reply(asked[c]))
              m == IF done THEN Total(Reply(asked[c])) - got[c] ELSE n
          IN  /\ rep' = [rep EXCEPT ![c] = SubSeq(@, m + 1, Len(@))]
              /\ got' = [got EXCEPT ![c] = @ + m]
              /\ asked' = [asked EXCEPT ![c] = IF done THEN NoKind ELSE @]
              /\ unsent' = [unsent EXCEPT ![c] = IF done THEN 0 ELSE @]
    BY DEF ClientRead
  <2>2. /\ c \in DOMAIN rep /\ c \in DOMAIN got /\ c \in DOMAIN asked /\ c \in DOMAIN unsent
        /\ asked = [d \in Socks |-> asked[d]]
    BY DEF IInv, SysTypeOK, TypeOK, StreamType, ClientType
  <2>3. CASE got[c] + n >= Total(Reply(asked[c]))
    BY <2>1, <2>2, <2>3
  <2>4. CASE ~(got[c] + n >= Total(Reply(asked[c])))
    BY <2>1, <2>2, <2>4
  <2> QED BY <2>3, <2>4
<1>4. /\ rep[c] \in Seq(Units) /\ Len(rep[c]) \in Nat /\ got[c] \in Nat /\ n \in Nat /\ n > 0
      /\ n <= Len(rep[c]) /\ Total(Reply(asked[c])) \in Nat
  BY <1>3, StreamTypes
<1>5. CASE got[c] + n >= Total(Reply(asked[c])) /\ unsent'[c] = 0 /\ asked'[c] = NoKind
           /\ rep'[c] = SubSeq(rep[c], Total(Reply(asked[c])) - got[c] + 1, Len(rep[c]))
  <2>1. Ahead(rep[c], Reply(asked[c]), got[c], Total(Reply(asked[c])))
    BY <1>2, <1>4, AlwaysOnTheWay DEF OnTheWay, Ahead
  <2>2. got[c] + Len(rep[c]) = Total(Reply(asked[c])) /\ rep[c] # <<>>
    BY <1>3, <1>4, <1>5, <2>1, ReadUnits
  <2>3. Total(Reply(asked[c])) - got[c] + 1 = Len(rep[c]) + 1
    BY <1>4, <2>2
  <2>4. rep'[c] = <<>>
    BY <1>4, <1>5, <2>3
  <2>5. Exchange(c)'
    BY <1>1, <1>2, <1>5, <2>2, <2>4, LastReadStream
  <2> QED BY <1>1, <2>5 DEF Stream
<1>6. CASE got'[c] = got[c] + n /\ unsent'[c] = unsent[c] /\ asked' = asked
           /\ rep'[c] = SubSeq(rep[c], n + 1, Len(rep[c]))
  <2>1. Exchange(c)'
    BY <1>1, <1>2, <1>6, PartReadStream
  <2> QED BY <1>1, <2>1 DEF Stream
<1> QED BY <1>3, <1>5, <1>6

\* A step of a client.
LEMMA ClientStream ==
    ASSUME IInv, StreamInv, NEW c \in Socks, ClientStep(c)
    PROVE  StreamInv'
<1> USE DEF IInv, SysTypeOK, TypeOK, ControlType, BufferType, StreamType, ClientType
<1>1. /\ UNCHANGED <<cur, pc, rbuf, state, kind, sent>>
      /\ \A d \in Socks \ {c} : conn'[d] = conn[d] /\ cli'[d] = cli[d] /\ req'[d] = req[d]
            /\ rep'[d] = rep[d] /\ asked'[d] = asked[d] /\ unsent'[d] = unsent[d]
            /\ got'[d] = got[d]
  BY DEF ClientStep, ClientConnect, ClientAsk, ClientSend, ClientRead, ClientClose, vars,
     serverVars, requestVars, replyVars, netVars, clientVars
<1>2. ASSUME NEW d \in Socks, d # c PROVE Stream(d)'
  <2>1. Same(d)
    BY <1>1, <1>2 DEF Same
  <2> QED BY <1>1, <2>1, SameStream DEF StreamInv
<1>3. Stream(c)
  BY DEF StreamInv
<1>4. CASE ClientClose(c)
  <2>1. cli'[c] = "closed"
    BY <1>4 DEF ClientClose
  <2> QED BY <1>1, <1>2, <1>3, <2>1 DEF StreamInv, Stream
<1>5. Stream(c)' \/ ClientClose(c)
  BY <1>3, AskStream, ClientSendStream, ClientReadStream DEF ClientStep
<1> QED BY <1>2, <1>4, <1>5 DEF StreamInv

\* From the request to the reply, one after the other on a connection (fileserver.c): what
\* is on its way to a client is the next part of the reply to what it asked for, and nothing
\* when it asked nothing.  A file that cannot be opened is answered with a 404, and a request that does
\* not fit the buffer with two, so both are excluded.
THEOREM StreamIsFaithful ==
    ASSUME "file" \notin Faults, RequestsFit
    PROVE  SysSpec => []StreamFaithful
<1>1. SysInit => IInv /\ StreamInv
  BY InitType, InitRest, StreamInit DEF IInv
<1>2. IInv /\ StreamInv /\ [SysNext]_sysVars => StreamInv'
  <2> SUFFICES ASSUME IInv, StreamInv, [SysNext]_sysVars PROVE StreamInv'
    OBVIOUS
  <2>1. CASE UNCHANGED sysVars
    <3>1. \A c \in Socks : Same(c) /\ cur' = cur /\ pc' = pc
      BY <2>1 DEF sysVars, vars, serverVars, netVars, clientVars, Same
    <3> QED BY <3>1, SameStream DEF StreamInv
  <2>2. CASE Server
    BY <2>2, ServerStream, AcceptStream DEF Server, ServerNext
  <2>3. ASSUME NEW c \in Socks, ClientStep(c) PROVE StreamInv'
    BY <2>3, ClientStream
  <2> QED BY <2>1, <2>2, <2>3 DEF SysNext
<1>3. IInv /\ StreamInv => StreamFaithful
  <2> SUFFICES ASSUME IInv, StreamInv, NEW c \in Socks, cli[c] = "open"
               PROVE  IF asked[c] = NoKind
                      THEN rep[c] = <<>>
                      ELSE \A i \in 1..Len(rep[c]) : rep[c][i] = <<Reply(asked[c]), got[c] + i>>
    BY DEF StreamFaithful
  <2> QED BY AlwaysOnTheWay DEF StreamInv, Stream, OnTheWay
<1> QED BY <1>1, <1>2, <1>3, Invariance, PTL DEF SysSpec

-----------------------------------------------------------------------------
(* The download service, with the file server at the other end.            *)

\* A service that has made what it was asked for stops at once, and nothing runs in one
\* that has stopped.
CountInv ==
    /\ completed \in Nat
    /\ Requested > 0 => completed <= Requested
    /\ Requested > 0 /\ sstate # "SFG_DONE" => completed < Requested
    /\ sstate = "SFG_DONE" => /\ run = "no"
                              /\ Requested > 0 => completed = Requested \/ RunTime > 0

\* Stopping at the expiration.
LEMMA ExpireCounts ==
    ASSUME CountInv, Expired, SfgExpire, UNCHANGED completed
    PROVE  CountInv'
BY DEF CountInv, Expired, SfgExpire

\* Where the service is activated nothing is counted.
LEMMA EnterCounts ==
    ASSUME CountInv, NEW s, NEW same, SfgEnter(s, same), UNCHANGED completed
    PROVE  CountInv'
<1>1. CASE Expired /\ SfgExpire
  BY <1>1, ExpireCounts
<1>2. CASE sstate # "SFG_DONE" /\ sstate' # "SFG_DONE"
  BY <1>2 DEF CountInv
<1>3. CASE sstate = "SFG_DONE" /\ sstate' = "SFG_DONE" /\ run' = "no"
  BY <1>3 DEF CountInv
<1> QED BY <1>1, <1>2, <1>3 DEF SfgEnter, DownloadNext

\* A download is counted only in a service that has not stopped.
LEMMA CompleteCounts ==
    ASSUME CountInv, SfgComplete
    PROVE  CountInv'
<1>1. /\ sstate # "SFG_DONE" /\ completed' = completed + 1 /\ completed \in Nat
      /\ Requested > 0 => completed < Requested
  BY DEF SfgComplete, CountInv
<1>2. Requested \in Nat
  BY ServiceAssumption
<1>3. CASE EnoughDownloads(completed + 1) /\ SfgExpire
  BY <1>1, <1>2, <1>3 DEF CountInv, EnoughDownloads, SfgExpire
<1>4. CASE ~EnoughDownloads(completed + 1) /\ RunTime > 0 /\ SfgExpire
  BY <1>1, <1>2, <1>4 DEF CountInv, EnoughDownloads, SfgExpire
<1>5. CASE ~EnoughDownloads(completed + 1) /\ sstate' # "SFG_DONE"
  BY <1>1, <1>2, <1>5 DEF CountInv, EnoughDownloads
<1> QED BY <1>3, <1>4, <1>5 DEF SfgComplete, DownloadNext

LEMMA ServiceCounts ==
    ASSUME CountInv, ServiceStep
    PROVE  CountInv'
<1>1. CASE SfgStart
  BY <1>1 DEF SfgStart, CountInv
<1>2. CASE SfgReady
  BY <1>2, EnterCounts DEF SfgReady
<1>3. CASE SfgWake
  BY <1>3, EnterCounts DEF SfgWake
<1>4. CASE SfgStartOver
  BY <1>4, EnterCounts DEF SfgStartOver
<1>5. CASE SfgRetry
  BY <1>5 DEF SfgRetry, CountInv
<1>6. CASE SfgGiveUp \/ SfgWouldBlock
  BY <1>6 DEF SfgGiveUp, SfgWouldBlock, serviceVars, CountInv
<1>7. CASE SfgComplete
  BY <1>7, CompleteCounts
<1>8. CASE Tick
  BY <1>8 DEF Tick, CountInv
<1>9. CASE GetterStep /\ UNCHANGED serviceVars
  <2>1. UNCHANGED <<sstate, completed>> /\ run # "no"
    BY <1>9 DEF serviceVars, GetterStep, Enter, NeedSpec, Requests, MakeRequest, ToReplies,
       ToReply, SocksInitReply, SocksConnReply, SocksMoved, HttpReply, Send, Receive,
       CheckDownload, At
  <2> QED BY <2>1 DEF CountInv
<1> QED BY <1>1, <1>2, <1>3, <1>4, <1>5, <1>6, <1>7, <1>8, <1>9 DEF ServiceStep

\* Whatever the network, the server, the expiration and the system calls do, the service makes the
\* downloads it was asked for and no more, and has made them all when it stops before its
\* expiration (service-filegetter.c:417).
THEOREM CountsAreExact == FtSpec => []CountExact
<1>1. FtInit => CountInv
  BY ServiceAssumption DEF FtInit, ServiceInit, CountInv
<1>2. CountInv /\ [FtNext]_ftVars => CountInv'
  <2> SUFFICES ASSUME CountInv, [FtNext]_ftVars PROVE CountInv'
    OBVIOUS
  <2>1. CASE UNCHANGED <<sstate, completed, run>>
    BY <2>1 DEF CountInv
  <2>2. CASE Download
    BY <2>2, ServiceCounts DEF Download
  <2>3. CASE ~Download
    BY <2>1, <2>3 DEF FtNext, Serve, Connect, Establish, ftVars, clientOnly, getterVars,
       serviceVars
  <2> QED BY <2>2, <2>3
<1>3. CountInv => CountExact
  BY DEF CountInv, CountExact
<1> QED BY <1>1, <1>2, <1>3, PTL DEF FtSpec
=============================================================================
