-------------------------- MODULE SpeechOrderProofs ---------------------------
(***************************************************************************)
(* The order of speech, for every value of the constants of                *)
(* SpeechPipeline: the player plays the live job, its segments are heard   *)
(* in the order of the text, each of them or accounted as given up, and    *)
(* the pipeline implements SpeechPromise.                                  *)
(*                                                                         *)
(* Heard, queued, ready and pending segments form one row.  Most steps     *)
(* move the head of one part of the row to the end of the part before it   *)
(* and leave the row as it is; a failure takes a piece out of the row and  *)
(* counts it as dropped.                                                   *)
(***************************************************************************)
EXTENDS SpeechProofs

-----------------------------------------------------------------------------
(* Rows of segments.                                                       *)

Up(s)  == \A a, b \in DOMAIN s : a < b => s[a] < s[b]
Els(s) == {s[k] : k \in DOMAIN s}

\* The row s and the dropped segments dr make up a text of n segments.
Whole(s, dr, n) ==
  /\ Up(s)
  /\ Els(s) \union dr = 0 .. n - 1
  /\ Els(s) \intersect dr = {}

\* The elements of a row of two parts.
LEMMA ConcatEls ==
  ASSUME NEW S, NEW a \in Seq(S), NEW b \in Seq(S)
  PROVE  Els(a \o b) = Els(a) \union Els(b)
<1>1. /\ DOMAIN a = 1 .. Len(a) /\ Len(a) \in Nat
      /\ DOMAIN b = 1 .. Len(b) /\ Len(b) \in Nat
      /\ DOMAIN (a \o b) = 1 .. Len(a) + Len(b)
  BY LenProperties, ConcatProperties
<1>2. \A k \in DOMAIN (a \o b) : (a \o b)[k] = IF k <= Len(a) THEN a[k] ELSE b[k - Len(a)]
  BY <1>1, ConcatProperties
<1>3. ASSUME NEW k \in DOMAIN (a \o b)
      PROVE  (a \o b)[k] \in Els(a) \union Els(b)
  <2>1. CASE k <= Len(a)
    BY <1>1, <1>2, <2>1 DEF Els
  <2>2. CASE ~(k <= Len(a))
    <3>1. k - Len(a) \in DOMAIN b
      BY <1>1, <2>2
    <3> QED
      BY <1>2, <2>2, <3>1 DEF Els
  <2> QED
    BY <2>1, <2>2
<1>4. ASSUME NEW k \in DOMAIN a
      PROVE  a[k] \in Els(a \o b)
  <2>1. k \in DOMAIN (a \o b) /\ (a \o b)[k] = a[k]
    BY <1>1, <1>2
  <2> QED
    BY <2>1 DEF Els
<1>5. ASSUME NEW k \in DOMAIN b
      PROVE  b[k] \in Els(a \o b)
  <2>1. k + Len(a) \in DOMAIN (a \o b) /\ ~(k + Len(a) <= Len(a)) /\ (k + Len(a)) - Len(a) = k
    BY <1>1
  <2>2. (a \o b)[k + Len(a)] = b[k]
    BY <1>2, <2>1
  <2> QED
    BY <2>1, <2>2 DEF Els
<1> QED
  BY <1>3, <1>4, <1>5 DEF Els

\* A row of two parts increases when both do and the first is below the second.
LEMMA ConcatUp ==
  ASSUME NEW a \in Seq(Nat), NEW b \in Seq(Nat)
  PROVE  Up(a \o b) <=> /\ Up(a) /\ Up(b)
                        /\ \A x \in Els(a), y \in Els(b) : x < y
<1>1. /\ DOMAIN a = 1 .. Len(a) /\ Len(a) \in Nat
      /\ DOMAIN b = 1 .. Len(b) /\ Len(b) \in Nat
      /\ DOMAIN (a \o b) = 1 .. Len(a) + Len(b)
  BY LenProperties, ConcatProperties
<1> DEFINE s == a \o b
<1>2. \A k \in DOMAIN a : k \in DOMAIN s /\ s[k] = a[k]
  BY <1>1, ConcatProperties
<1>3. \A k \in DOMAIN b : k + Len(a) \in DOMAIN s /\ s[k + Len(a)] = b[k]
  <2>1. ASSUME NEW k \in DOMAIN b
        PROVE  /\ k + Len(a) \in 1 .. Len(a) + Len(b) /\ ~(k + Len(a) <= Len(a))
               /\ (k + Len(a)) - Len(a) = k
    BY <1>1
  <2> QED
    BY <1>1, <2>1, ConcatProperties
<1>4. \A k \in DOMAIN s : /\ k \in Nat
                          /\ \/ k \in DOMAIN a
                             \/ k - Len(a) \in DOMAIN b /\ (k - Len(a)) + Len(a) = k
  BY <1>1
<1> HIDE DEF s
<1>5. ASSUME Up(s)
      PROVE  Up(a) /\ Up(b) /\ \A x \in Els(a), y \in Els(b) : x < y
  <2>1. Up(a)
    BY <1>2, <1>5 DEF Up
  <2>2. Up(b)
    <3>1. SUFFICES ASSUME NEW k \in DOMAIN b, NEW l \in DOMAIN b, k < l
                   PROVE  b[k] < b[l]
      BY DEF Up
    <3>2. k + Len(a) < l + Len(a)
      BY <1>1, <3>1
    <3> QED
      BY <1>3, <1>5, <3>2 DEF Up
  <2>3. ASSUME NEW k \in DOMAIN a, NEW l \in DOMAIN b
        PROVE  a[k] < b[l]
    <3>1. k < l + Len(a)
      BY <1>1
    <3> QED
      BY <1>2, <1>3, <1>5, <3>1 DEF Up
  <2> QED
    BY <2>1, <2>2, <2>3 DEF Els
<1>6. ASSUME Up(a), Up(b), \A x \in Els(a), y \in Els(b) : x < y
      PROVE  Up(s)
  <2>1. SUFFICES ASSUME NEW k \in DOMAIN s, NEW l \in DOMAIN s, k < l
                 PROVE  s[k] < s[l]
    BY DEF Up
  <2>2. CASE l \in DOMAIN a
    <3>1. k \in DOMAIN a
      BY <1>1, <1>4, <2>1, <2>2
    <3> QED
      BY <1>2, <1>6, <2>1, <2>2, <3>1 DEF Up
  <2>3. CASE k \in DOMAIN a /\ l \notin DOMAIN a
    <3>1. l - Len(a) \in DOMAIN b /\ s[l] = b[l - Len(a)]
      BY <1>3, <1>4, <2>3
    <3>2. s[k] \in Els(a) /\ s[l] \in Els(b)
      BY <1>2, <2>3, <3>1 DEF Els
    <3> QED
      BY <1>6, <3>2
  <2>4. CASE k \notin DOMAIN a /\ l \notin DOMAIN a
    <3>1. /\ k - Len(a) \in DOMAIN b /\ s[k] = b[k - Len(a)]
          /\ l - Len(a) \in DOMAIN b /\ s[l] = b[l - Len(a)]
      BY <1>3, <1>4, <2>4
    <3>2. k - Len(a) < l - Len(a)
      BY <1>1, <1>4, <2>1
    <3> QED
      BY <1>6, <3>1, <3>2 DEF Up
  <2> QED
    BY <2>2, <2>3, <2>4
<1> QED
  BY <1>5, <1>6 DEF s

\* The head of a row moved to the end of the row before it.
LEMMA Shift ==
  ASSUME NEW S, NEW a \in Seq(S), NEW b \in Seq(S), b # << >>
  PROVE  /\ Head(b) \in S /\ Tail(b) \in Seq(S)
         /\ Append(a, Head(b)) \in Seq(S)
         /\ Append(a, Head(b)) \o Tail(b) = a \o b
         /\ b = << Head(b) >> \o Tail(b)
<1>1. /\ Head(b) \in S /\ Tail(b) \in Seq(S)
      /\ Len(Tail(b)) = Len(b) - 1 /\ \A i \in 1 .. Len(Tail(b)) : Tail(b)[i] = b[i + 1]
      /\ Len(b) \in Nat \ {0} /\ Head(b) = b[1]
  BY HeadTailProperties, EmptySeq
<1>2. << Head(b) >> \in Seq(S) /\ Len(<< Head(b) >>) = 1 /\ << Head(b) >>[1] = Head(b)
  BY <1>1
<1> DEFINE h == << Head(b) >>
<1> HIDE DEF h
<1>3. /\ h \o Tail(b) \in Seq(S) /\ Len(h \o Tail(b)) = Len(b)
      /\ \A i \in 1 .. Len(b) : (h \o Tail(b))[i] = IF i <= 1 THEN h[i] ELSE Tail(b)[i - 1]
  BY <1>1, <1>2, ConcatProperties DEF h
<1>4. \A i \in 1 .. Len(b) : (h \o Tail(b))[i] = b[i]
  <2>1. SUFFICES ASSUME NEW i \in 1 .. Len(b)
                 PROVE  (h \o Tail(b))[i] = b[i]
    OBVIOUS
  <2>2. CASE i = 1
    BY <1>1, <1>2, <1>3, <2>2 DEF h
  <2>3. CASE i # 1
    <3>1. i - 1 \in 1 .. Len(Tail(b)) /\ (i - 1) + 1 = i /\ ~(i <= 1)
      BY <1>1, <2>1, <2>3
    <3> QED
      BY <1>1, <1>3, <3>1
  <2> QED
    BY <2>2, <2>3
<1>5. h \o Tail(b) = b
  BY <1>3, <1>4, SeqEqual
<1>6. Append(a, Head(b)) = a \o h /\ Append(a, Head(b)) \in Seq(S) /\ h \in Seq(S)
  BY <1>1, <1>2, AppendIsConcat, AppendProperties DEF h
<1>7. (a \o h) \o Tail(b) = a \o (h \o Tail(b))
  BY <1>1, <1>6, ConcatAssociative
<1> QED
  BY <1>1, <1>5, <1>6, <1>7 DEF h

\* A piece taken out of a whole row counts as dropped.
LEMMA WholeDrop ==
  ASSUME NEW p \in Seq(Nat), NEW m \in Seq(Nat), NEW s \in Seq(Nat), NEW dr, NEW n,
         Whole((p \o m) \o s, dr, n)
  PROVE  Whole(p \o s, dr \union Els(m), n)
<1>1. p \o m \in Seq(Nat)
  BY ConcatProperties
<1>2. /\ Els((p \o m) \o s) = Els(p) \union Els(m) \union Els(s)
      /\ Els(p \o m) = Els(p) \union Els(m)
      /\ Els(p \o s) = Els(p) \union Els(s)
  <2>1. \A q \in Seq(Nat) : Els(q \o s) = Els(q) \union Els(s)
    BY ConcatEls
  <2>2. Els(p \o m) = Els(p) \union Els(m) /\ Els(p \o s) = Els(p) \union Els(s)
    BY ConcatEls
  <2> QED
    BY <1>1, <2>1, <2>2
<1>3. /\ Up(p \o m) /\ Up(s) /\ \A x \in Els(p \o m), y \in Els(s) : x < y
      /\ Up(p) /\ Up(m) /\ \A x \in Els(p), y \in Els(m) : x < y
  BY <1>1, ConcatUp DEF Whole
<1>4. Up(p \o s)
  <2>1. \A x \in Els(p), y \in Els(s) : x < y
    BY <1>2, <1>3
  <2> QED
    BY <1>3, <2>1, ConcatUp
<1>5. Els(m) \intersect (Els(p) \union Els(s)) = {}
  <2>1. \A x \in Els(p) \union Els(m) \union Els(s) : x \in Nat
    <3>1. \A q \in Seq(Nat) : \A k \in DOMAIN q : q[k] \in Nat
      BY LenProperties, ElementOfSeq
    <3> QED
      BY <3>1 DEF Els
  <2>2. ASSUME NEW x \in Els(m), x \in Els(p) \union Els(s)
        PROVE  FALSE
    <3>1. x < x
      BY <1>2, <1>3, <2>2
    <3> QED
      BY <2>1, <3>1
  <2> QED
    BY <2>2
<1>6. /\ Els((p \o m) \o s) \union dr = 0 .. n - 1
      /\ Els((p \o m) \o s) \intersect dr = {}
  BY DEF Whole
<1> HIDE DEF Els
<1>7. /\ Els(p \o s) \union (dr \union Els(m)) = 0 .. n - 1
      /\ Els(p \o s) \intersect (dr \union Els(m)) = {}
  BY <1>2, <1>5, <1>6
<1> QED
  BY <1>4, <1>7 DEF Whole

\* The indices of chunks and of segments, of what is put behind them or taken
\* away before them.
LEMMA IndexFacts ==
  ASSUME NEW S, \A x \in S : x.index \in Nat, NEW q \in Seq(S)
  PROVE  /\ IndexSeq(q) \in Seq(Nat) /\ Len(IndexSeq(q)) = Len(q)
         /\ IndexSeq(q) = << >> <=> q = << >>
         /\ \A x \in S : IndexSeq(Append(q, x)) = Append(IndexSeq(q), x.index)
         /\ q # << >> => /\ Head(IndexSeq(q)) = Head(q).index
                         /\ IndexSeq(Tail(q)) = Tail(IndexSeq(q))
<1>1. DOMAIN q = 1 .. Len(q) /\ Len(q) \in Nat
  BY LenProperties
<1>2. \A k \in DOMAIN q : q[k].index \in Nat
  BY <1>1, ElementOfSeq
<1>3. IndexSeq(q) \in Seq(Nat) /\ Len(IndexSeq(q)) = Len(q)
  BY <1>1, <1>2 DEF IndexSeq
<1>4. \A k \in 1 .. Len(q) : IndexSeq(q)[k] = q[k].index
  BY <1>1 DEF IndexSeq
<1>5. IndexSeq(q) = << >> <=> q = << >>
  BY <1>3, EmptySeq
<1>6. ASSUME NEW x \in S
      PROVE  IndexSeq(Append(q, x)) = Append(IndexSeq(q), x.index)
  <2> DEFINE r == Append(q, x)
             u == Append(IndexSeq(q), x.index)
  <2>1. /\ r \in Seq(S) /\ Len(r) = Len(q) + 1 /\ DOMAIN r = 1 .. Len(q) + 1
        /\ \A k \in 1 .. Len(q) : r[k] = q[k]
        /\ r[Len(q) + 1] = x
    BY <1>1, AppendProperties, LenProperties
  <2>2. /\ u \in Seq(Nat) /\ Len(u) = Len(q) + 1
        /\ \A k \in 1 .. Len(q) : u[k] = IndexSeq(q)[k]
        /\ u[Len(q) + 1] = x.index
    BY <1>3, AppendProperties
  <2> HIDE DEF r, u
  <2>3. \A k \in DOMAIN r : r[k].index \in Nat
    BY <2>1, ElementOfSeq
  <2>4. /\ IndexSeq(r) \in Seq(Nat) /\ Len(IndexSeq(r)) = Len(q) + 1
        /\ \A k \in 1 .. Len(q) + 1 : IndexSeq(r)[k] = r[k].index
    BY <1>1, <2>1, <2>3 DEF IndexSeq
  <2>5. ASSUME NEW k \in 1 .. Len(q) + 1 PROVE IndexSeq(r)[k] = u[k]
    <3>1. CASE k \in 1 .. Len(q)
      BY <1>4, <2>1, <2>2, <2>4, <3>1
    <3>2. CASE k = Len(q) + 1
      BY <2>1, <2>2, <2>4, <3>2
    <3> QED
      BY <1>1, <3>1, <3>2
  <2> QED
    BY <2>2, <2>4, <2>5, SeqEqual DEF r, u
<1>7. ASSUME q # << >>
      PROVE  Head(IndexSeq(q)) = Head(q).index /\ IndexSeq(Tail(q)) = Tail(IndexSeq(q))
  <2> DEFINE r == Tail(q)
             u == Tail(IndexSeq(q))
  <2>1. /\ r \in Seq(S) /\ Len(r) = Len(q) - 1 /\ Len(q) \in Nat \ {0}
        /\ \A k \in 1 .. Len(r) : r[k] = q[k + 1]
    BY <1>7, EmptySeq, HeadTailProperties
  <2>2. /\ u \in Seq(Nat) /\ Len(u) = Len(q) - 1
        /\ \A k \in 1 .. Len(q) - 1 : u[k] = IndexSeq(q)[k + 1]
    BY <1>3, <1>5, <1>7, HeadTailProperties
  <2>3. Head(IndexSeq(q)) = Head(q).index
    <3>1. Head(q) = q[1] /\ Head(IndexSeq(q)) = IndexSeq(q)[1] /\ 1 \in 1 .. Len(q)
      BY <1>3, <2>1
    <3> QED
      BY <1>4, <3>1
  <2> HIDE DEF r, u
  <2>4. DOMAIN r = 1 .. Len(r) /\ \A k \in DOMAIN r : r[k].index \in Nat
    BY <2>1, LenProperties, ElementOfSeq
  <2>5. /\ IndexSeq(r) \in Seq(Nat) /\ Len(IndexSeq(r)) = Len(q) - 1
        /\ \A k \in 1 .. Len(q) - 1 : IndexSeq(r)[k] = r[k].index
    BY <2>1, <2>4 DEF IndexSeq
  <2>6. \A k \in 1 .. Len(q) - 1 : IndexSeq(r)[k] = u[k]
    <3>1. ASSUME NEW k \in 1 .. Len(q) - 1
          PROVE  IndexSeq(r)[k] = u[k]
      <4>1. k + 1 \in 1 .. Len(q)
        BY <2>1
      <4> QED
        BY <1>4, <2>1, <2>2, <2>5, <4>1
    <3> QED
      BY <3>1
  <2> QED
    BY <2>2, <2>3, <2>5, <2>6, SeqEqual DEF r, u
<1> QED
  BY <1>3, <1>5, <1>6, <1>7

-----------------------------------------------------------------------------
(* A synthesis on its way is one of the head of the pending queue.         *)

\* The members of K that ask for or answer a synthesis of t's job name its head.
Asked(K, t) == {x \in K : Carries(x, t.active) => HeadIs(t, x.index)}

Indexed(t, c, jt, m) ==
  t.active # NoJob =>
    /\ c \in Seq(Asked(Cmd, t)) /\ m \in Seq(Asked(Msg, t))
    /\ Carries(jt, t.active) => HeadIs(t, jt.index)

\* Nothing is on its way.
LEMMA IndexedClear ==
  ASSUME NEW t, NEW c, NEW jt, NEW m, State(t, c, jt, m),
         t.active # NoJob => Clear(t.active, c, jt, m)
  PROVE  Indexed(t, c, jt, m)
<1>1. SUFFICES ASSUME t.active # NoJob
               PROVE  /\ c \in Seq(Asked(Cmd, t)) /\ m \in Seq(Asked(Msg, t))
                      /\ Carries(jt, t.active) => HeadIs(t, jt.index)
  BY DEF Indexed
<1>2. ASSUME NEW K, NEW q \in Seq(K), None(q, t.active)
      PROVE  q \in Seq(Asked(K, t))
  <2>1. q \in [1 .. Len(q) -> K] /\ Len(q) \in Nat
    BY <1>2, LenProperties
  <2>2. \A k \in 1 .. Len(q) : q[k] \in Asked(K, t)
    BY <1>2, <2>1, LenProperties DEF None, Asked
  <2>3. q \in [1 .. Len(q) -> Asked(K, t)]
    BY <2>1, <2>2
  <2> QED
    BY <2>1, <2>3, SeqDef
<1> QED
  BY <1>1, <1>2 DEF Clear, State

\* The head of the pending queue and the job stay what they are.
LEMMA IndexedSame ==
  ASSUME NEW t, NEW u, NEW c, NEW jt, NEW m, Indexed(t, c, jt, m),
         u.active = t.active, \A i : HeadIs(t, i) => HeadIs(u, i)
  PROVE  Indexed(u, c, jt, m)
<1>1. \A K : Asked(K, t) \subseteq Asked(K, u)
  BY DEF Asked
<1>2. \A K : \A q \in Seq(Asked(K, t)) : q \in Seq(Asked(K, u))
  BY <1>1, SeqMonotonic
<1> QED
  BY <1>2 DEF Indexed

\* A command that carries no synthesis joins the queue.
LEMMA IndexedSend ==
  ASSUME NEW t, NEW c, NEW jt, NEW m, Indexed(t, c, jt, m),
         NEW x \in Cmd, x.kind # "Synthesize"
  PROVE  Indexed(t, Append(c, x), jt, m)
<1>1. x \in Asked(Cmd, t)
  BY DEF Asked, Carries, Cmd, CmdKinds
<1> QED
  BY <1>1, AppendProperties DEF Indexed

\* A message leaves the queue.
LEMMA IndexedDrop ==
  ASSUME NEW t, NEW c, NEW jt, NEW m, Indexed(t, c, jt, m), m # << >>
  PROVE  /\ Indexed(t, c, jt, Tail(m))
         /\ t.active # NoJob /\ Carries(Head(m), t.active) => HeadIs(t, Head(m).index)
<1>1. ASSUME t.active # NoJob
      PROVE  Head(m) \in Asked(Msg, t) /\ Tail(m) \in Seq(Asked(Msg, t))
  BY <1>1, HeadTailProperties DEF Indexed
<1> QED
  BY <1>1 DEF Indexed, Asked

\* pump_tts_synth asks for the head of the pending queue.
LEMMA IndexedPump ==
  ASSUME NEW t \in Controller, NEW c, NEW jt, NEW m, Indexed(t, c, jt, m),
         NEW loaded
  PROVE  Indexed(Pumped(t, loaded), PumpedCmds(t, c, loaded), jt, m)
<1>1. CASE ~Pumps(t, loaded)
  BY <1>1 DEF Pumped, PumpedCmds
<1>2. CASE Pumps(t, loaded)
  <2> DEFINE x == Synthesize(t.active, Head(t.pending).index)
  <2>1. /\ Pumped(t, loaded) = MarkSynthStarted(t)
        /\ PumpedCmds(t, c, loaded) = Append(c, x)
    BY <1>2 DEF Pumped, PumpedCmds
  <2>2. x \in Cmd /\ x.index = Head(t.pending).index /\ t.pending # << >>
    BY <1>2, HeadPendingType DEF Pumps, Synthesize, Cmd, CmdKinds, ShouldRequestSynth
  <2>3. /\ MarkSynthStarted(t).active = t.active
        /\ MarkSynthStarted(t).pending = t.pending
    BY DEF MarkSynthStarted, Controller
  <2>4. x \in Asked(Cmd, t)
    BY <2>2 DEF Asked, HeadIs
  <2> HIDE DEF x
  <2>5. Indexed(t, Append(c, x), jt, m)
    BY <2>4, AppendProperties DEF Indexed
  <2>6. Indexed(MarkSynthStarted(t), Append(c, x), jt, m)
    BY <2>3, <2>5, IndexedSame DEF HeadIs
  <2> QED
    BY <2>1, <2>6
<1> QED
  BY <1>1, <1>2

\* load_tts carries no synthesis.
LEMMA IndexedLoad ==
  ASSUME NEW t, NEW c, NEW jt, NEW m, Indexed(t, c, jt, m),
         NEW loaded, NEW loading, LoadTts(c, loaded, loading)
  PROVE  Indexed(t, cmds', jt, m)
<1>1. Command("LoadTts") \in Cmd /\ Command("LoadTts").kind # "Synthesize"
  BY CommandType DEF CmdKinds, Command
<1>2. Indexed(t, Append(c, Command("LoadTts")), jt, m)
  BY <1>1, IndexedSend
<1> QED
  BY <1>2 DEF LoadTts

\* start_speak_job: a job that begins has nothing on its way but what it asks for.
LEMMA IndexedStart ==
  ASSUME TypeOK, NEW m \in Seq(Msg), Sound(tts, cmds, jobThread, m),
         NEW s \in [req : Nat, segs : Nat], NEW rest,
         NEW loaded, NEW loading, StartSpeakJob(s, rest, loaded, loading)
  PROVE  Indexed(tts', cmds', jobThread, m)
<1>1. State(tts, cmds, jobThread, m) /\ Cancel(tts) \in Controller
  BY CancelType DEF State, TypeOK
<1>2. State(Cancel(tts), cmds, jobThread, m) /\ Sound(Cancel(tts), cmds, jobThread, m)
  BY <1>1, SoundCancel DEF State
<1>3. CASE tts.inFlight
  <2>1. tts'.active = NoJob
    BY <1>1, <1>3 DEF StartSpeakJob, CleanupChunkTemps, Cancel
  <2> QED
    BY <2>1 DEF Indexed
<1>4. CASE ~tts.inFlight
  <2> DEFINE t == BeginJob(Cancel(tts), s.segs)
  <2>1. PumpTtsSynth(t, cmds, loaded)
    BY <1>4 DEF StartSpeakJob
  <2>2. t \in Controller /\ Sound(t, cmds, jobThread, m) /\ State(t, cmds, jobThread, m)
    BY <1>1, <1>2, BeginJobType, SoundBegin DEF State
  <2>3. ~t.inFlight
    BY DEF BeginJob
  <2> HIDE DEF t
  <2>4. Indexed(t, cmds, jobThread, m)
    BY <2>2, <2>3, IndexedClear DEF Sound, Flight
  <2> QED
    BY <2>1, <2>2, <2>4, IndexedPump DEF PumpTtsSynth
<1> QED
  BY <1>3, <1>4

\* finalize_tts_job_if_done ends the job or leaves it as it is.
LEMMA IndexedFinalize ==
  ASSUME NEW t, NEW tr, NEW c, NEW jt, NEW m, Indexed(t, c, jt, m), t \in Controller,
         FinalizeIfDone(t, tr)
  PROVE  Indexed(tts', c, jt, m)
BY DEF FinalizeIfDone, EndJob, Indexed, Controller

IndexNow == Indexed(tts, cmds, jobThread, msgs)

\* Every command of the user keeps what is on its way at the head of the queue.
LEMMA UserIndex ==
  ASSUME TypeOK, SoundNow, IndexNow, User
  PROVE  IndexNow'
<1>1. jobThread' = jobThread /\ msgs' = msgs /\ msgs \in Seq(Msg) /\ tts \in Controller
      /\ ttsLoaded \in BOOLEAN
  BY DEF User, Speak, StopSpeech, UnloadVoice, UnloadAll, LoadVoice, LoadDictation, UserActs,
         Replay, PauseResume, workerVars, TypeOK
<1>2. SUFFICES Indexed(tts', cmds', jobThread, msgs)
  BY <1>1 DEF IndexNow
<1>3. CASE \E n \in SegmentCounts : Speak(n)
  <2>1. PICK n \in SegmentCounts : Speak(n)
    BY <1>3
  <2> DEFINE s == [req |-> requests', segs |-> n]
  <2>2. s \in [req : Nat, segs : Nat]
    BY <2>1, PipelineAssumption DEF TypeOK, Speak
  <2>3. \/ LoadTts(cmds, ttsLoaded, ttsLoading) /\ tts' = tts
        \/ StartSpeakJob(s, pendingSpeak, ttsLoaded, ttsLoading)
    BY <2>1 DEF Speak
  <2> HIDE DEF s
  <2> QED
    BY <1>1, <2>2, <2>3, IndexedLoad, IndexedStart DEF SoundNow, IndexNow
<1>4. CASE StopSpeech \/ UnloadVoice \/ UnloadAll
  <2>1. tts'.active = NoJob
    <3>1. Cancel(tts) \in Controller /\ Cancel(tts).active = NoJob
      BY <1>1, CancelType DEF Cancel
    <3> QED
      BY <1>4, <3>1 DEF StopSpeech, UnloadVoice, UnloadAll, DiscardAllAudio, CleanupChunkTemps,
                        Controller
  <2> QED
    BY <2>1 DEF Indexed
<1>5. CASE LoadVoice
  BY <1>5, IndexedLoad DEF LoadVoice, IndexNow
<1>6. CASE LoadDictation
  <2>1. Command("LoadStt") \in Cmd /\ Command("LoadStt").kind # "Synthesize"
    BY CommandType DEF CmdKinds, Command
  <2> QED
    BY <1>6, <2>1, IndexedSend DEF LoadDictation, IndexNow
<1>7. CASE Replay \/ PauseResume
  BY <1>7 DEF Replay, PauseResume, IndexNow
<1> QED
  BY <1>3, <1>4, <1>5, <1>6, <1>7 DEF User

\* The live job's answer is taken: nothing else is on its way, and what was
\* asked for is the head of the pending queue.
LEMMA AnswerTaken ==
  ASSUME TypeOK, SoundNow, IndexNow,
         NEW kind \in {"TtsChunkReady", "TtsChunkFailed"}, Receive(kind),
         Live(tts, Head(msgs).job),
         NEW u \in Controller, u.active = tts.active, u.jobId = tts.jobId, ~u.inFlight,
         Len(u.ready) <= Len(tts.ready) + 1
  PROVE  /\ Indexed(u, cmds, jobThread, msgs')
         /\ HeadIs(tts, Head(msgs).index)
<1>1. msgs # << >> /\ msgs' = Tail(msgs) /\ msgs' \in Seq(Msg)
      /\ Carries(Head(msgs), tts.active) /\ tts.active # NoJob
  BY HeadTailProperties DEF Receive, TypeOK, Live, Carries
<1>2. HeadIs(tts, Head(msgs).index)
  BY <1>1, IndexedDrop DEF IndexNow
<1>3. State(u, cmds, jobThread, msgs')
  BY <1>1 DEF State, TypeOK
<1>4. Sound(u, cmds, jobThread, msgs')
  BY SoundTakeAnswer
<1>5. Clear(u.active, cmds, jobThread, msgs')
  BY <1>1, <1>4 DEF Sound, Flight
<1> QED
  BY <1>2, <1>3, <1>5, IndexedClear

\* What on_chunk_ready does to the fields of the controller.
LEMMA ReadyFields ==
  ASSUME TypeOK, NEW m \in Msg
  PROVE  LET t == OnChunkReady(tts, m.job, m.index)
         IN  /\ t \in Controller
             /\ t.active = tts.active /\ t.jobId = tts.jobId /\ t.total = tts.total
             /\ ~t.inFlight
             /\ t.ready = Append(tts.ready, [job |-> m.job, index |-> m.index])
             /\ t.pending = Made(tts, m.index)
             /\ Len(t.ready) <= Len(tts.ready) + 1
<1> DEFINE t == OnChunkReady(tts, m.job, m.index)
           x == [job |-> m.job, index |-> m.index]
<1>1. tts \in Controller /\ tts.ready \in Seq(Chunk) /\ x \in Chunk
  BY DEF TypeOK, Controller, Msg, Chunk
<1>2. t \in Controller
  BY <1>1, OnChunkReadyType DEF Msg
<1>3. /\ t.active = tts.active /\ t.jobId = tts.jobId /\ t.total = tts.total
      /\ ~t.inFlight /\ t.ready = Append(tts.ready, x) /\ t.pending = Made(tts, m.index)
  BY <1>1 DEF OnChunkReady, Controller
<1> HIDE DEF t, x
<1>4. Len(t.ready) <= Len(tts.ready) + 1
  BY <1>1, <1>3, AppendProperties, LenProperties
<1> QED
  BY <1>2, <1>3, <1>4 DEF t, x

\* What on_chunk_failed does to the fields of the controller.
LEMMA FailedFields ==
  ASSUME TypeOK, NEW m \in Msg
  PROVE  LET t == OnChunkFailed(tts, m.index)
         IN  /\ t \in Controller
             /\ t.active = tts.active /\ t.jobId = tts.jobId /\ t.total = tts.total
             /\ ~t.inFlight /\ t.ready = tts.ready /\ t.pending = Failed(tts, m.index)
             /\ Len(t.ready) <= Len(tts.ready) + 1
<1>1. tts \in Controller /\ Len(tts.ready) \in Nat
  BY LenProperties DEF TypeOK, Controller
<1> DEFINE t == OnChunkFailed(tts, m.index)
<1>2. t \in Controller
  BY <1>1, OnChunkFailedType DEF Msg
<1>3. /\ t.active = tts.active /\ t.jobId = tts.jobId /\ t.total = tts.total
      /\ ~t.inFlight /\ t.ready = tts.ready /\ t.pending = Failed(tts, m.index)
  BY <1>1 DEF OnChunkFailed, Controller
<1> HIDE DEF t
<1>4. Len(t.ready) <= Len(tts.ready) + 1
  BY <1>1, <1>3
<1> QED
  BY <1>2, <1>3, <1>4 DEF t

\* Every message handler keeps what is on its way at the head of the queue.
LEMMA HandleMsgIndex ==
  ASSUME TypeOK, SoundNow, IndexNow, HandleMsg
  PROVE  IndexNow'
<1>1. jobThread' = jobThread /\ msgs # << >> /\ msgs' = Tail(msgs) /\ msgs' \in Seq(Msg)
      /\ tts \in Controller /\ Head(msgs) \in Msg
      /\ pendingSpeak \in [req : Nat, segs : Nat]
  <2>1. jobThread' = jobThread /\ msgs # << >> /\ msgs' = Tail(msgs)
    BY DEF HandleMsg, OnModelStatus, OnTtsLoaded, OnWorkerTimedOut, OnChunkReadyMsg,
           OnChunkFailedMsg, Receive
  <2>2. msgs \in Seq(Msg) /\ tts \in Controller /\ pendingSpeak \in [req : Nat, segs : Nat]
    BY DEF TypeOK
  <2> QED
    BY <2>1, <2>2, HeadTailProperties
<1>2. SUFFICES Indexed(tts', cmds', jobThread, msgs')
  BY <1>1 DEF IndexNow
<1>3. Indexed(tts, cmds, jobThread, msgs')
  BY <1>1, IndexedDrop DEF IndexNow
<1>4. CASE OnModelStatus \/ OnWorkerTimedOut
  BY <1>3, <1>4 DEF OnModelStatus, OnWorkerTimedOut
<1>5. CASE OnTtsLoaded
  <2>1. Sound(tts, cmds, jobThread, msgs')
    BY <1>5, SoundDropMsg DEF OnTtsLoaded, Receive, Carries
  <2>2. \/ StartSpeakJob(pendingSpeak, NoSpeak, TRUE, FALSE)
        \/ PumpTtsSynth(tts, cmds, TRUE)
        \/ UNCHANGED << tts, cmds >>
    BY <1>5 DEF OnTtsLoaded
  <2> QED
    BY <1>1, <1>3, <2>1, <2>2, IndexedStart, IndexedPump DEF PumpTtsSynth
<1>6. CASE OnChunkReadyMsg
  <2> DEFINE h == Head(msgs)
             t == OnChunkReady(tts, h.job, h.index)
  <2>1. CASE ~Live(tts, h.job)
    BY <1>3, <1>6, <2>1 DEF OnChunkReadyMsg
  <2>2. CASE Live(tts, h.job)
    <3>1. Receive("TtsChunkReady")
      BY <1>6 DEF OnChunkReadyMsg
    <3>2. (tts' = t /\ cmds' = cmds) \/ PumpTtsSynth(t, cmds, ttsLoaded)
      BY <1>6, <2>2 DEF OnChunkReadyMsg
    <3>3. /\ t \in Controller /\ t.active = tts.active /\ t.jobId = tts.jobId
          /\ ~t.inFlight /\ Len(t.ready) <= Len(tts.ready) + 1
      BY <1>1, ReadyFields
    <3> HIDE DEF t
    <3>4. Indexed(t, cmds, jobThread, msgs')
      BY <2>2, <3>1, <3>3, AnswerTaken
    <3> QED
      BY <3>2, <3>3, <3>4, IndexedPump DEF PumpTtsSynth
  <2> QED
    BY <2>1, <2>2
<1>7. CASE OnChunkFailedMsg
  <2> DEFINE h == Head(msgs)
             t == OnChunkFailed(tts, h.index)
  <2>1. CASE ~Live(tts, h.job)
    BY <1>3, <1>7, <2>1 DEF OnChunkFailedMsg
  <2>2. CASE Live(tts, h.job)
    <3>1. Receive("TtsChunkFailed")
      BY <1>7 DEF OnChunkFailedMsg
    <3>2. /\ IF ~ttsLoaded THEN LoadTts(cmds, ttsLoaded, ttsLoading)
                           ELSE cmds' = PumpedCmds(t, cmds, TRUE)
          /\ \/ tts' = Pumped(t, ttsLoaded)
             \/ FinalizeIfDone(Pumped(t, ttsLoaded), SetPendingQueue(transport, FALSE))
      BY <1>7, <2>2 DEF OnChunkFailedMsg
    <3>3. /\ t \in Controller /\ t.active = tts.active /\ t.jobId = tts.jobId
          /\ ~t.inFlight /\ Len(t.ready) <= Len(tts.ready) + 1
      BY <1>1, FailedFields
    <3> HIDE DEF t
    <3>4. Indexed(t, cmds, jobThread, msgs')
      BY <2>2, <3>1, <3>3, AnswerTaken
    <3>5. ttsLoaded \in BOOLEAN /\ Pumped(t, ttsLoaded) \in Controller
      BY <3>3, PumpedType DEF TypeOK
    <3>6. Indexed(Pumped(t, ttsLoaded), cmds', jobThread, msgs')
      <4>1. CASE ~ttsLoaded
        <5>1. Pumped(t, ttsLoaded) = t
          BY <4>1 DEF Pumped, Pumps
        <5> QED
          BY <3>2, <3>4, <4>1, <5>1, IndexedLoad
      <4>2. CASE ttsLoaded
        <5>1. ttsLoaded = TRUE
          BY <3>5, <4>2
        <5> QED
          BY <3>2, <3>3, <3>4, <5>1, IndexedPump
      <4> QED
        BY <4>1, <4>2
    <3> QED
      BY <3>2, <3>5, <3>6, IndexedFinalize
  <2> QED
    BY <2>1, <2>2
<1> QED
  BY <1>4, <1>5, <1>6, <1>7 DEF HandleMsg

\* The transport poll and the hand-over loop keep what is on its way at the head.
LEMMA PollIndex ==
  ASSUME TypeOK, IndexNow, PollTransport \/ HandOver
  PROVE  IndexNow'
<1>1. tts \in Controller /\ ttsLoaded \in BOOLEAN
  BY DEF TypeOK
<1>2. jobThread' = jobThread /\ msgs' = msgs
  BY DEF PollTransport, HandOver, HandOverNext, HandOverEnds, workerVars
<1>3. SUFFICES Indexed(tts', cmds', jobThread, msgs)
  BY <1>2 DEF IndexNow
<1>4. CASE PollTransport
  <2> DEFINE asks == Tick(transport).status = "playing" /\ ttsLoaded
             t    == Pumped(tts, asks)
  <2>1. /\ cmds' = PumpedCmds(tts, cmds, asks)
        /\ tts' = t \/ \E u : FinalizeIfDone(t, u)
    BY <1>4 DEF PollTransport
  <2>2. t \in Controller
    BY PumpedType DEF TypeOK
  <2> HIDE DEF asks
  <2>3. Indexed(t, cmds', jobThread, msgs)
    BY <1>1, <2>1, IndexedPump DEF IndexNow
  <2> HIDE DEF t
  <2> QED
    BY <2>1, <2>2, <2>3, IndexedFinalize
<1>5. CASE \E appends \in BOOLEAN, o \in StartOutcome : HandOverNext(appends, o)
  <2> DEFINE t == PopReady(tts)
  <2>1. /\ tts.ready # << >>
        /\ \/ tts' = t /\ cmds' = cmds
           \/ PumpTtsSynth(t, cmds, ttsLoaded)
           \/ (\E u : FinalizeIfDone(t, u)) /\ cmds' = cmds
    BY <1>5 DEF HandOverNext
  <2>2. t \in Controller /\ t.active = tts.active /\ t.pending = tts.pending
    <3>1. t \in Controller
      BY <1>1, <2>1, PopReadyType
    <3> QED
      BY <1>1, <3>1 DEF PopReady, Controller
  <2> HIDE DEF t
  <2>3. Indexed(t, cmds, jobThread, msgs)
    BY <2>2, IndexedSame DEF IndexNow, HeadIs
  <2> QED
    BY <2>1, <2>2, <2>3, IndexedPump, IndexedFinalize DEF PumpTtsSynth
<1>6. CASE HandOverEnds
  BY <1>1, <1>6, IndexedPump DEF HandOverEnds, PumpTtsSynth, IndexNow
<1> QED
  BY <1>4, <1>5, <1>6 DEF HandOver

\* The job thread answers for the segment it was asked for.
LEMMA JobThreadIndex ==
  ASSUME TypeOK, IndexNow, JobThread
  PROVE  IndexNow'
<1>1. tts' = tts
  BY DEF JobThread, TakeCmd, ServeLoadTts, ServeSynthesize, ServeCancelTtsWorker, ServeUnload,
         ServeLoadStt, Serving, uiVars
<1>2. SUFFICES ASSUME tts.active # NoJob
               PROVE  Indexed(tts, cmds', jobThread', msgs')
  BY <1>1 DEF IndexNow, Indexed
<1>3. /\ cmds \in Seq(Asked(Cmd, tts)) /\ msgs \in Seq(Asked(Msg, tts))
      /\ Carries(jobThread, tts.active) => HeadIs(tts, jobThread.index)
  BY <1>2 DEF IndexNow, Indexed
<1>4. CASE TakeCmd
  <2>1. Head(cmds) \in Asked(Cmd, tts) /\ Tail(cmds) \in Seq(Asked(Cmd, tts))
    BY <1>3, <1>4, HeadTailProperties DEF TakeCmd
  <2> QED
    BY <1>3, <1>4, <2>1 DEF TakeCmd, Indexed, Asked
<1>5. ASSUME NEW kind \in CmdKinds, Serving(kind), NEW s \in Seq(Asked(Msg, tts)), Post(s)
      PROVE  Indexed(tts, cmds', jobThread', msgs')
  <2>1. cmds' = cmds /\ jobThread' = Idle /\ msgs' = msgs \o s
    BY <1>5 DEF Serving, Post
  <2>2. msgs \o s \in Seq(Asked(Msg, tts))
    BY <1>3, <1>5, ConcatProperties
  <2>3. ~Carries(Idle, tts.active)
    BY DEF Idle, Carries
  <2> QED
    BY <1>3, <2>1, <2>2, <2>3 DEF Indexed
<1>6. \A b \in BOOLEAN : ModelStatus(b) \in Asked(Msg, tts) /\ TtsLoaded(b) \in Asked(Msg, tts)
  BY DEF ModelStatus, TtsLoaded, Msg, MsgKinds, Asked, Carries, NoJob
<1>7. ASSUME NEW kind \in CmdKinds, Serving(kind), NEW a \in BOOLEAN, NEW b \in BOOLEAN,
             Post(<< ModelStatus(a) >>) \/ Post(<< TtsLoaded(b), ModelStatus(a) >>)
      PROVE  Indexed(tts, cmds', jobThread', msgs')
  <2>1. /\ << ModelStatus(a) >> \in Seq(Asked(Msg, tts))
        /\ << TtsLoaded(b), ModelStatus(a) >> \in Seq(Asked(Msg, tts))
    BY <1>6
  <2> QED
    BY <1>5, <1>7, <2>1
<1>8. CASE ServeLoadTts
  BY <1>7, <1>8 DEF ServeLoadTts, CmdKinds
<1>9. CASE ServeCancelTtsWorker
  BY <1>7, <1>9 DEF ServeCancelTtsWorker, CmdKinds
<1>10. CASE ServeUnload
  <2>1. policy' \in BOOLEAN /\ Serving("Unload") /\ Post(<< ModelStatus(policy') >>)
    BY <1>10, UnloadedType DEF ServeUnload
  <2> QED
    BY <1>7, <2>1 DEF CmdKinds
<1>11. CASE ServeLoadStt
  <2>1. policy' \in BOOLEAN /\ Serving("LoadStt") /\ Post(<< ModelStatus(policy') >>)
    BY <1>11, UnloadedType DEF ServeLoadStt, TypeOK
  <2> QED
    BY <1>7, <2>1 DEF CmdKinds
<1>12. CASE ServeSynthesize
  <2>1. Serving("Synthesize") /\ jobThread \in Cmd /\ jobThread.kind = "Synthesize"
    BY <1>12, ServingType DEF ServeSynthesize, Serving, CmdKinds
  <2> DEFINE ready == ChunkReady(jobThread)
             failed == ChunkFailed(jobThread)
             timedOut == TimedOut(jobThread)
  <2>2. /\ ready \in Msg /\ failed \in Msg /\ timedOut \in Msg
        /\ ready.job = jobThread.job /\ failed.job = jobThread.job
        /\ ready.index = jobThread.index /\ failed.index = jobThread.index
        /\ timedOut.kind = "WorkerTimedOut"
    BY <2>1 DEF ChunkReady, ChunkFailed, TimedOut, Msg, MsgKinds, Cmd
  <2>3. \E a \in BOOLEAN :
          \/ Post(<< ready >>) \/ Post(<< failed >>)
          \/ Post(<< timedOut, ModelStatus(a), failed >>)
    BY <1>12 DEF ServeSynthesize
  <2>4. PICK a \in BOOLEAN :
          \/ Post(<< ready >>) \/ Post(<< failed >>)
          \/ Post(<< timedOut, ModelStatus(a), failed >>)
    BY <2>3
  <2> HIDE DEF ready, failed, timedOut
  <2>5. ready \in Asked(Msg, tts) /\ failed \in Asked(Msg, tts) /\ timedOut \in Asked(Msg, tts)
    BY <1>3, <2>1, <2>2 DEF Asked, Carries
  <2>6. /\ << ready >> \in Seq(Asked(Msg, tts)) /\ << failed >> \in Seq(Asked(Msg, tts))
        /\ << timedOut, ModelStatus(a), failed >> \in Seq(Asked(Msg, tts))
    BY <1>6, <2>5
  <2> QED
    BY <1>5, <2>1, <2>4, <2>6 DEF CmdKinds
<1> QED
  BY <1>4, <1>8, <1>9, <1>10, <1>11, <1>12 DEF JobThread

\* What is on its way stays at the head of the pending queue.
LEMMA NextIndex ==
  ASSUME TypeOK, SoundNow, IndexNow, [Next]_vars
  PROVE  IndexNow'
<1>1. CASE PlayerAdvances \/ PlayerDies \/ WorkerDies \/ UNCHANGED vars
  BY <1>1 DEF IndexNow, PlayerAdvances, PlayerDies, WorkerDies, vars, uiVars, workerVars
<1> QED
  BY <1>1, UserIndex, HandleMsgIndex, PollIndex, JobThreadIndex DEF Next

\* A text that waits has segments.
TextWaits == pendingSpeak # NoSpeak => pendingSpeak.segs > 0

\* Only a text of at least one segment is made to wait (split_for_tts).
LEMMA NextTextWaits ==
  ASSUME TypeOK, TextWaits, [Next]_vars
  PROVE  TextWaits'
<1>1. CASE \E n \in SegmentCounts : Speak(n)
  <2>1. PICK n \in SegmentCounts : Speak(n)
    BY <1>1
  <2> DEFINE s == [req |-> requests', segs |-> n]
  <2>2. n > 0 /\ s.segs = n
    BY <2>1, PipelineAssumption
  <2>3. \/ pendingSpeak' = s
        \/ StartSpeakJob(s, pendingSpeak, ttsLoaded, ttsLoading)
    BY <2>1 DEF Speak
  <2> HIDE DEF s
  <2>4. pendingSpeak' = s \/ pendingSpeak' = pendingSpeak
    BY <2>3 DEF StartSpeakJob
  <2> QED
    BY <2>2, <2>4 DEF TextWaits
<1>2. CASE User /\ ~\E n \in SegmentCounts : Speak(n)
  <2>1. pendingSpeak' \in {NoSpeak, pendingSpeak}
    BY <1>2 DEF User, StopSpeech, UnloadVoice, UnloadAll, DiscardAllAudio, LoadVoice,
                LoadDictation, Replay, PauseResume
  <2> QED
    BY <2>1 DEF TextWaits
<1>3. CASE HandleMsg
  <2>1. pendingSpeak' \in {NoSpeak, pendingSpeak}
    BY <1>3 DEF HandleMsg, OnModelStatus, OnTtsLoaded, OnWorkerTimedOut, OnChunkReadyMsg,
                OnChunkFailedMsg, StartSpeakJob
  <2> QED
    BY <2>1 DEF TextWaits
<1>4. CASE PollTransport \/ HandOver \/ JobThread
  <2>1. pendingSpeak' = pendingSpeak
    BY <1>4 DEF PollTransport, HandOver, HandOverNext, HandOverEnds, JobThread, TakeCmd,
                ServeLoadTts, ServeSynthesize, ServeCancelTtsWorker, ServeUnload,
                ServeLoadStt, Serving, uiVars
  <2> QED
    BY <2>1 DEF TextWaits
<1>5. CASE PlayerAdvances \/ PlayerDies \/ WorkerDies \/ UNCHANGED vars
  BY <1>5 DEF TextWaits, PlayerAdvances, PlayerDies, WorkerDies, vars, uiVars
<1> QED
  BY <1>1, <1>2, <1>3, <1>4, <1>5 DEF Next

-----------------------------------------------------------------------------
(* The row of a text: heard, queued, ready and pending segments.           *)

\* Concatenation, under a name the provers do not expand.
Cat(a, b) == a \o b

\* What is known of concatenation.
LEMMA CatFacts ==
  ASSUME NEW S
  PROVE  /\ \A a, b \in Seq(S) : Cat(a, b) \in Seq(S)
         /\ \A a, b, c \in Seq(S) : Cat(Cat(a, b), c) = Cat(a, Cat(b, c))
         /\ \A a \in Seq(S) : Cat(a, << >>) = a
         /\ \A a \in Seq(S) : \A x \in S : Append(a, x) = Cat(a, << x >>) /\ << x >> \in Seq(S)
<1>1. \A a, b \in Seq(S) : Cat(a, b) \in Seq(S)
  BY ConcatProperties DEF Cat
<1>2. \A a, b, c \in Seq(S) : Cat(Cat(a, b), c) = Cat(a, Cat(b, c))
  BY ConcatAssociative DEF Cat
<1>3. \A a \in Seq(S) : Cat(a, << >>) = a
  BY ConcatEmptySeq DEF Cat
<1>4. \A a \in Seq(S) : \A x \in S : Append(a, x) = Cat(a, << x >>) /\ << x >> \in Seq(S)
  BY AppendIsConcat DEF Cat
<1> QED
  BY <1>1, <1>2, <1>3, <1>4

\* The head and the tail of a row, and a row that grows by the head of another.
LEMMA CatShift ==
  ASSUME NEW a \in Seq(Nat), NEW b \in Seq(Nat), b # << >>
  PROVE  /\ Head(b) \in Nat /\ Tail(b) \in Seq(Nat)
         /\ Cat(<< Head(b) >>, Tail(b)) = b
         /\ Append(a, Head(b)) \in Seq(Nat)
         /\ Cat(Append(a, Head(b)), Tail(b)) = Cat(a, b)
<1>1. Head(b) \in Nat /\ Tail(b) \in Seq(Nat)
  BY Shift, EmptySeq
<1>2. << Head(b) >> \o Tail(b) = b
  BY Shift, EmptySeq
<1>3. Append(a, Head(b)) \in Seq(Nat)
  BY <1>1, AppendProperties
<1> DEFINE h == << Head(b) >>
           u == Tail(b)
<1>4. h \in Seq(Nat) /\ u \in Seq(Nat) /\ Append(a, Head(b)) = Cat(a, h) /\ Cat(h, u) = b
  BY <1>1, <1>2, CatFacts DEF Cat
<1> HIDE DEF h, u
<1>5. Cat(Cat(a, h), u) = Cat(a, Cat(h, u))
  BY <1>4, CatFacts
<1> QED
  BY <1>1, <1>2, <1>3, <1>4, <1>5 DEF h, u

Row(a, b, c, d) == Cat(Cat(Cat(a, b), c), d)

\* A segment handed on from one part of the row to the part before it.
LEMMA RowMoves ==
  ASSUME NEW a \in Seq(Nat), NEW b \in Seq(Nat), NEW c \in Seq(Nat), NEW d \in Seq(Nat)
  PROVE  /\ b # << >> => Row(Append(a, Head(b)), Tail(b), c, d) = Row(a, b, c, d)
         /\ c # << >> => Row(a, Append(b, Head(c)), Tail(c), d) = Row(a, b, c, d)
         /\ d # << >> => Row(a, b, Append(c, Head(d)), Tail(d)) = Row(a, b, c, d)
         /\ c # << >> => Row(Append(a, Head(c)), << >>, Tail(c), d) = Row(a, << >>, c, d)
\* behind two parts
<1>1. ASSUME NEW p \in Seq(Nat), NEW q \in Seq(Nat), NEW r \in Seq(Nat), r # << >>
      PROVE  Cat(Cat(p, Append(q, Head(r))), Tail(r)) = Cat(Cat(p, q), r)
  <2> DEFINE x == Append(q, Head(r))
             y == Tail(r)
  <2>1. x \in Seq(Nat) /\ y \in Seq(Nat) /\ Cat(x, y) = Cat(q, r)
    BY <1>1, CatShift
  <2> HIDE DEF x, y
  <2>2. Cat(Cat(p, x), y) = Cat(p, Cat(x, y))
    BY <1>1, <2>1, CatFacts
  <2>3. Cat(Cat(p, q), r) = Cat(p, Cat(q, r))
    BY <1>1, CatFacts
  <2>4. Cat(Cat(p, x), y) = Cat(Cat(p, q), r)
    BY <2>1, <2>2, <2>3
  <2> QED
    BY <2>4 DEF x, y
<1>2. b # << >> => Cat(Append(a, Head(b)), Tail(b)) = Cat(a, b)
  BY CatShift
<1>3. Cat(a, b) \in Seq(Nat)
  BY CatFacts
<1>4. ASSUME c # << >>
      PROVE  Cat(Cat(Append(a, Head(c)), << >>), Tail(c)) = Cat(Cat(a, << >>), c)
  <2> DEFINE x == Append(a, Head(c))
             y == Tail(c)
  <2>1. x \in Seq(Nat) /\ Cat(x, y) = Cat(a, c)
    BY <1>4, CatShift
  <2> HIDE DEF x, y
  <2>2. Cat(x, << >>) = x /\ Cat(a, << >>) = a
    BY <2>1, CatFacts
  <2>3. Cat(Cat(x, << >>), y) = Cat(Cat(a, << >>), c)
    BY <2>1, <2>2
  <2> QED
    BY <2>3 DEF x, y
<1> QED
  BY <1>1, <1>2, <1>3, <1>4 DEF Row

\* What is queued, and the head of what is ready or pending, given up.
LEMMA RowDrops ==
  ASSUME NEW a \in Seq(Nat), NEW b \in Seq(Nat), NEW c \in Seq(Nat), NEW d \in Seq(Nat),
         NEW dr, NEW n, Whole(Row(a, b, c, d), dr, n)
  PROVE  /\ Whole(Row(a, << >>, c, d), dr \union Els(b), n)
         /\ c # << >> => Whole(Row(a, b, Tail(c), d), dr \union {Head(c)}, n)
         /\ d # << >> => Whole(Row(a, b, c, Tail(d)), dr \union {Head(d)}, n)
<1>1. ASSUME NEW p \in Seq(Nat), NEW m \in Seq(Nat), NEW s \in Seq(Nat),
             Whole(Cat(Cat(p, m), s), dr, n)
      PROVE  Whole(Cat(p, s), dr \union Els(m), n)
  BY <1>1, WholeDrop DEF Cat
<1>2. \A x \in Nat : << x >> \in Seq(Nat) /\ Els(<< x >>) = {x}
  <2>1. ASSUME NEW x \in Nat
        PROVE  << x >> \in Seq(Nat) /\ Els(<< x >>) = {x}
    <3>1. << x >> \in Seq(Nat) /\ DOMAIN << x >> = {1} /\ << x >>[1] = x
      OBVIOUS
    <3> QED
      BY <3>1 DEF Els
  <2> QED
    BY <2>1
<1> DEFINE ab == Cat(a, b)
           abc == Cat(ab, c)
<1>3. ab \in Seq(Nat) /\ abc \in Seq(Nat) /\ Cat(c, d) \in Seq(Nat)
  <2>1. ab \in Seq(Nat) /\ Cat(c, d) \in Seq(Nat)
    BY CatFacts
  <2> HIDE DEF ab
  <2> QED
    BY <2>1, CatFacts
<1>4. Whole(Cat(abc, d), dr, n)
  BY DEF Row
<1> HIDE DEF abc
<1>5. Whole(Row(a, << >>, c, d), dr \union Els(b), n)
  <2>1. Cat(abc, d) = Cat(ab, Cat(c, d))
    <3> HIDE DEF ab
    <3> QED
      BY <1>3, CatFacts DEF abc
  <2>2. Whole(Cat(a, Cat(c, d)), dr \union Els(b), n)
    BY <1>1, <1>3, <1>4, <2>1
  <2>3. Cat(a, Cat(c, d)) = Cat(Cat(a, c), d) /\ Cat(a, << >>) = a
    BY CatFacts
  <2> QED
    BY <2>2, <2>3 DEF Row
<1> HIDE DEF ab
<1>6. ASSUME c # << >>
      PROVE  Whole(Row(a, b, Tail(c), d), dr \union {Head(c)}, n)
  <2> DEFINE h == << Head(c) >>
             u == Tail(c)
  <2>1. Head(c) \in Nat /\ u \in Seq(Nat) /\ Cat(h, u) = c
    BY <1>6, CatShift
  <2>2. h \in Seq(Nat) /\ Els(h) = {Head(c)}
    BY <1>2, <2>1
  <2> HIDE DEF h, u
  <2>3. Cat(ab, Cat(h, u)) = Cat(Cat(ab, h), u) /\ Cat(ab, h) \in Seq(Nat) /\ Cat(u, d) \in Seq(Nat)
    BY <1>3, <2>1, <2>2, CatFacts
  <2>4. Cat(Cat(Cat(ab, h), u), d) = Cat(Cat(ab, h), Cat(u, d))
    BY <2>1, <2>3, CatFacts
  <2>5. Whole(Cat(Cat(ab, h), Cat(u, d)), dr, n)
    BY <1>4, <2>1, <2>3, <2>4 DEF abc
  <2>6. Whole(Cat(ab, Cat(u, d)), dr \union Els(h), n)
    BY <1>1, <1>3, <2>2, <2>3, <2>5
  <2>7. Cat(ab, Cat(u, d)) = Cat(Cat(ab, u), d)
    BY <1>3, <2>1, CatFacts
  <2> QED
    BY <2>2, <2>6, <2>7 DEF Row, ab, u
<1>7. ASSUME d # << >>
      PROVE  Whole(Row(a, b, c, Tail(d)), dr \union {Head(d)}, n)
  <2> DEFINE h == << Head(d) >>
             u == Tail(d)
  <2>1. Head(d) \in Nat /\ u \in Seq(Nat) /\ Cat(h, u) = d
    BY <1>7, CatShift
  <2>2. h \in Seq(Nat) /\ Els(h) = {Head(d)}
    BY <1>2, <2>1
  <2> HIDE DEF h, u
  <2>3. Cat(abc, Cat(h, u)) = Cat(Cat(abc, h), u)
    BY <1>3, <2>1, <2>2, CatFacts
  <2>4. Whole(Cat(Cat(abc, h), u), dr, n)
    BY <1>4, <2>1, <2>3
  <2>5. Whole(Cat(abc, u), dr \union Els(h), n)
    BY <1>1, <1>3, <2>1, <2>2, <2>4
  <2> QED
    BY <2>2, <2>5 DEF Row, abc, ab, u
<1> QED
  BY <1>5, <1>6, <1>7

-----------------------------------------------------------------------------
(* The row of the job in progress.                                         *)

\* What the player holds behind the item that is heard.
Queue(pl) == IF pl = << >> THEN << >> ELSE Tail(pl)

RowOf(sp, pl, t) == Row(sp, IndexSeq(Queue(pl)), IndexSeq(t.ready), IndexSeq(t.pending))

ChunksOf(j) == {x \in Chunk : x.job = j}

\* What waits for the player and what the player holds is of the active job; a
\* transport that may start a player holds nothing; without a job nothing
\* waits, and the player holds a replay at most.
Playable(t, tr) ==
  /\ t.ready \in Seq(ChunksOf(t.active))
  /\ tr.playlist \in Seq(ChunksOf(t.active))
  /\ CanStart(tr) => tr.playlist = << >>
  /\ t.active = NoJob => t.ready = << >> /\ tr.playlist \in {<< >>, << ReplayItem >>}

\* Heard, queued, ready, pending and dropped segments make up the text.
Ordered(sp, dr, t, tr) ==
  t.active # NoJob => Whole(RowOf(sp, tr.playlist, t), dr, t.total)

InOrder(sp, dr, t, tr) == Playable(t, tr) /\ Ordered(sp, dr, t, tr)

\* The indices of chunks.
LEMMA ChunkIndexes ==
  ASSUME NEW q \in Seq(Chunk)
  PROVE  /\ IndexSeq(q) \in Seq(Nat)
         /\ IndexSeq(q) = << >> <=> q = << >>
         /\ \A x \in Chunk : IndexSeq(Append(q, x)) = Append(IndexSeq(q), x.index)
         /\ q # << >> => /\ Head(IndexSeq(q)) = Head(q).index
                         /\ IndexSeq(Tail(q)) = Tail(IndexSeq(q))
<1>1. \A x \in Chunk : x.index \in Nat
  BY DEF Chunk
<1> QED
  BY <1>1, IndexFacts

\* The indices of segments.
LEMMA SegmentIndexes ==
  ASSUME NEW q \in Seq(Segment)
  PROVE  /\ IndexSeq(q) \in Seq(Nat)
         /\ IndexSeq(q) = << >> <=> q = << >>
         /\ q # << >> => /\ Head(IndexSeq(q)) = Head(q).index
                         /\ IndexSeq(Tail(q)) = Tail(IndexSeq(q))
<1>1. \A x \in Segment : x.index \in Nat
  BY DEF Segment
<1> QED
  BY <1>1, IndexFacts

\* The parts of the row are sequences of numbers.
LEMMA RowTypes ==
  ASSUME NEW t \in Controller, NEW tr \in Transport
  PROVE  /\ t.ready \in Seq(Chunk) /\ t.pending \in Seq(Segment)
         /\ tr.playlist \in Seq(Chunk) /\ Queue(tr.playlist) \in Seq(Chunk)
         /\ IndexSeq(Queue(tr.playlist)) \in Seq(Nat)
         /\ IndexSeq(t.ready) \in Seq(Nat) /\ IndexSeq(t.pending) \in Seq(Nat)
<1>1. t.ready \in Seq(Chunk) /\ t.pending \in Seq(Segment) /\ tr.playlist \in Seq(Chunk)
  BY DEF Controller, Transport
<1>2. Queue(tr.playlist) \in Seq(Chunk)
  BY <1>1, HeadTailProperties, EmptySeq DEF Queue
<1> QED
  BY <1>1, <1>2, ChunkIndexes, SegmentIndexes

\* A controller and a transport that agree on what the order speaks of.
LEMMA InOrderSame ==
  ASSUME NEW sp, NEW dr, NEW t, NEW tr, InOrder(sp, dr, t, tr), NEW u, NEW v,
         u.active = t.active, u.total = t.total, u.ready = t.ready, u.pending = t.pending,
         v.playlist = tr.playlist, CanStart(v) => CanStart(tr)
  PROVE  InOrder(sp, dr, u, v)
BY DEF InOrder, Playable, Ordered, RowOf

\* pump_tts_synth, set_has_pending_queue, the tick and remember_path leave the row.
LEMMA PartsInOrder ==
  ASSUME NEW sp, NEW dr, NEW t \in Controller, NEW tr \in Transport, InOrder(sp, dr, t, tr)
  PROVE  /\ \A b : InOrder(sp, dr, Pumped(t, b), tr)
         /\ \A b : InOrder(sp, dr, t, SetPendingQueue(tr, b))
         /\ InOrder(sp, dr, t, Tick(tr))
         /\ InOrder(sp, dr, t, TogglePause(tr))
<1>1. ASSUME NEW b
      PROVE  InOrder(sp, dr, Pumped(t, b), tr)
  <2>1. /\ Pumped(t, b).active = t.active /\ Pumped(t, b).total = t.total
        /\ Pumped(t, b).ready = t.ready /\ Pumped(t, b).pending = t.pending
    BY DEF Pumped, MarkSynthStarted, Controller
  <2> QED
    BY <2>1, InOrderSame
<1>2. ASSUME NEW b
      PROVE  InOrder(sp, dr, t, SetPendingQueue(tr, b))
  <2>1. /\ SetPendingQueue(tr, b).playlist = tr.playlist
        /\ CanStart(SetPendingQueue(tr, b)) => CanStart(tr)
    BY DEF SetPendingQueue, Transport, CanStart
  <2> QED
    BY <2>1, InOrderSame
<1>3. InOrder(sp, dr, t, TogglePause(tr))
  <2>1. TogglePause(tr).playlist = tr.playlist /\ (CanStart(TogglePause(tr)) => CanStart(tr))
    BY DEF TogglePause, Transport, CanStart
  <2> QED
    BY <2>1, InOrderSame
<1>4. InOrder(sp, dr, t, Tick(tr))
  <2>1. Tick(tr).playlist = tr.playlist /\ (CanStart(Tick(tr)) => Tick(tr).playlist = << >>)
    BY DEF Tick, Ended, Transport, CanStart, InOrder, Playable
  <2> QED
    BY <2>1 DEF InOrder, Playable, Ordered, RowOf
<1> QED
  BY <1>1, <1>2, <1>3, <1>4

\* on_chunk_ready of the head: the segment goes from the pending to the ready ones.
LEMMA ReadyInOrder ==
  ASSUME NEW sp \in Seq(Nat), NEW dr, NEW t \in Controller, NEW tr \in Transport,
         InOrder(sp, dr, t, tr), t.active # NoJob, NEW i \in Nat, HeadIs(t, i),
         NEW u, u.active = t.active, u.total = t.total,
         u.ready = Append(t.ready, [job |-> t.active, index |-> i]), u.pending = Made(t, i)
  PROVE  InOrder(sp, dr, u, tr)
<1> DEFINE x == [job |-> t.active, index |-> i]
           a == IndexSeq(Queue(tr.playlist))
           b == IndexSeq(t.ready)
           c == IndexSeq(t.pending)
<1>1. x \in ChunksOf(t.active) /\ x \in Chunk /\ x.index = i
  BY DEF ChunksOf, Chunk, Controller
<1>2. t.pending # << >> /\ Head(t.pending).index = i /\ u.pending = Tail(t.pending)
  BY DEF HeadIs, Made
<1>3. a \in Seq(Nat) /\ b \in Seq(Nat) /\ c \in Seq(Nat)
      /\ t.ready \in Seq(Chunk) /\ t.pending \in Seq(Segment)
  BY RowTypes
<1>4. c # << >> /\ Head(c) = i /\ IndexSeq(Tail(t.pending)) = Tail(c)
  BY <1>2, <1>3, SegmentIndexes
<1> HIDE DEF x
<1>5. IndexSeq(Append(t.ready, x)) = Append(b, i)
  BY <1>1, <1>3, ChunkIndexes
<1> HIDE DEF a, b, c
<1>6. Row(sp, a, Append(b, i), Tail(c)) = Row(sp, a, b, c)
  BY <1>3, <1>4, RowMoves
<1>7. RowOf(sp, tr.playlist, u) = RowOf(sp, tr.playlist, t)
  BY <1>2, <1>4, <1>5, <1>6 DEF RowOf, a, b, c, x
<1>8. u.ready \in Seq(ChunksOf(u.active))
  <2>1. t.ready \in Seq(ChunksOf(t.active))
    BY DEF InOrder, Playable
  <2> QED
    BY <1>1, <2>1, AppendProperties DEF x
<1> QED
  BY <1>7, <1>8 DEF InOrder, Playable, Ordered

\* on_chunk_failed of the head: it is dropped, or stays where it is.
LEMMA FailedInOrder ==
  ASSUME NEW sp \in Seq(Nat), NEW dr, NEW t \in Controller, NEW tr \in Transport,
         InOrder(sp, dr, t, tr), t.active # NoJob, NEW i \in Nat, HeadIs(t, i),
         NEW u, u.active = t.active, u.total = t.total,
         u.ready = t.ready, u.pending = Failed(t, i)
  PROVE  InOrder(sp, IF Skips(t, i) THEN dr \union {i} ELSE dr, u, tr)
<1> DEFINE a == IndexSeq(Queue(tr.playlist))
           b == IndexSeq(t.ready)
           c == IndexSeq(t.pending)
<1>1. t.pending # << >> /\ Head(t.pending).index = i /\ t.pending \in Seq(Segment)
  BY RowTypes DEF HeadIs
<1>2. a \in Seq(Nat) /\ b \in Seq(Nat) /\ c \in Seq(Nat)
  BY RowTypes
<1>3. c # << >> /\ Head(c) = i /\ IndexSeq(Tail(t.pending)) = Tail(c)
  BY <1>1, SegmentIndexes
<1>4. Playable(u, tr) /\ Whole(Row(sp, a, b, c), dr, t.total)
  BY DEF InOrder, Playable, Ordered, RowOf
<1> HIDE DEF a, b, c
<1>5. CASE Skips(t, i)
  <2>1. IndexSeq(u.pending) = Tail(c)
    BY <1>3, <1>5 DEF Failed
  <2>2. Whole(Row(sp, a, b, Tail(c)), dr \union {i}, t.total)
    BY <1>2, <1>3, <1>4, RowDrops
  <2> QED
    BY <1>4, <1>5, <2>1, <2>2 DEF InOrder, Ordered, RowOf, a, b
<1>6. CASE ~Skips(t, i)
  <2>1. u.pending = [t.pending EXCEPT ![1] = Retry(@)]
    BY <1>6 DEF Failed
  <2>2. DOMAIN t.pending = 1 .. Len(t.pending) /\ t.pending[1] \in Segment
    BY <1>1, LenProperties, EmptySeq, ElementOfSeq
  <2>3. \A s \in Segment : Retry(s).index = s.index
    BY DEF Retry, Segment
  <2>4. /\ DOMAIN u.pending = DOMAIN t.pending
        /\ \A k \in DOMAIN t.pending : u.pending[k].index = t.pending[k].index
    BY <2>1, <2>2, <2>3
  <2>5. IndexSeq(u.pending) = c
    BY <2>4 DEF IndexSeq, c
  <2> QED
    BY <1>4, <1>6, <2>5 DEF InOrder, Ordered, RowOf, a, b
<1> QED
  BY <1>5, <1>6

\* What a player of a live job loses with the items behind the one that is heard.
LEMMA LostIndices ==
  ASSUME NEW j, j # NoJob, NEW q \in Seq(ChunksOf(j))
  PROVE  Indices(q) = Els(IndexSeq(q))
<1>1. \A k \in DOMAIN q : q[k].job = j
  BY LenProperties, ElementOfSeq DEF ChunksOf
<1>2. {n \in DOMAIN q : q[n].job # NoJob} = DOMAIN q
  BY <1>1
<1>3. DOMAIN IndexSeq(q) = DOMAIN q /\ \A k \in DOMAIN q : IndexSeq(q)[k] = q[k].index
  BY DEF IndexSeq
<1> QED
  BY <1>2, <1>3 DEF Indices, Els

\* A player that starts with the next ready segment, after giving up what the
\* one before it held, or does not start and the segment is given up.
LEMMA FreshStart ==
  ASSUME NEW sp \in Seq(Nat), NEW dr, NEW t \in Controller, NEW tr \in Transport,
         InOrder(sp, dr, t, tr), t.active # NoJob, t.ready # << >>,
         NEW u, u.active = t.active, u.total = t.total,
         u.ready = Tail(t.ready), u.pending = t.pending,
         NEW lost, lost = Els(IndexSeq(Queue(tr.playlist)))
  PROVE  LET x == Head(t.ready)
         IN  /\ x \in ChunksOf(t.active) /\ x.index \in Nat
             /\ u.ready \in Seq(ChunksOf(u.active))
             /\ Whole(RowOf(Append(sp, x.index), << x >>, u), dr \union lost, t.total)
             /\ Whole(RowOf(sp, << >>, u), (dr \union lost) \union {x.index}, t.total)
<1> DEFINE x == Head(t.ready)
           a == IndexSeq(Queue(tr.playlist))
           b == IndexSeq(t.ready)
           c == IndexSeq(t.pending)
<1>1. t.ready \in Seq(ChunksOf(t.active))
  BY DEF InOrder, Playable
<1>2. x \in ChunksOf(t.active) /\ Tail(t.ready) \in Seq(ChunksOf(t.active))
  BY <1>1, HeadTailProperties
<1>3. a \in Seq(Nat) /\ b \in Seq(Nat) /\ c \in Seq(Nat) /\ t.ready \in Seq(Chunk)
  BY RowTypes
<1>4. b # << >> /\ Head(b) = x.index /\ IndexSeq(Tail(t.ready)) = Tail(b)
  BY <1>3, ChunkIndexes
<1>5. Queue(<< x >>) = << >> /\ Queue(<< >>) = << >> /\ IndexSeq(<< >>) = << >>
  BY DEF Queue, IndexSeq
<1>6. Whole(Row(sp, a, b, c), dr, t.total)
  BY DEF InOrder, Ordered, RowOf
<1>7. x.index \in Nat
  BY <1>2 DEF ChunksOf, Chunk
<1> HIDE DEF x, a, b, c
<1>8. << >> \in Seq(Nat)
  BY EmptySeq
<1>9. Whole(Row(sp, << >>, b, c), dr \union Els(a), t.total)
  BY <1>3, <1>6, RowDrops
<1>10. Row(Append(sp, Head(b)), << >>, Tail(b), c) = Row(sp, << >>, b, c)
  BY <1>3, <1>4, <1>8, RowMoves
<1>11. Whole(Row(sp, << >>, Tail(b), c), (dr \union Els(a)) \union {Head(b)}, t.total)
  BY <1>3, <1>4, <1>8, <1>9, RowDrops
<1>12. /\ RowOf(Append(sp, x.index), << x >>, u) = Row(Append(sp, Head(b)), << >>, Tail(b), c)
       /\ RowOf(sp, << >>, u) = Row(sp, << >>, Tail(b), c)
  BY <1>4, <1>5 DEF RowOf, c
<1>13. lost = Els(a)
  BY DEF a
<1>14. Whole(RowOf(Append(sp, x.index), << x >>, u), dr \union lost, t.total)
  BY <1>9, <1>10, <1>12, <1>13
<1>15. Whole(RowOf(sp, << >>, u), (dr \union lost) \union {x.index}, t.total)
  BY <1>4, <1>11, <1>12, <1>13
<1>16. u.ready \in Seq(ChunksOf(u.active))
  BY <1>2
<1> QED
  BY <1>2, <1>7, <1>14, <1>15, <1>16 DEF x

\* The next ready segment is given up while the player keeps what it holds.
LEMMA GivenUpInOrder ==
  ASSUME NEW sp \in Seq(Nat), NEW dr, NEW t \in Controller, NEW tr \in Transport,
         InOrder(sp, dr, t, tr), t.active # NoJob, t.ready # << >>,
         NEW u, u.active = t.active, u.total = t.total,
         u.ready = Tail(t.ready), u.pending = t.pending
  PROVE  /\ Head(t.ready).index \in Nat
         /\ InOrder(sp, dr \union {Head(t.ready).index}, u, tr)
<1> DEFINE x == Head(t.ready)
           a == IndexSeq(Queue(tr.playlist))
           b == IndexSeq(t.ready)
           c == IndexSeq(t.pending)
<1>1. x \in ChunksOf(t.active) /\ Tail(t.ready) \in Seq(ChunksOf(t.active))
  BY HeadTailProperties DEF InOrder, Playable
<1>2. a \in Seq(Nat) /\ b \in Seq(Nat) /\ c \in Seq(Nat) /\ t.ready \in Seq(Chunk)
  BY RowTypes
<1>3. b # << >> /\ Head(b) = x.index /\ IndexSeq(Tail(t.ready)) = Tail(b)
  BY <1>2, ChunkIndexes
<1>4. Whole(Row(sp, a, b, c), dr, t.total)
  BY DEF InOrder, Ordered, RowOf
<1>5. x.index \in Nat
  BY <1>1 DEF ChunksOf, Chunk
<1> HIDE DEF x, a, b, c
<1>6. Whole(Row(sp, a, Tail(b), c), dr \union {Head(b)}, t.total)
  BY <1>2, <1>3, <1>4, RowDrops
<1>7. RowOf(sp, tr.playlist, u) = Row(sp, a, Tail(b), c)
  BY <1>3 DEF RowOf, a, c
<1>8. Ordered(sp, dr \union {x.index}, u, tr)
  BY <1>3, <1>6, <1>7 DEF Ordered
<1>9. Playable(u, tr)
  BY <1>1 DEF InOrder, Playable
<1> QED
  BY <1>5, <1>8, <1>9 DEF InOrder, x

\* The next ready segment goes to the playlist of the player that runs.
LEMMA QueuedInOrder ==
  ASSUME NEW sp \in Seq(Nat), NEW dr, NEW t \in Controller, NEW tr \in Transport,
         InOrder(sp, dr, t, tr), t.active # NoJob, t.ready # << >>, CanAppend(tr),
         NEW u, u.active = t.active, u.total = t.total,
         u.ready = Tail(t.ready), u.pending = t.pending,
         NEW v, v.playlist = Append(tr.playlist, Head(t.ready)), ~CanStart(v)
  PROVE  InOrder(sp, dr, u, v)
<1> DEFINE x == Head(t.ready)
           q == Tail(tr.playlist)
           a == IndexSeq(q)
           b == IndexSeq(t.ready)
           c == IndexSeq(t.pending)
<1>1. tr.playlist # << >> /\ t.ready \in Seq(ChunksOf(t.active))
      /\ tr.playlist \in Seq(ChunksOf(t.active))
  BY DEF InOrder, Playable, CanAppend
<1>2. x \in ChunksOf(t.active) /\ Tail(t.ready) \in Seq(ChunksOf(t.active))
  BY <1>1, HeadTailProperties
<1>3. b \in Seq(Nat) /\ c \in Seq(Nat) /\ t.ready \in Seq(Chunk) /\ tr.playlist \in Seq(Chunk)
  BY RowTypes
<1>4. b # << >> /\ Head(b) = x.index /\ IndexSeq(Tail(t.ready)) = Tail(b)
  BY <1>3, ChunkIndexes
<1>5. x \in Chunk /\ q \in Seq(Chunk) /\ Queue(tr.playlist) = q
  <2>1. q \in Seq(Chunk)
    BY <1>1, <1>3, HeadTailProperties
  <2> QED
    BY <1>1, <1>2, <2>1 DEF ChunksOf, Queue
<1>6. a \in Seq(Nat) /\ IndexSeq(Append(q, x)) = Append(a, x.index)
  BY <1>5, ChunkIndexes
<1>7. Append(tr.playlist, x) # << >> /\ Queue(Append(tr.playlist, x)) = Append(q, x)
  <2>1. Append(tr.playlist, x) # << >> /\ Tail(Append(tr.playlist, x)) = Append(q, x)
    <3>1. Append(tr.playlist, x) # << >>
      <4>1. \A s \in Seq(Chunk), y \in Chunk : Append(s, y) # << >>
        BY AppendProperties
      <4> HIDE DEF x
      <4> QED
        BY <1>3, <1>5, <4>1
    <3>2. Tail(Append(tr.playlist, x)) = IF tr.playlist = << >> THEN << >> ELSE Append(q, x)
      BY <1>3, <1>5, HeadTailAppend, Zenon
    <3> QED
      BY <1>1, <3>1, <3>2, Zenon
  <2> QED
    BY <2>1 DEF Queue
<1>8. Append(tr.playlist, x) \in Seq(ChunksOf(t.active))
  BY <1>1, <1>2, AppendProperties
<1>9. Whole(Row(sp, a, b, c), dr, t.total)
  BY <1>5 DEF InOrder, Ordered, RowOf
<1>10. v.playlist = Append(tr.playlist, x)
  OBVIOUS
<1> HIDE DEF x, q, a, b, c
<1>11. Row(sp, Append(a, Head(b)), Tail(b), c) = Row(sp, a, b, c)
  BY <1>3, <1>4, <1>6, RowMoves
<1>12. RowOf(sp, v.playlist, u) = Row(sp, a, b, c)
  BY <1>4, <1>6, <1>7, <1>10, <1>11 DEF RowOf, c
<1> QED
  BY <1>2, <1>8, <1>9, <1>10, <1>12 DEF InOrder, Playable, Ordered

\* A row that begins with its first part, one that has no other part and one
\* that has only the last.
LEMMA RowEnds ==
  ASSUME NEW a \in Seq(Nat), NEW b \in Seq(Nat), NEW c \in Seq(Nat), NEW d \in Seq(Nat)
  PROVE  /\ \E r \in Seq(Nat) : Row(a, b, c, d) = Cat(a, r)
         /\ Row(a, << >>, << >>, << >>) = a
         /\ Row(<< >>, << >>, << >>, d) = d
<1> DEFINE bc == Cat(b, c)
<1>1. bc \in Seq(Nat) /\ Cat(a, b) \in Seq(Nat)
  BY CatFacts
<1>2. Cat(Cat(a, b), c) = Cat(a, bc)
  BY CatFacts
<1> HIDE DEF bc
<1>3. Cat(bc, d) \in Seq(Nat) /\ Cat(Cat(a, bc), d) = Cat(a, Cat(bc, d))
  BY <1>1, CatFacts
<1>4. Row(a, b, c, d) = Cat(a, Cat(bc, d))
  BY <1>2, <1>3 DEF Row
<1>5. Row(a, << >>, << >>, << >>) = a
  BY CatFacts DEF Row
<1>6. Row(<< >>, << >>, << >>, d) = d
  <2>1. Cat(<< >>, << >>) = << >>
    BY CatFacts, EmptySeq
  <2>2. Cat(<< >>, d) = d
    BY ConcatEmptySeq DEF Cat
  <2> QED
    BY <2>1, <2>2 DEF Row
<1> QED
  BY <1>3, <1>4, <1>5, <1>6

-----------------------------------------------------------------------------
(* What a step does to the speech of a job.                                *)

\* The history sp, dr of the controller t becomes sp2, dr2 of the controller u:
\* nothing happens; or the job goes on and what is heard still begins a whole
\* row; or it ends with all its segments heard or dropped.
Goes(sp, dr, t, sp2, dr2, u) ==
  /\ u.jobId = t.jobId
  /\ \/ sp2 = sp /\ dr2 = dr /\ u.active = t.active /\ u.total = t.total
     \/ /\ t.active # NoJob /\ dr \subseteq dr2
        /\ sp2 = sp \/ \E i \in Nat : sp2 = Append(sp, i)
        /\ \/ /\ u.active = t.active /\ u.total = t.total
              /\ \E r \in Seq(Nat) : Whole(Cat(sp2, r), dr2, t.total)
           \/ u.active = NoJob /\ u.total = 0 /\ Whole(sp2, dr2, t.total)

\* A job is cancelled, and a new one takes its place or not.
Restarts(sp2, dr2, t, u) ==
  /\ u.jobId > t.jobId
  /\ sp2 = << >> /\ dr2 = {}
  /\ \/ u.active = NoJob /\ u.total = 0
     \/ u.active = u.jobId /\ u.total \in Nat \ {0}

Proceeds ==
  \/ Goes(spoken, dropped, tts, spoken', dropped', tts')
  \/ Restarts(spoken', dropped', tts, tts')

OrderNow == InOrder(spoken, dropped, tts, transport)

\* A step that leaves an ordered row of the same job lets the job go on, also
\* when finalize_tts_job_if_done ends it.
LEMMA OrderedGoes ==
  ASSUME NEW sp, NEW dr, NEW s \in Controller,
         NEW sp2 \in Seq(Nat), NEW dr2, NEW t \in Controller, NEW tr \in Transport,
         InOrder(sp2, dr2, t, tr),
         t.jobId = s.jobId, t.active = s.active, t.total = s.total,
         \/ sp2 = sp /\ dr2 = dr
         \/ /\ s.active # NoJob /\ dr \subseteq dr2
            /\ sp2 = sp \/ \E i \in Nat : sp2 = Append(sp, i),
         (tts' = t /\ transport' = tr) \/ FinalizeIfDone(t, tr)
  PROVE  InOrder(sp2, dr2, tts', transport') /\ Goes(sp, dr, s, sp2, dr2, tts')
<1> DEFINE a == IndexSeq(Queue(tr.playlist))
           b == IndexSeq(t.ready)
           c == IndexSeq(t.pending)
<1>1. a \in Seq(Nat) /\ b \in Seq(Nat) /\ c \in Seq(Nat)
  BY RowTypes
<1>2. t.active # NoJob => Whole(Row(sp2, a, b, c), dr2, t.total)
  BY DEF InOrder, Ordered, RowOf
<1>3. CASE tts' = t /\ transport' = tr
  <2>1. t.active # NoJob => \E r \in Seq(Nat) : Whole(Cat(sp2, r), dr2, t.total)
    <3> HIDE DEF a, b, c
    <3> QED
      BY <1>1, <1>2, RowEnds
  <2> QED
    BY <1>3, <2>1 DEF Goes
<1>4. CASE FinalizeIfDone(t, tr) /\ t.active # NoJob /\ ~HasWork(t) /\ tr.status = "idle"
  <2>1. /\ t.pending = << >> /\ t.ready = << >> /\ tr.playlist = << >>
        /\ tts' = EndJob(t) /\ transport' \in {tr, RememberPath(tr)}
    BY <1>4 DEF FinalizeIfDone, HasWork, InOrder, Playable, CanStart
  <2>2. a = << >> /\ b = << >> /\ c = << >>
    BY <2>1 DEF Queue, IndexSeq
  <2>3. Whole(sp2, dr2, t.total)
    <3> HIDE DEF a, b, c
    <3> QED
      BY <1>1, <1>2, <1>4, <2>2, RowEnds
  <2>4. /\ tts'.jobId = t.jobId /\ tts'.active = NoJob /\ tts'.total = 0
        /\ tts'.ready = << >> /\ transport'.playlist = << >>
    BY <2>1 DEF EndJob, RememberPath, Controller, Transport
  <2>5. InOrder(sp2, dr2, tts', transport')
    BY <2>4, EmptySeq DEF InOrder, Playable, Ordered
  <2>6. dr \subseteq dr2 /\ (sp2 = sp \/ \E i \in Nat : sp2 = Append(sp, i))
    OBVIOUS
  <2> QED
    BY <1>4, <2>3, <2>4, <2>5, <2>6 DEF Goes
<1> QED
  BY <1>3, <1>4 DEF FinalizeIfDone

\* A stopped controller and transport hold nothing.
LEMMA StoppedInOrder ==
  ASSUME NEW sp, NEW dr, NEW t, NEW tr,
         t.active = NoJob, t.ready = << >>, tr.playlist = << >>
  PROVE  InOrder(sp, dr, t, tr)
BY EmptySeq DEF InOrder, Playable, Ordered

\* A new job: its segments are pending, in the order of the text.
LEMMA BeginInOrder ==
  ASSUME NEW t, NEW tr, NEW n \in Nat
  PROVE  InOrder(<< >>, {}, BeginJob(t, n), Stop(tr))
<1> DEFINE u == BeginJob(t, n)
           v == Stop(tr)
           c == IndexSeq(SegmentsOf(n))
<1>1. u.ready = << >> /\ u.pending = SegmentsOf(n) /\ u.total = n /\ v.playlist = << >>
  BY DEF BeginJob, Stop
<1>2. c = [k \in 1 .. n |-> k - 1]
  BY DEF IndexSeq, SegmentsOf
<1>3. c \in Seq(Nat)
  BY <1>2
<1>4. Whole(c, {}, n)
  <2>1. DOMAIN c = 1 .. n /\ \A k \in 1 .. n : c[k] = k - 1
    BY <1>2
  <2> HIDE DEF c
  <2>2. Els(c) = 0 .. n - 1
    <3>1. \A k \in 1 .. n : c[k] \in 0 .. n - 1
      BY <2>1
    <3>2. \A i \in 0 .. n - 1 : i + 1 \in 1 .. n /\ c[i + 1] = i
      BY <2>1
    <3> QED
      BY <2>1, <3>1, <3>2 DEF Els
  <2> QED
    BY <2>1, <2>2 DEF Whole, Up
<1> HIDE DEF c
<1>5. Row(<< >>, << >>, << >>, c) = c
  BY <1>3, EmptySeq, RowEnds
<1> HIDE DEF u, v
<1>6. RowOf(<< >>, v.playlist, u) = c
  <2>1. IndexSeq(u.pending) = c /\ IndexSeq(u.ready) = << >> /\ IndexSeq(Queue(v.playlist)) = << >>
    BY <1>1 DEF c, Queue, IndexSeq
  <2> QED
    BY <1>5, <2>1 DEF RowOf
<1>7. InOrder(<< >>, {}, u, v)
  BY <1>1, <1>4, <1>6, EmptySeq DEF InOrder, Playable, Ordered
<1> QED
  BY <1>7 DEF u, v

-----------------------------------------------------------------------------
(* The steps.                                                              *)

\* A step that touches neither the controller, the transport nor the history.
LEMMA SameOrder ==
  ASSUME OrderNow, UNCHANGED << tts, transport, spoken, dropped >>
  PROVE  OrderNow' /\ Proceeds
BY DEF OrderNow, Proceeds, Goes

\* A cancelled controller.
LEMMA CancelFields ==
  ASSUME NEW t \in Controller
  PROVE  /\ Cancel(t).jobId > t.jobId /\ Cancel(t).active = NoJob /\ Cancel(t).total = 0
         /\ Cancel(t).ready = << >>
BY DEF Cancel, Controller

\* A cancel and a stop, with the files kept or deleted.
LEMMA CancelOrder ==
  ASSUME TypeOK, ForgetSpeech,
         \/ CleanupChunkTemps(Cancel(tts), Stop(transport))
         \/ DiscardAllAudio
  PROVE  OrderNow' /\ Proceeds
<1>1. tts \in Controller /\ transport \in Transport
  BY DEF TypeOK
<1> DEFINE t == Cancel(tts)
           tr == Stop(transport)
<1>2. t \in Controller /\ tr \in Transport /\ tr.playlist = << >>
  <2>1. tr.playlist = << >>
    BY <1>1 DEF Stop, Transport
  <2> QED
    BY <1>1, <2>1, CancelType, TransportTypes
<1>3. t.jobId > tts.jobId /\ t.active = NoJob /\ t.total = 0 /\ t.ready = << >>
  BY <1>1, CancelFields
<1>4. /\ \E n : tts' = [t EXCEPT !.chunkPaths = n]
      /\ transport' \in {tr, RememberPath(tr), ClearLastPath(tr)}
  BY DEF CleanupChunkTemps, DiscardAllAudio
<1> HIDE DEF t, tr
<1>5. /\ tts'.jobId > tts.jobId /\ tts'.active = NoJob /\ tts'.total = 0 /\ tts'.ready = << >>
      /\ transport'.playlist = << >>
  BY <1>2, <1>3, <1>4 DEF Controller, Transport, RememberPath, ClearLastPath
<1>6. spoken' = << >> /\ dropped' = {}
  BY DEF ForgetSpeech
<1> QED
  BY <1>5, <1>6, StoppedInOrder DEF OrderNow, Proceeds, Restarts

\* start_speak_job, whether it starts the job or waits.
LEMMA StartOrder ==
  ASSUME TypeOK, NEW s, s.segs \in Nat \ {0}, NEW rest,
         NEW loaded \in BOOLEAN, NEW loading, StartSpeakJob(s, rest, loaded, loading)
  PROVE  OrderNow' /\ Proceeds
<1>1. tts \in Controller /\ transport \in Transport
  BY DEF TypeOK
<1>2. CASE tts.inFlight
  BY <1>2, CancelOrder DEF StartSpeakJob
<1>3. CASE ~tts.inFlight
  <2> DEFINE t  == BeginJob(Cancel(tts), s.segs)
             tr == Stop(transport)
             b  == s.segs > 1
  <2>1. /\ transport' = SetPendingQueue(tr, b) /\ tts' = Pumped(t, loaded)
        /\ spoken' = << >> /\ dropped' = {}
    BY <1>3 DEF StartSpeakJob, PumpTtsSynth
  <2>2. t \in Controller /\ tr \in Transport /\ SetPendingQueue(tr, b) \in Transport
    <3>1. t \in Controller
      <4>1. Cancel(tts) \in Controller /\ s.segs \in Nat
        BY <1>1, CancelType
      <4> QED
        BY <4>1, BeginJobType
    <3>2. tr \in Transport /\ b \in BOOLEAN
      BY <1>1, TransportTypes
    <3> HIDE DEF tr, b
    <3>3. SetPendingQueue(tr, b) \in Transport
      BY <3>2, TransportTypes
    <3> QED
      BY <3>1, <3>2, <3>3
  <2>3. t.jobId > tts.jobId /\ t.active = t.jobId /\ t.total = s.segs
    BY <1>1 DEF BeginJob, Cancel, Controller
  <2>4. InOrder(<< >>, {}, t, tr)
    BY BeginInOrder
  <2> HIDE DEF t, tr, b
  <2>5. InOrder(<< >>, {}, tts', transport')
    BY <2>1, <2>2, <2>4, PartsInOrder
  <2>6. tts'.jobId = t.jobId /\ tts'.active = t.active /\ tts'.total = t.total
    BY <2>1, <2>2 DEF Pumped, MarkSynthStarted, Controller
  <2> QED
    BY <2>1, <2>3, <2>5, <2>6 DEF OrderNow, Proceeds, Restarts
<1> QED
  BY <1>2, <1>3

\* The user's commands.
LEMMA UserOrder ==
  ASSUME TypeOK, OrderNow, User
  PROVE  OrderNow' /\ Proceeds
<1>1. tts \in Controller /\ transport \in Transport /\ ttsLoaded \in BOOLEAN
  BY DEF TypeOK
<1>2. CASE \E n \in SegmentCounts : Speak(n)
  <2>1. PICK n \in SegmentCounts : Speak(n)
    BY <1>2
  <2> DEFINE s == [req |-> requests', segs |-> n]
  <2>2. s.segs \in Nat \ {0}
    BY <2>1, PipelineAssumption
  <2>3. \/ UNCHANGED << tts, transport, spoken, dropped >>
        \/ StartSpeakJob(s, pendingSpeak, ttsLoaded, ttsLoading)
    BY <2>1 DEF Speak, speechVars
  <2> HIDE DEF s
  <2> QED
    BY <1>1, <2>2, <2>3, SameOrder, StartOrder
<1>3. CASE StopSpeech
  BY <1>3, CancelOrder DEF StopSpeech
<1>4. CASE UnloadVoice \/ UnloadAll
  BY <1>4, CancelOrder DEF UnloadVoice, UnloadAll, DiscardAllAudio
<1>5. CASE LoadVoice \/ LoadDictation
  BY <1>5, SameOrder DEF LoadVoice, LoadDictation, speechVars
<1>6. CASE Replay
  <2>1. transport' = transport \/ \E o : transport' = PlayFile(transport, ReplayItem, o)
    BY <1>6 DEF Replay
  <2>2. tts.active = NoJob /\ UNCHANGED << tts, spoken, dropped >>
    BY <1>6 DEF Replay, TtsBusy, speechVars
  <2>3. transport'.playlist \in {<< >>, << ReplayItem >>}
        /\ (CanStart(transport') => transport'.playlist = << >>)
    <3>1. transport.playlist \in {<< >>, << ReplayItem >>}
          /\ (CanStart(transport) => transport.playlist = << >>)
      BY <2>2 DEF OrderNow, InOrder, Playable
    <3>2. ASSUME NEW o, transport' = PlayFile(transport, ReplayItem, o)
          PROVE  transport'.playlist \in {<< >>, << ReplayItem >>}
                 /\ (CanStart(transport') => transport'.playlist = << >>)
      BY <3>2 DEF PlayFile, CanStart
    <3> QED
      BY <2>1, <3>1, <3>2
  <2>4. << >> \in Seq(ChunksOf(NoJob)) /\ << ReplayItem >> \in Seq(ChunksOf(NoJob))
    <3>1. ReplayItem \in ChunksOf(NoJob)
      BY DEF ReplayItem, ChunksOf, Chunk, NoJob
    <3> QED
      BY <3>1
  <2>5. tts.ready \in Seq(ChunksOf(NoJob)) /\ tts.ready = << >>
    BY <2>2 DEF OrderNow, InOrder, Playable
  <2>6. OrderNow'
    BY <2>2, <2>3, <2>4, <2>5 DEF OrderNow, InOrder, Playable, Ordered
  <2> QED
    BY <2>2, <2>6 DEF Proceeds, Goes
<1>7. CASE PauseResume
  <2>1. transport' = TogglePause(transport) /\ UNCHANGED << tts, spoken, dropped >>
    BY <1>7 DEF PauseResume, speechVars
  <2>2. OrderNow'
    BY <1>1, <2>1, PartsInOrder DEF OrderNow
  <2> QED
    BY <2>1, <2>2 DEF Proceeds, Goes
<1> QED
  BY <1>2, <1>3, <1>4, <1>5, <1>6, <1>7 DEF User

\* pump_tts_synth leaves the job what it is.
LEMMA PumpedFields ==
  ASSUME NEW t \in Controller, NEW b \in BOOLEAN
  PROVE  /\ Pumped(t, b) \in Controller
         /\ Pumped(t, b).jobId = t.jobId /\ Pumped(t, b).active = t.active
         /\ Pumped(t, b).total = t.total
<1>1. Pumped(t, b) \in Controller
  BY MarkSynthStartedType DEF Pumped
<1> QED
  BY <1>1 DEF Pumped, MarkSynthStarted, Controller

\* The messages of the job thread.
LEMMA HandleMsgOrder ==
  ASSUME TypeOK, SoundNow, IndexNow, TextWaits, OrderNow, HandleMsg
  PROVE  OrderNow' /\ Proceeds
<1>1. /\ tts \in Controller /\ transport \in Transport /\ ttsLoaded \in BOOLEAN
      /\ spoken \in Seq(Nat) /\ InOrder(spoken, dropped, tts, transport)
  BY DEF TypeOK, OrderNow
<1>2. Head(msgs) \in Msg /\ pendingSpeak \in [req : Nat, segs : Nat]
  BY HeadTailProperties
     DEF HandleMsg, OnModelStatus, OnTtsLoaded, OnWorkerTimedOut, OnChunkReadyMsg,
         OnChunkFailedMsg, Receive, TypeOK
<1>3. CASE OnModelStatus \/ OnWorkerTimedOut
  BY <1>3, SameOrder DEF OnModelStatus, OnWorkerTimedOut, speechVars
<1>4. CASE OnTtsLoaded
  <2>1. CASE pendingSpeak # NoSpeak /\ StartSpeakJob(pendingSpeak, NoSpeak, TRUE, FALSE)
    <3>1. pendingSpeak.segs \in Nat \ {0}
      BY <1>2, <2>1 DEF TextWaits
    <3> QED
      BY <2>1, <3>1, StartOrder
  <2>2. CASE PumpTtsSynth(tts, cmds, TRUE) /\ UNCHANGED << transport, speechVars >>
    <3>1. tts' = Pumped(tts, TRUE) /\ UNCHANGED << transport, spoken, dropped >>
      BY <2>2 DEF PumpTtsSynth, speechVars
    <3>2. OrderNow'
      BY <1>1, <3>1, PartsInOrder DEF OrderNow
    <3> QED
      BY <1>1, <3>1, <3>2, PumpedFields DEF Proceeds, Goes
  <2>3. CASE UNCHANGED << tts, transport, speechVars >>
    BY <2>3, SameOrder DEF speechVars
  <2> QED
    BY <1>4, <2>1, <2>2, <2>3 DEF OnTtsLoaded
<1>5. CASE OnChunkReadyMsg
  <2> DEFINE h  == Head(msgs)
             t  == OnChunkReady(tts, h.job, h.index)
             tr == SetPendingQueue(transport, TRUE)
  <2>1. CASE ~Live(tts, h.job)
    BY <1>5, <2>1, SameOrder DEF OnChunkReadyMsg, speechVars
  <2>2. CASE Live(tts, h.job)
    <3>1. Receive("TtsChunkReady") /\ UNCHANGED << spoken, dropped >>
      BY <1>5 DEF OnChunkReadyMsg, speechVars
    <3>2. transport' = tr /\ (tts' = t \/ tts' = Pumped(t, ttsLoaded))
      BY <1>5, <2>2 DEF OnChunkReadyMsg, PumpTtsSynth
    <3>3. /\ t \in Controller /\ t.active = tts.active /\ t.jobId = tts.jobId
          /\ t.total = tts.total /\ ~t.inFlight
          /\ t.ready = Append(tts.ready, [job |-> h.job, index |-> h.index])
          /\ t.pending = Made(tts, h.index)
          /\ Len(t.ready) <= Len(tts.ready) + 1
      BY <1>2, ReadyFields
    <3>4. tts.active # NoJob /\ h.job = tts.active /\ h.index \in Nat
      BY <1>2, <2>2 DEF Live, Msg
    <3> HIDE DEF t
    <3>5. HeadIs(tts, h.index)
      BY <2>2, <3>1, <3>3, AnswerTaken
    <3>6. InOrder(spoken, dropped, t, transport)
      BY <1>1, <3>3, <3>4, <3>5, ReadyInOrder
    <3>7. tr \in Transport
      BY <1>1, TransportTypes
    <3>8. InOrder(spoken, dropped, t, tr)
      BY <1>1, <3>3, <3>6, PartsInOrder
    <3> HIDE DEF h, tr
    <3>9. InOrder(spoken, dropped, Pumped(t, ttsLoaded), tr)
      BY <3>3, <3>7, <3>8, PartsInOrder
    <3>10. /\ Pumped(t, ttsLoaded).jobId = t.jobId /\ Pumped(t, ttsLoaded).active = t.active
           /\ Pumped(t, ttsLoaded).total = t.total
      BY <1>1, <3>3, PumpedFields
    <3> QED
      BY <3>1, <3>2, <3>3, <3>8, <3>9, <3>10 DEF OrderNow, Proceeds, Goes
  <2> QED
    BY <2>1, <2>2
<1>6. CASE OnChunkFailedMsg
  <2> DEFINE h  == Head(msgs)
             t  == OnChunkFailed(tts, h.index)
             u  == Pumped(t, ttsLoaded)
             tr == SetPendingQueue(transport, FALSE)
             dr == IF Skips(tts, h.index) THEN dropped \union {h.index} ELSE dropped
  <2>1. CASE ~Live(tts, h.job)
    BY <1>6, <2>1, SameOrder DEF OnChunkFailedMsg
  <2>2. CASE Live(tts, h.job)
    <3>1. Receive("TtsChunkFailed") /\ spoken' = spoken
      BY <1>6 DEF OnChunkFailedMsg
    <3>2. /\ dropped' = dr
          /\ (tts' = u /\ transport' = transport) \/ FinalizeIfDone(u, tr)
      BY <1>6, <2>2 DEF OnChunkFailedMsg
    <3>3. /\ t \in Controller /\ t.active = tts.active /\ t.jobId = tts.jobId
          /\ t.total = tts.total /\ ~t.inFlight /\ t.ready = tts.ready
          /\ t.pending = Failed(tts, h.index)
          /\ Len(t.ready) <= Len(tts.ready) + 1
      BY <1>2, FailedFields
    <3>4. tts.active # NoJob /\ h.index \in Nat
      BY <1>2, <2>2 DEF Live, Msg
    <3> HIDE DEF t
    <3>5. HeadIs(tts, h.index)
      BY <2>2, <3>1, <3>3, AnswerTaken
    <3>6. InOrder(spoken, dr, t, transport)
      BY <1>1, <3>3, <3>4, <3>5, FailedInOrder
    <3>7. dropped \subseteq dr
      OBVIOUS
    <3> HIDE DEF h, dr
    <3>8. InOrder(spoken, dr, u, transport)
      BY <1>1, <3>3, <3>6, PartsInOrder
    <3>9. /\ u \in Controller /\ u.jobId = tts.jobId /\ u.active = tts.active
          /\ u.total = tts.total
      BY <1>1, <3>3, PumpedFields
    <3> HIDE DEF u
    <3>10. InOrder(spoken, dr, u, tr) /\ tr \in Transport
      BY <1>1, <3>8, <3>9, PartsInOrder, TransportTypes
    <3> HIDE DEF tr
    <3>11. InOrder(spoken, dr, tts', transport') /\ Goes(spoken, dropped, tts, spoken, dr, tts')
      <4>1. CASE tts' = u /\ transport' = transport
        BY <1>1, <3>4, <3>7, <3>8, <3>9, <4>1, OrderedGoes
      <4>2. CASE FinalizeIfDone(u, tr)
        BY <1>1, <3>4, <3>7, <3>9, <3>10, <4>2, OrderedGoes
      <4> QED
        BY <3>2, <4>1, <4>2
    <3> QED
      BY <3>1, <3>2, <3>11 DEF OrderNow, Proceeds
  <2> QED
    BY <2>1, <2>2
<1> QED
  BY <1>3, <1>4, <1>5, <1>6 DEF HandleMsg

\* One iteration of the hand-over loop.
LEMMA HandOverNextOrder ==
  ASSUME TypeOK, OrderNow, NEW appends \in BOOLEAN, NEW o \in StartOutcome,
         HandOverNext(appends, o)
  PROVE  OrderNow' /\ Proceeds
<1> DEFINE x    == Head(tts.ready)
           t    == PopReady(tts)
           tr   == SetPendingQueue(transport, HasWork(t))
           next == EnqueueOrPlay(tr, x, appends, o)
           failed == Fails(tr, appends, o)
           lost == IF CanAppend(tr) /\ ~appends THEN Indices(Tail(tr.playlist)) ELSE {}
<1>1. /\ tts \in Controller /\ transport \in Transport /\ ttsLoaded \in BOOLEAN
      /\ spoken \in Seq(Nat) /\ InOrder(spoken, dropped, tts, transport)
      /\ tts.ready # << >> /\ CanHandOver(transport)
  BY DEF TypeOK, OrderNow, HandOverNext
<1>2. /\ t \in Controller /\ t.jobId = tts.jobId /\ t.active = tts.active
      /\ t.total = tts.total /\ t.ready = Tail(tts.ready) /\ t.pending = tts.pending
      /\ x \in Chunk
  <2>1. t \in Controller /\ x \in Chunk
    BY <1>1, PopReadyType
  <2> QED
    BY <1>1, <2>1 DEF PopReady, Controller
<1>3. tr \in Transport /\ InOrder(spoken, dropped, tts, tr)
  <2>1. HasWork(t) \in BOOLEAN
    BY DEF HasWork
  <2> HIDE DEF t
  <2> QED
    BY <1>1, <2>1, TransportTypes, PartsInOrder
<1>4. CanAppend(tr) \/ tr.playlist = << >>
  BY <1>1 DEF SetPendingQueue, Transport, CanHandOver, CanAppend, InOrder, Playable
<1>5. tts.active # NoJob
  BY <1>1 DEF InOrder, Playable
<1>6. /\ spoken' = IF failed \/ Appends(tr, appends, o) THEN spoken
                   ELSE Append(spoken, x.index)
      /\ dropped' = dropped \union lost \union (IF failed THEN {x.index} ELSE {})
      /\ \/ ~failed /\ tts' = t /\ transport' = next
         \/ /\ failed
            /\ \/ transport' = next /\ (tts' = t \/ tts' = Pumped(t, ttsLoaded))
               \/ FinalizeIfDone(t, next)
  BY DEF HandOverNext, PumpTtsSynth
<1>7. next \in Transport
  <2> HIDE DEF x, tr
  <2> QED
    BY <1>2, <1>3, EnqueueOrPlayType
<1>8. ~(CanAppend(tr) /\ appends) => lost = Els(IndexSeq(Queue(tr.playlist)))
  <2>1. CASE CanAppend(tr) /\ ~appends
    <3>1. tr.playlist # << >> /\ tr.playlist \in Seq(ChunksOf(tts.active))
      BY <1>3, <2>1 DEF CanAppend, InOrder, Playable
    <3>2. Tail(tr.playlist) \in Seq(ChunksOf(tts.active))
      BY <3>1, HeadTailProperties
    <3>3. Indices(Tail(tr.playlist)) = Els(IndexSeq(Tail(tr.playlist)))
      BY <1>5, <3>2, LostIndices
    <3> QED
      BY <2>1, <3>1, <3>3 DEF Queue
  <2>2. CASE ~CanAppend(tr)
    <3>1. Queue(tr.playlist) = << >>
      BY <1>4, <2>2 DEF Queue
    <3>2. IndexSeq(<< >>) = << >>
      BY DEF IndexSeq
    <3>3. Els(<< >>) = {}
      <4>1. DOMAIN << >> = {}
        OBVIOUS
      <4> QED
        BY <4>1 DEF Els
    <3> QED
      BY <2>2, <3>1, <3>2, <3>3
  <2> QED
    BY <2>1, <2>2
<1>9. /\ Appends(tr, appends, o) =>
           /\ ~failed /\ lost = {} /\ CanAppend(tr)
           /\ next.playlist = Append(tr.playlist, x) /\ ~CanStart(next)
      /\ ~Appends(tr, appends, o) /\ Started(o) =>
           /\ ~failed /\ ~(CanAppend(tr) /\ appends)
           /\ next.playlist = << x >> /\ ~CanStart(next)
      /\ ~Started(o) /\ CanAppend(tr) /\ appends =>
           Appends(tr, appends, o) \/ (failed /\ lost = {} /\ next = tr)
      /\ ~Started(o) /\ ~(CanAppend(tr) /\ appends) => failed /\ next.playlist = << >>
  <2> HIDE DEF x, tr
  <2> QED
    BY <1>3, <1>4 DEF EnqueueOrPlay, PlayFile, Appends, Fails, Started, CanStart, Transport
<1> HIDE DEF x, t, tr, next, failed, lost
<1>10. CASE Appends(tr, appends, o)
  <2>1. /\ spoken' = spoken /\ dropped' = dropped /\ tts' = t /\ transport' = next
        /\ next.playlist = Append(tr.playlist, x) /\ ~CanStart(next)
    BY <1>6, <1>9, <1>10
  <2>2. InOrder(spoken, dropped, t, next)
    BY <1>1, <1>2, <1>3, <1>5, <1>9, <1>10, <2>1, QueuedInOrder DEF x
  <2> QED
    BY <1>2, <2>1, <2>2 DEF OrderNow, Proceeds, Goes
<1>11. CASE ~Appends(tr, appends, o) /\ Started(o)
  <2>1. /\ spoken' = Append(spoken, x.index) /\ dropped' = dropped \union lost
        /\ tts' = t /\ transport' = next /\ next.playlist = << x >> /\ ~CanStart(next)
    BY <1>6, <1>9, <1>11
  <2>2. /\ x \in ChunksOf(tts.active) /\ x.index \in Nat /\ t.ready \in Seq(ChunksOf(t.active))
        /\ Whole(RowOf(Append(spoken, x.index), << x >>, t), dropped \union lost, tts.total)
    BY <1>1, <1>2, <1>3, <1>5, <1>8, <1>9, <1>11, FreshStart DEF x
  <2>3. << x >> \in Seq(ChunksOf(tts.active))
    BY <2>2
  <2>4. InOrder(spoken', dropped', t, next)
    BY <1>2, <1>5, <2>1, <2>2, <2>3 DEF InOrder, Playable, Ordered
  <2>5. Append(spoken, x.index) \in Seq(Nat)
    BY <1>1, <2>2, AppendProperties
  <2>6. dropped \subseteq dropped' /\ \E i \in Nat : spoken' = Append(spoken, i)
    BY <2>1, <2>2
  <2>7. spoken' \in Seq(Nat) /\ (tts' = t /\ transport' = next)
    BY <2>1, <2>5
  <2>8. InOrder(spoken', dropped', tts', transport')
        /\ Goes(spoken, dropped, tts, spoken', dropped', tts')
    BY <1>1, <1>2, <1>5, <1>7, <2>4, <2>6, <2>7, OrderedGoes
  <2> QED
    BY <2>8 DEF OrderNow, Proceeds
<1>12. ASSUME failed, InOrder(spoken, dropped', t, next)
       PROVE  OrderNow' /\ Proceeds
  <2>1. /\ spoken' = spoken /\ dropped \subseteq dropped'
        /\ \/ transport' = next /\ (tts' = t \/ tts' = Pumped(t, ttsLoaded))
           \/ FinalizeIfDone(t, next)
    BY <1>6, <1>12
  <2>3. InOrder(spoken, dropped', t, next)
    BY <1>12
  <2>4. InOrder(spoken, dropped', Pumped(t, ttsLoaded), next)
    BY <1>1, <1>2, <1>7, <2>3, PartsInOrder
  <2> DEFINE u == Pumped(t, ttsLoaded)
  <2>5. /\ u \in Controller /\ u.jobId = tts.jobId /\ u.active = tts.active
        /\ u.total = tts.total
    BY <1>1, <1>2, PumpedFields
  <2>6. dropped \subseteq dropped'
    BY <2>1
  <2> HIDE DEF u
  <2>7. InOrder(spoken, dropped', tts', transport')
        /\ Goes(spoken, dropped, tts, spoken, dropped', tts')
    <3>1. CASE tts' = u /\ transport' = next
      <4>1. InOrder(spoken, dropped', u, next)
        BY <2>4 DEF u
      <4> QED
        BY <1>1, <1>5, <1>7, <2>5, <2>6, <3>1, <4>1, OrderedGoes
    <3>2. CASE (tts' = t /\ transport' = next) \/ FinalizeIfDone(t, next)
      BY <1>1, <1>2, <1>5, <1>7, <2>3, <2>6, <3>2, OrderedGoes
    <3> QED
      BY <2>1, <3>1, <3>2 DEF u
  <2> QED
    BY <2>1, <2>7 DEF OrderNow, Proceeds
<1>13. CASE ~Started(o) /\ ~(CanAppend(tr) /\ appends)
  <2>1. failed /\ dropped' = (dropped \union lost) \union {x.index} /\ next.playlist = << >>
    BY <1>6, <1>9, <1>13
  <2>2. /\ t.ready \in Seq(ChunksOf(t.active))
        /\ Whole(RowOf(spoken, << >>, t), (dropped \union lost) \union {x.index}, tts.total)
    BY <1>1, <1>2, <1>3, <1>5, <1>8, <1>13, FreshStart DEF x
  <2>3. InOrder(spoken, dropped', t, next)
    BY <1>2, <1>5, <2>1, <2>2, EmptySeq DEF InOrder, Playable, Ordered
  <2> QED
    BY <1>12, <2>1, <2>3
<1>14. CASE ~Started(o) /\ ~Appends(tr, appends, o) /\ CanAppend(tr) /\ appends
  <2>1. failed /\ dropped' = dropped \union {x.index} /\ next = tr
    BY <1>6, <1>9, <1>14
  <2>2. InOrder(spoken, dropped \union {x.index}, t, tr)
    BY <1>1, <1>2, <1>3, <1>5, GivenUpInOrder DEF x
  <2> QED
    BY <1>12, <2>1, <2>2
<1> QED
  BY <1>10, <1>11, <1>13, <1>14

\* The transport poll and the rest of the hand-over loop.
LEMMA PollOrder ==
  ASSUME TypeOK, OrderNow, PollTransport \/ HandOver
  PROVE  OrderNow' /\ Proceeds
<1>1. /\ tts \in Controller /\ transport \in Transport /\ ttsLoaded \in BOOLEAN
      /\ spoken \in Seq(Nat) /\ InOrder(spoken, dropped, tts, transport)
  BY DEF TypeOK, OrderNow
<1>2. CASE PollTransport
  <2> DEFINE tr   == Tick(transport)
             asks == tr.status = "playing" /\ ttsLoaded
             t    == Pumped(tts, asks)
             q    == SetPendingQueue(tr, FALSE)
  <2>1. /\ \/ tts' = t /\ transport' = tr
           \/ FinalizeIfDone(t, tr)
           \/ FinalizeIfDone(t, q)
        /\ UNCHANGED << spoken, dropped >>
    BY <1>2 DEF PollTransport, speechVars
  <2>2. tr \in Transport /\ InOrder(spoken, dropped, tts, tr)
    BY <1>1, TransportTypes, PartsInOrder
  <2>3. asks \in BOOLEAN
    BY <1>1
  <2> HIDE DEF tr, asks
  <2>4. InOrder(spoken, dropped, t, tr)
    BY <1>1, <2>2, PartsInOrder
  <2>5. /\ t \in Controller /\ t.jobId = tts.jobId /\ t.active = tts.active
        /\ t.total = tts.total
    BY <1>1, <2>3, PumpedFields
  <2> HIDE DEF t
  <2>6. q \in Transport /\ InOrder(spoken, dropped, t, q)
    BY <2>2, <2>4, <2>5, TransportTypes, PartsInOrder
  <2> HIDE DEF q
  <2>7. InOrder(spoken, dropped, tts', transport')
        /\ Goes(spoken, dropped, tts, spoken, dropped, tts')
    <3>1. CASE (tts' = t /\ transport' = tr) \/ FinalizeIfDone(t, tr)
      BY <1>1, <2>2, <2>4, <2>5, <3>1, OrderedGoes
    <3>2. CASE FinalizeIfDone(t, q)
      BY <1>1, <2>5, <2>6, <3>2, OrderedGoes
    <3> QED
      BY <2>1, <3>1, <3>2
  <2> QED
    BY <2>1, <2>7 DEF OrderNow, Proceeds
<1>3. CASE HandOverEnds
  <2>1. tts' = Pumped(tts, ttsLoaded) /\ UNCHANGED << transport, spoken, dropped >>
    BY <1>3 DEF HandOverEnds, PumpTtsSynth, speechVars
  <2>2. OrderNow'
    BY <1>1, <2>1, PartsInOrder DEF OrderNow
  <2> QED
    BY <1>1, <2>1, <2>2, PumpedFields DEF Proceeds, Goes
<1> QED
  BY <1>2, <1>3, HandOverNextOrder DEF HandOver

\* Nothing is queued behind a single item.
LEMMA TailOne ==
  ASSUME NEW x
  PROVE  Tail(<< x >>) = << >>
<1>1. << x >> \in Seq({x}) /\ << x >> # << >> /\ Len(<< x >>) = 1
  OBVIOUS
<1>2. Tail(<< x >>) \in Seq({x}) /\ Len(Tail(<< x >>)) = 0
  BY <1>1, HeadTailProperties
<1> QED
  BY <1>2, EmptySeq

\* The player goes on to the next item, or comes to the end of its playlist.
LEMMA AdvanceOrder ==
  ASSUME TypeOK, OrderNow, PlayerAdvances
  PROVE  OrderNow' /\ Proceeds
<1> DEFINE pl   == transport.playlist
           rest == Tail(pl)
           v    == [transport EXCEPT !.playlist = rest]
           b    == IndexSeq(rest)
           c    == IndexSeq(tts.ready)
           d    == IndexSeq(tts.pending)
<1>1. /\ tts \in Controller /\ transport \in Transport /\ spoken \in Seq(Nat)
      /\ InOrder(spoken, dropped, tts, transport)
      /\ pl # << >> /\ tts' = tts /\ dropped' = dropped /\ transport' = v
      /\ spoken' = IF rest # << >> THEN Append(spoken, Head(rest).index) ELSE spoken
  BY DEF TypeOK, OrderNow, PlayerAdvances
<1>2. /\ pl \in Seq(ChunksOf(tts.active)) /\ ~CanStart(transport)
      /\ tts.ready \in Seq(ChunksOf(tts.active))
      /\ tts.active = NoJob => tts.ready = << >> /\ pl = << ReplayItem >>
  BY <1>1 DEF InOrder, Playable
<1>3. v \in Transport /\ v.playlist = rest /\ ~CanStart(v)
  <2>1. rest \in Seq(Chunk)
    BY <1>1, HeadTailProperties DEF Transport
  <2> HIDE DEF rest
  <2> QED
    BY <1>1, <1>2, <2>1 DEF Transport, CanStart
<1>4. rest \in Seq(ChunksOf(tts.active))
  BY <1>1, <1>2, HeadTailProperties
<1>5. tts.active = NoJob => rest = << >>
  BY <1>2, TailOne
<1>6. Playable(tts, v)
  BY <1>2, <1>3, <1>4, <1>5 DEF Playable
<1>7. /\ b \in Seq(Nat) /\ c \in Seq(Nat) /\ d \in Seq(Nat)
      /\ b = << >> <=> rest = << >>
      /\ rest # << >> => Head(b) = Head(rest).index /\ IndexSeq(Tail(rest)) = Tail(b)
  <2>1. rest \in Seq(Chunk)
    BY <1>3 DEF Transport
  <2> HIDE DEF rest
  <2> QED
    BY <1>1, <2>1, ChunkIndexes, RowTypes
<1>8. tts.active # NoJob => Whole(Row(spoken, b, c, d), dropped, tts.total)
  BY <1>1 DEF InOrder, Ordered, RowOf, Queue
<1>9. CASE rest = << >>
  <2>1. Queue(rest) = rest
    BY <1>9 DEF Queue
  <2>2. RowOf(spoken, v.playlist, tts) = Row(spoken, b, c, d)
    BY <1>3, <2>1 DEF RowOf
  <2>3. InOrder(spoken, dropped, tts, v)
    BY <1>6, <1>8, <2>2 DEF InOrder, Ordered
  <2> QED
    BY <1>1, <1>9, <2>3 DEF OrderNow, Proceeds, Goes
<1>10. CASE rest # << >>
  <2>1. IndexSeq(Queue(rest)) = Tail(b)
    BY <1>7, <1>10 DEF Queue
  <2>2. RowOf(spoken', v.playlist, tts) = Row(Append(spoken, Head(b)), Tail(b), c, d)
    BY <1>1, <1>3, <1>7, <1>10, <2>1 DEF RowOf
  <2>3. Head(b) \in Nat /\ Append(spoken, Head(b)) \in Seq(Nat)
    BY <1>1, <1>7, <1>10, CatShift
  <2>4. spoken' = Append(spoken, Head(b))
    BY <1>1, <1>7, <1>10
  <2> HIDE DEF b, c, d, v, rest
  <2>5. Row(Append(spoken, Head(b)), Tail(b), c, d) = Row(spoken, b, c, d)
    BY <1>1, <1>7, <1>10, RowMoves
  <2>6. InOrder(spoken', dropped, tts, v)
    BY <1>6, <1>8, <2>2, <2>5 DEF InOrder, Ordered
  <2>7. spoken' \in Seq(Nat) /\ (spoken' = spoken \/ \E i \in Nat : spoken' = Append(spoken, i))
    BY <2>3, <2>4
  <2>8. tts.active # NoJob
    BY <1>5, <1>10
  <2>9. InOrder(spoken', dropped, tts', transport')
        /\ Goes(spoken, dropped, tts, spoken', dropped, tts')
    BY <1>1, <1>3, <2>6, <2>7, <2>8, OrderedGoes
  <2> QED
    BY <1>1, <2>9 DEF OrderNow, Proceeds
<1> QED
  BY <1>9, <1>10

\* The player dies: what it had queued is given up.
LEMMA DeathOrder ==
  ASSUME TypeOK, OrderNow, PlayerDies
  PROVE  OrderNow' /\ Proceeds
<1> DEFINE pl == transport.playlist
           v  == [transport EXCEPT !.playlist = << >>]
           b  == IndexSeq(Tail(pl))
           c  == IndexSeq(tts.ready)
           d  == IndexSeq(tts.pending)
<1>1. /\ tts \in Controller /\ transport \in Transport /\ spoken \in Seq(Nat)
      /\ InOrder(spoken, dropped, tts, transport)
      /\ pl # << >> /\ tts' = tts /\ spoken' = spoken /\ transport' = v
      /\ dropped' = dropped \union Indices(Tail(pl))
  BY DEF TypeOK, OrderNow, PlayerDies
<1>2. v \in Transport /\ v.playlist = << >>
  BY <1>1, EmptySeq DEF Transport
<1>3. /\ pl \in Seq(ChunksOf(tts.active)) /\ tts.ready \in Seq(ChunksOf(tts.active))
      /\ tts.active = NoJob => tts.ready = << >> /\ pl = << ReplayItem >>
  BY <1>1 DEF InOrder, Playable
<1>4. Playable(tts, v)
  BY <1>2, <1>3, EmptySeq DEF Playable
<1>5. CASE tts.active = NoJob
  <2>1. Tail(pl) = << >>
    BY <1>3, <1>5, TailOne
  <2>2. Indices(<< >>) = {}
    <3>1. DOMAIN << >> = {}
      OBVIOUS
    <3> QED
      BY <3>1 DEF Indices
  <2>3. dropped' = dropped
    BY <1>1, <2>1, <2>2
  <2> QED
    BY <1>1, <1>4, <1>5, <2>3 DEF OrderNow, InOrder, Ordered, Proceeds, Goes
<1>6. CASE tts.active # NoJob
  <2>1. Tail(pl) \in Seq(ChunksOf(tts.active))
    BY <1>1, <1>3, HeadTailProperties
  <2>2. Indices(Tail(pl)) = Els(b)
    BY <1>6, <2>1, LostIndices
  <2>3. Tail(pl) = Queue(pl)
    BY <1>1 DEF Queue
  <2>4. b \in Seq(Nat) /\ c \in Seq(Nat) /\ d \in Seq(Nat)
    BY <1>1, <2>3, RowTypes
  <2>5. Whole(Row(spoken, b, c, d), dropped, tts.total)
    BY <1>1, <1>6, <2>3 DEF InOrder, Ordered, RowOf
  <2>6. RowOf(spoken, v.playlist, tts) = Row(spoken, << >>, c, d)
    BY <1>2 DEF RowOf, Queue, IndexSeq
  <2> HIDE DEF b, c, d, v
  <2>7. Whole(Row(spoken, << >>, c, d), dropped \union Els(b), tts.total)
    BY <1>1, <2>4, <2>5, RowDrops
  <2>8. InOrder(spoken, dropped', tts, v)
    BY <1>1, <1>4, <2>2, <2>6, <2>7 DEF InOrder, Ordered
  <2>9. dropped \subseteq dropped'
    BY <1>1
  <2>10. InOrder(spoken, dropped', tts', transport')
         /\ Goes(spoken, dropped, tts, spoken, dropped', tts')
    BY <1>1, <1>2, <1>6, <2>8, <2>9, OrderedGoes
  <2> QED
    BY <1>1, <2>10 DEF OrderNow, Proceeds
<1> QED
  BY <1>5, <1>6

\* What the order of speech rests on.
OrderSupport == OrderNow /\ IndexNow /\ TextWaits

\* Every step keeps the order, and the job proceeds.
LEMMA NextOrder ==
  ASSUME TypeOK, SoundNow, OrderSupport, [Next]_vars
  PROVE  OrderSupport' /\ Proceeds
<1>1. IndexNow' /\ TextWaits'
  BY NextIndex, NextTextWaits DEF OrderSupport
<1>2. OrderNow' /\ Proceeds
  <2>1. CASE JobThread \/ WorkerDies \/ UNCHANGED vars
    <3>1. UNCHANGED << tts, transport, spoken, dropped >>
      BY <2>1 DEF JobThread, TakeCmd, ServeLoadTts, ServeSynthesize, ServeCancelTtsWorker,
                  ServeUnload, ServeLoadStt, Serving, WorkerDies, vars, uiVars, speechVars
    <3> QED
      BY <3>1, SameOrder DEF OrderSupport
  <2> QED
    BY <2>1, UserOrder, HandleMsgOrder, PollOrder, AdvanceOrder, DeathOrder
       DEF Next, OrderSupport
<1> QED
  BY <1>1, <1>2 DEF OrderSupport

\* At the start nothing is said and nothing waits.
LEMMA InitOrder == Init => OrderSupport
<1>1. SUFFICES ASSUME Init PROVE OrderSupport
  OBVIOUS
<1>2. /\ tts.active = NoJob /\ tts.ready = << >> /\ transport.playlist = << >>
      /\ pendingSpeak = NoSpeak
  BY <1>1 DEF Init, NewController, NewTransport, NoJob
<1>3. OrderNow
  BY <1>2, StoppedInOrder DEF OrderNow
<1> QED
  BY <1>2, <1>3 DEF OrderSupport, IndexNow, Indexed, TextWaits

-----------------------------------------------------------------------------
(* The theorems.                                                           *)

\* The order of speech is an invariant of the pipeline.
THEOREM OrderCorrect == Spec => [](TypeOK /\ SoundNow /\ OrderSupport)
<1>1. Init => OrderSupport
  BY InitOrder
<1>2. TypeOK /\ SoundNow /\ OrderSupport /\ [Next]_vars => OrderSupport'
  BY NextOrder
<1> QED
  BY <1>1, <1>2, SoundCorrect, PTL DEF Spec

\* What the player plays is of the live job, or the replay without one.
THEOREM OnlyLiveSpeech == Spec => []OnlyLiveSpeechPlays
<1>1. ASSUME OrderSupport
      PROVE  OnlyLiveSpeechPlays
  <2>1. transport.playlist \in Seq(ChunksOf(tts.active))
    BY <1>1 DEF OrderSupport, OrderNow, InOrder, Playable
  <2>2. \A k \in DOMAIN transport.playlist : transport.playlist[k] \in ChunksOf(tts.active)
    BY <2>1, LenProperties, ElementOfSeq
  <2> QED
    BY <2>2 DEF OnlyLiveSpeechPlays, ChunksOf
<1>2. OrderSupport => OnlyLiveSpeechPlays
  BY <1>1
<1> QED
  BY <1>2, OrderCorrect, PTL

\* The segments of a job are heard in the order of the text, each of them or
\* accounted as given up.
THEOREM OrderOfSpeech == Spec => []SpeechInOrder
<1>1. ASSUME OrderSupport
      PROVE  SpeechInOrder
  <2>1. InHandOrder = RowOf(spoken, transport.playlist, tts)
    BY DEF InHandOrder, RowOf, Row, Cat, QueuedItems, Queue
  <2>2. tts.active # NoJob => Whole(RowOf(spoken, transport.playlist, tts), dropped, tts.total)
    BY <1>1 DEF OrderSupport, OrderNow, InOrder, Ordered
  <2> QED
    BY <2>1, <2>2 DEF SpeechInOrder, Whole, Up, Els
<1>2. OrderSupport => SpeechInOrder
  BY <1>1
<1> QED
  BY <1>2, OrderCorrect, PTL

\* The beginning of a whole row.
LEMMA WholeBegins ==
  ASSUME NEW s \in Seq(Nat), NEW r \in Seq(Nat), NEW dr, NEW n, Whole(Cat(s, r), dr, n)
  PROVE  /\ Up(s) /\ Els(s) \subseteq 0 .. n - 1
         /\ dr \subseteq 0 .. n - 1 /\ dr \intersect Els(s) = {}
<1>1. Up(s) /\ Els(Cat(s, r)) = Els(s) \union Els(r)
  BY ConcatUp, ConcatEls DEF Whole, Cat
<1>2. Els(Cat(s, r)) \union dr = 0 .. n - 1 /\ Els(Cat(s, r)) \intersect dr = {}
  BY DEF Whole
<1> HIDE DEF Els, Cat
<1> QED
  BY <1>1, <1>2

\* The last of an increasing row is above the others.
LEMMA UpAppend ==
  ASSUME NEW s \in Seq(Nat), NEW i \in Nat, Up(Append(s, i))
  PROVE  i \in Els(Append(s, i)) /\ \A k \in DOMAIN s : s[k] < i
<1> DEFINE z == Append(s, i)
           w == << i >>
<1>1. w \in Seq(Nat) /\ Els(w) = {i}
  <2>1. w \in Seq(Nat) /\ DOMAIN w = {1} /\ w[1] = i
    OBVIOUS
  <2> QED
    BY <2>1 DEF Els
<1>2. z = s \o w
  BY AppendIsConcat
<1>3. Up(z)
  OBVIOUS
<1> HIDE DEF z, w
<1>4. Els(s \o w) = Els(s) \union Els(w)
  BY <1>1, ConcatEls
<1>5. \A x \in Els(s), y \in Els(w) : x < y
  BY <1>1, <1>2, <1>3, ConcatUp
<1>6. i \in Els(z)
  BY <1>1, <1>2, <1>4
<1>7. \A k \in DOMAIN s : s[k] \in Els(s)
  BY DEF Els
<1>8. \A k \in DOMAIN s : s[k] < i
  BY <1>1, <1>5, <1>7
<1> QED
  BY <1>6, <1>8 DEF z

\* The pipeline implements SpeechPromise.
THEOREM PromiseKept == Spec => KeepsPromise
<1>1. Init => Promise!Init
  BY DEF Init, Promise!Init, NewController, NoJob
<1>2. ASSUME TypeOK, SoundNow, OrderSupport, [Next]_vars
      PROVE  [Promise!Next]_(Promise!promiseVars)
  <2>1. Proceeds
    BY <1>2, NextOrder
  <2>2. TypeOK'
    BY <1>2, NextType
  <2>3. CASE Restarts(spoken', dropped', tts, tts')
    BY <2>3 DEF Restarts, Promise!Next, Promise!Begin, Promise!Cancel, NoJob
  <2>4. CASE Goes(spoken, dropped, tts, spoken', dropped', tts')
    <3>1. CASE UNCHANGED << spoken, dropped >> /\ tts'.active = tts.active
               /\ tts'.total = tts.total
      BY <2>4, <3>1 DEF Goes, Promise!promiseVars
    <3>2. ASSUME tts.active # NoJob, dropped \subseteq dropped',
                 spoken' = spoken \/ \E i \in Nat : spoken' = Append(spoken, i),
                 NEW r \in Seq(Nat), Whole(Cat(spoken', r), dropped', tts.total)
          PROVE  Promise!GoesOn
      <4>1. spoken \in Seq(Nat) /\ spoken' \in Seq(Nat)
        BY <1>2, <2>2 DEF TypeOK
      <4>2. /\ Up(spoken') /\ Els(spoken') \subseteq 0 .. tts.total - 1
            /\ dropped' \subseteq 0 .. tts.total - 1 /\ dropped' \intersect Els(spoken') = {}
        BY <3>2, <4>1, WholeBegins
      <4>3. \/ spoken' = spoken
            \/ \E i \in 0 .. tts.total - 1 :
                 (\A k \in DOMAIN spoken : spoken[k] < i) /\ spoken' = Append(spoken, i)
        <5>1. ASSUME NEW i \in Nat, spoken' = Append(spoken, i)
              PROVE  i \in 0 .. tts.total - 1 /\ \A k \in DOMAIN spoken : spoken[k] < i
          BY <4>1, <4>2, <5>1, UpAppend
        <5> QED
          BY <3>2, <5>1
      <4> QED
        BY <3>2, <4>2, <4>3 DEF Promise!GoesOn, Promise!Segments, Promise!Heard, Els
    <3>3. ASSUME tts.active # NoJob, Promise!GoesOn, tts'.jobId = tts.jobId,
                 tts'.active = tts.active, tts'.total = tts.total
          PROVE  Promise!Next
      BY <3>3 DEF Promise!Next, Promise!Progress, NoJob
    <3>4. ASSUME tts.active # NoJob, Promise!GoesOn, tts'.jobId = tts.jobId,
                 tts'.active = NoJob, tts'.total = 0,
                 Whole(spoken', dropped', tts.total)
          PROVE  Promise!Next
      BY <3>4 DEF Promise!Next, Promise!Complete, Promise!Heard, Promise!Segments, Whole, Els,
                  NoJob
    <3>5. spoken' \in Seq(Nat) => Cat(spoken', << >>) = spoken'
      BY CatFacts
    <3>6. spoken' \in Seq(Nat) /\ << >> \in Seq(Nat)
      BY <2>2, EmptySeq DEF TypeOK
    <3> QED
      BY <2>4, <3>1, <3>2, <3>3, <3>4, <3>5, <3>6 DEF Goes
  <2> QED
    BY <2>1, <2>3, <2>4 DEF Proceeds
<1>3. TypeOK /\ SoundNow /\ OrderSupport /\ [Next]_vars => [Promise!Next]_(Promise!promiseVars)
  BY <1>2
<1> QED
  BY <1>1, <1>3, OrderCorrect, PTL DEF Spec, KeepsPromise, Promise!Spec
=============================================================================
