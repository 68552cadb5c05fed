------------------------------ MODULE SpeechText ------------------------------
(***************************************************************************)
(* What becomes of a text before it is spoken: the API's clean-up          *)
(* (sanitize_speak_text), the sanitizer of textprep with its parentheses,  *)
(* and the split into segments (segment.rs).                               *)
(*                                                                         *)
(* A text is a sequence of units.  A unit stands for a class of characters *)
(* or for a whole run the code looks for:                                  *)
(*   "a"     a lower-case letter or digit      "U"    an upper-case letter *)
(*   "Mr"    one of the listed abbreviations, without its period           *)
(*   "AI"    one of the listed acronyms        "link" the URL placeholder  *)
(*   "www"   http://, https:// or www.         "@" "#" "(" ")" themselves  *)
(*   "."     . ! ? and the like                ","    , ; :                *)
(*   "quote" a closing curly quote             "glyph" an emoji or symbol  *)
(*   "zw"    a control, zero-width or bidi character                       *)
(*   " "     white space                       "nl"   a line break         *)
(* and counts as one character.  Every operator is total and has no state. *)
(***************************************************************************)
EXTENDS Naturals, SequencesExt

CONSTANTS
  MaxChunk,   \* max_chars: the longest segment (280)
  ClauseMin,  \* the shortest segment a clause may end (40)
  LineMin,    \* the shortest segment a line break may end (20)
  MaxToken    \* MAX_UNBROKEN_TOKEN_CHARS (80)

ASSUME LengthAssumption ==
  {MaxChunk, ClauseMin, LineMin, MaxToken} \subseteq Nat \ {0}

Letters    == {"a", "U", "Mr", "AI", "link"}
Spaces     == {" ", "nl"}
Straight   == {")"}
Closers    == Straight \union {"quote"}
IsSentenceEnder(c) == c = "."
IsClauseBreak(c)   == c = ","
Pauses     == {".", ","}
TrailPunct == {".", ",", ")"}

(***************************************************************************)
(* Strings.                                                                *)
(***************************************************************************)
Solid(s) == {i \in DOMAIN s : s[i] \notin Spaces}

Trim(s)    == IF Solid(s) = {} THEN << >> ELSE SubSeq(s, Min(Solid(s)), Max(Solid(s)))
TrimEnd(s) == IF Solid(s) = {} THEN << >> ELSE SubSeq(s, 1, Max(Solid(s)))

\* The pieces of s between the units of cut, empty ones included.
Pieces(s, cut) ==
  FoldLeft(LAMBDA ps, c : IF c \in cut THEN Append(ps, << >>)
                          ELSE Append(Front(ps), Append(Last(ps), c)),
           << << >> >>, s)

Words(s) == SelectSeq(Pieces(s, Spaces), LAMBDA w : w # << >>)

Joined(ws) == FoldLeft(LAMBDA s, w : IF s = << >> THEN w ELSE s \o << " " >> \o w, << >>, ws)

CollapseWs(s) == Joined(Words(s))

\* Pieces of at most n units.
Chunks(s, n) ==
  [k \in 1 .. (Len(s) + n - 1) \div n |->
     SubSeq(s, (k - 1) * n + 1, IF k * n < Len(s) THEN k * n ELSE Len(s))]

SanitizeSpeakText(raw) == SelectSeq(Trim(raw), LAMBDA c : c # "zw")

(***************************************************************************)
(* sanitize_for_tts, step by step.                                         *)
(***************************************************************************)
IsHandleOnly(s) ==
  Len(s) >= 2 /\ s[1] = "@" /\ \A i \in 2 .. Len(s) : s[i] \in Letters

InHandle(s, i) == \E j \in 1 .. i : s[j] = "@" /\ \A k \in j + 1 .. i : s[k] \in Letters

\* A handle goes; a bare @ is spoken "at".
StripInlineHandles(s) ==
  FlattenSeq([i \in DOMAIN s |->
    IF s[i] = "@" /\ (i = Len(s) \/ s[i + 1] \notin Letters) THEN << "a", "a" >>
    ELSE IF InHandle(s, i) THEN << >>
    ELSE << s[i] >>])

\* match_url_at: from i to the last unit before the white space that is not
\* closing punctuation, if there is any; i - 1 when there is no link at i.
UrlEnd(s, i) ==
  LET run  == {j \in i + 1 .. Len(s) : \A k \in i + 1 .. j : s[k] \notin Spaces}
      body == {j \in run : s[j] \notin TrailPunct}
  IN  IF s[i] = "www" /\ body # {} THEN Max(body) ELSE i - 1

ReplaceUrls(s) ==
  FoldLeftDomain(
    LAMBDA st, i : IF i <= st.done THEN st
                   ELSE IF UrlEnd(s, i) >= i
                     THEN [out |-> Append(st.out, "link"), done |-> UrlEnd(s, i)]
                   ELSE [st EXCEPT !.out = Append(st.out, s[i])],
    [out |-> << >>, done |-> 0], s).out

KeptChars(s) == SelectSeq(s, LAMBDA c : c \notin {"glyph", "zw"})

IsHashtag(w) == Len(w) >= 2 /\ w[1] = "#" /\ \A i \in 2 .. Len(w) : w[i] \in Letters

DropStandaloneHashtags(s) == Joined(SelectSeq(Words(s), LAMBDA w : ~IsHashtag(w)))

\* Parentheses that open after a space become pauses, with a stack of which
\* ones did.
Paused(s) == IF s # << >> /\ Last(s) \notin Pauses THEN Append(s, ",") ELSE s
Spaced(s) == IF s # << >> /\ Last(s) \notin Spaces THEN Append(s, " ") ELSE s

GoesOn(s, i) ==
  LET rest == {j \in i + 1 .. Len(s) : s[j] \notin Spaces}
  IN  rest # {} /\ s[Min(rest)] \notin Pauses

Parenthesis(s, st, i) ==
  LET prose == s[i] = "(" /\ (i = 1 \/ s[i - 1] \in Spaces)
      ends  == s[i] = ")" /\ st.stack # << >> /\ Last(st.stack)
      kept  == Append(st.out, s[i])
  IN  CASE s[i] = "(" -> [ out   |-> IF prose THEN Spaced(Paused(TrimEnd(st.out))) ELSE kept,
                           stack |-> Append(st.stack, prose) ]
        [] s[i] = ")" -> [ out   |-> IF ~ends THEN kept
                                     ELSE IF GoesOn(s, i) THEN Spaced(Paused(TrimEnd(st.out)))
                                     ELSE TrimEnd(st.out),
                           stack |-> IF st.stack = << >> THEN << >> ELSE Front(st.stack) ]
        [] OTHER -> [st EXCEPT !.out = kept]

NormalizeParentheticalPauses(s) ==
  CollapseWs(FoldLeftDomain(LAMBDA st, i : Parenthesis(s, st, i),
                            [out |-> << >>, stack |-> << >>], s).out)

CapUnbrokenTokens(s) ==
  LET words == Words(s)
  IN  Joined(FlattenSeq([k \in DOMAIN words |-> Chunks(words[k], MaxToken)]))

\* An acronym that stands alone is spelt.
ExpandAcronyms(s) ==
  FlattenSeq([i \in DOMAIN s |->
    IF /\ s[i] = "AI"
       /\ i > 1 => s[i - 1] \notin Letters
       /\ i < Len(s) => s[i + 1] \notin Letters
      THEN << "U", " ", "U" >> ELSE << s[i] >>])

SanitizeLine(line) ==
  LET t == Trim(line)
  IN  IF t = << >> \/ IsHandleOnly(t) THEN << >>
      ELSE ExpandAcronyms(CapUnbrokenTokens(NormalizeParentheticalPauses(
             DropStandaloneHashtags(CollapseWs(KeptChars(ReplaceUrls(StripInlineHandles(t))))))))

SanitizeForTts(text) ==
  LET lines == Pieces(text, {"nl"})
  IN  CollapseWs(Joined(SelectSeq([k \in DOMAIN lines |-> SanitizeLine(lines[k])],
                                  LAMBDA l : l # << >>)))

(***************************************************************************)
(* split_for_tts_with_limit.                                               *)
(***************************************************************************)
\* The word itself, the opening brackets around it taken away.
IsSingleUpper(w) == SelectSeq(w, LAMBDA c : c # "(") = << "U" >>

IsAbbreviation(buf) ==
  LET t      == TrimEnd(buf)
      n      == Len(t)
      words  == Words(SubSeq(t, 1, n - 1))
      m      == Len(words)
  IN  /\ n >= 2 /\ t[n] = "."
      /\ \/ t[n - 1] = "Mr" /\ (n = 2 \/ t[n - 2] \in Spaces \union {"("})
         \/ /\ m >= 1 /\ IsSingleUpper(words[m])
            /\ m >= 2 => ~IsSingleUpper(words[m - 1])

\* push_segment: a text that is too long is packed word by word, and a word
\* that is too long is cut.
Packed(st, w) ==
  CASE Len(w) > MaxChunk ->
         [ out  |-> st.out \o (IF st.part = << >> THEN << >> ELSE << st.part >>) \o Chunks(w, MaxChunk),
           part |-> << >> ]
    [] Len(w) <= MaxChunk /\ st.part = << >> -> [st EXCEPT !.part = w]
    [] Len(w) <= MaxChunk /\ st.part # << >> /\ Len(st.part) + 1 + Len(w) > MaxChunk ->
         [out |-> Append(st.out, st.part), part |-> w]
    [] OTHER -> [st EXCEPT !.part = st.part \o << " " >> \o w]

PushSegment(out, raw) ==
  LET s      == Trim(raw)
      packed == FoldLeft(Packed, [out |-> << >>, part |-> << >>], Words(s))
  IN  IF s = << >> THEN out
      ELSE IF Len(s) <= MaxChunk THEN Append(out, s)
      ELSE out \o packed.out \o (IF packed.part = << >> THEN << >> ELSE << packed.part >>)

\* The first position from i on that holds none of the units.
Past(s, i, units) == Min({j \in i .. Len(s) + 1 : j = Len(s) + 1 \/ s[j] \notin units})

EndsHere(s, i) == i = Len(s) \/ s[i + 1] \in Spaces \union Straight

Cut(st, buf) == [st EXCEPT !.segs = PushSegment(st.segs, buf), !.buf = << >>]

\* Mutant: the closing quotes and brackets are passed over, not taken along.
AfterSentenceBare(s, i, st, buf) ==
  [Cut(st, buf) EXCEPT !.next = Past(s, Past(s, i + 1, Closers), Spaces)]

\* A sentence ends with its closing quotes and brackets.
AfterSentence(s, i, st, buf) ==
  LET j == Past(s, i + 1, Closers)
  IN  [Cut(st, buf \o SubSeq(s, i + 1, j - 1)) EXCEPT !.next = Past(s, j, Spaces)]

\* One turn of the loop: sentence, line, clause, hard limit.
Scan(s, st, i) ==
  LET buf    == Append(st.buf, s[i])
      line   == s[i] = "nl" /\ Len(Trim(buf)) >= LineMin
      clause == /\ Len(buf) >= (MaxChunk * 3) \div 4 /\ Len(buf) >= ClauseMin
                /\ IsClauseBreak(s[i]) /\ EndsHere(s, i)
  IN  CASE i < st.next -> st
        [] i >= st.next /\ IsSentenceEnder(s[i]) /\ EndsHere(s, i) /\ ~IsAbbreviation(buf) ->
             AfterSentence(s, i, st, buf)
        [] OTHER ->
             CASE line   -> Cut(st, buf)
               [] ~line /\ clause -> [Cut(st, buf) EXCEPT !.next = Past(s, i + 1, Spaces)]
               [] ~line /\ ~clause /\ Len(buf) >= MaxChunk -> Cut(st, buf)
               [] OTHER -> [st EXCEPT !.buf = buf]

\* A segment cut in mid-thought gets a period, when it has room for one.
NeedsPeriod(seg) ==
  /\ Len(seg) < MaxChunk
  /\ ~IsSentenceEnder(Last(seg)) /\ ~IsClauseBreak(Last(seg)) /\ Last(seg) \notin Closers

EnsureNonfinalTerminalPunct(segs) ==
  [k \in DOMAIN segs |-> IF k < Len(segs) /\ NeedsPeriod(segs[k]) THEN Append(segs[k], ".") ELSE segs[k]]

SplitForTts(text) ==
  LET s   == Trim(text)
      end == FoldLeftDomain(LAMBDA st, i : Scan(s, st, i),
                            [segs |-> << >>, buf |-> << >>, next |-> 1], s)
  IN  EnsureNonfinalTerminalPunct(PushSegment(end.segs, end.buf))

(***************************************************************************)
(* What the text is promised.                                              *)
(***************************************************************************)
Sounds(s) == SelectSeq(s, LAMBDA c : c \notin Spaces \union {".", ","})

\* Every unit of the text is in exactly one segment, in order; no segment is
\* blank or longer than the limit, and nothing but periods was added.
SplitKeeps(segs, text) ==
  LET all == FlattenSeq(segs)
  IN  /\ Sounds(all) = Sounds(text)
      /\ Len(SelectSeq(all, IsClauseBreak)) = Len(SelectSeq(text, IsClauseBreak))
      /\ Len(SelectSeq(all, IsSentenceEnder)) >= Len(SelectSeq(text, IsSentenceEnder))
      /\ \A k \in DOMAIN segs : segs[k] # << >> /\ Len(segs[k]) <= MaxChunk /\ Trim(segs[k]) = segs[k]

Spelt(s) == FlattenSeq([i \in DOMAIN s |-> IF s[i] = "AI" THEN << "U", "U" >> ELSE << s[i] >>])

\* A text without handles, tags and links is spoken letter by letter: clean-up,
\* parentheses, token cap and acronyms lose none and move none.
SanitizeKeeps(clean, text) ==
  (\A i \in DOMAIN text : text[i] \notin {"@", "#", "www"}) =>
     SelectSeq(Spelt(clean), LAMBDA c : c \in Letters)
       = SelectSeq(Spelt(text), LAMBDA c : c \in Letters)
=============================================================================
