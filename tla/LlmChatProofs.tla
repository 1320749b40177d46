--------------------------- MODULE LlmChatProofs ----------------------------
(***************************************************************************)
(* That a label only ever shows its own answer, and when the page can meet *)
(* a pointer that is not valid, for answers and conversations of any       *)
(* length.                                                                 *)
(***************************************************************************)
EXTENDS LlmChat, SequenceTheorems, TLAPS

\* s holds pieces of the answer to q, in order, none after the n-th.
InOrderUpTo(q, s, n) == \A i \in DOMAIN s :
    /\ s[i].of = q
    /\ s[i].part <= n
    /\ i > 1 => s[i - 1].part < s[i].part

Least(k) == IF k > Parts THEN Parts ELSE k

PlaceInv ==
    /\ asked \in 0..MaxQuestions
    /\ reply \in 0..asked
    /\ taken \in 0..DoneLine /\ half \in BOOLEAN
    /\ labels \subseteq 1..asked /\ answered \subseteq 1..asked
    /\ running \in BOOLEAN /\ hasty \in BOOLEAN

TextInv ==
    /\ text \in Seq(Piece)
    /\ reply # 0 => InOrderUpTo(reply, text, taken)

ShownInv ==
    /\ shown \in [Question -> Seq(Piece)]
    /\ \A q \in Question : InOrderUpTo(q, shown[q], Parts)
    /\ \A q \in Question : q > asked => shown[q] = <<>>

LabelInv ==
    /\ label # 0 => label = reply /\ streaming
    /\ CrashNeedsHaste

\* The label of a question that was not sent too early has what was streamed,
\* which is all that was read if no line was lost.
CompleteInv ==
    /\ reply # 0 =>
          /\ reply \in split \/ Len(text) = Least(taken)
          /\ reply \in labels => reply \in orphaned \/ shown[reply] = text
          /\ reply \in orphaned \/ taken = DoneLine \/ label = reply
          /\ reply \in answered => taken = DoneLine
    /\ AnswerComplete

Inv == PlaceInv /\ TextInv /\ ShownInv /\ LabelInv /\ CompleteInv

\* The pieces of the lines f..u.
Lines(q, f, u) == [i \in 1..(u + 1 - f) |-> [of |-> q, part |-> f + i - 1]]

\* They are pieces.
LEMMA LinesArePieces ==
    ASSUME NEW q \in Question, NEW f \in Nat \ {0}, NEW u \in Nat, u <= Parts
    PROVE  /\ Lines(q, f, u) \in Seq(Piece)
           /\ Len(Lines(q, f, u)) = IF u < f THEN 0 ELSE u + 1 - f
           /\ \A i \in 1..Len(Lines(q, f, u)) :
                 /\ Lines(q, f, u)[i].of = q
                 /\ Lines(q, f, u)[i].part = f + i - 1
                 /\ f + i - 1 <= u
<1> DEFINE n == IF u < f THEN 0 ELSE u + 1 - f
           new == Lines(q, f, u)
<1>1. n \in Nat /\ 1..n = 1..(u + 1 - f)
  OBVIOUS
<1>2. new = [i \in 1..n |-> [of |-> q, part |-> f + i - 1]]
  BY <1>1 DEF Lines
<1>3. \A i \in 1..n : f + i - 1 \in 1..Parts /\ f + i - 1 <= u
  BY PartsAssumption
<1> HIDE DEF n, new
<1>4. \A i \in 1..n : new[i] \in Piece /\ new[i].of = q /\ new[i].part = f + i - 1
  <2> TAKE i \in 1..n
  <2>1. new[i] = [of |-> q, part |-> f + i - 1]
    BY <1>2
  <2>2. f + i - 1 \in 1..Parts
    BY <1>3
  <2> QED
    BY <2>1, <2>2 DEF Piece
<1>5. new \in [1..n -> Piece]
  BY <1>2, <1>4
<1>6. new \in Seq(Piece)
  BY <1>1, <1>5, SeqDef
<1>7. Len(new) = n
  BY <1>1, <1>5, <1>6, LenProperties
<1> QED
  BY <1>3, <1>4, <1>6, <1>7 DEF n, new

\* Put behind the pieces up to line k they are in order.
LEMMA Extended ==
    ASSUME NEW q \in Question, NEW k \in Nat, NEW f \in Nat, NEW u \in Nat,
           NEW l \in Nat, k < f, u <= Parts, u <= l, k <= l,
           NEW s \in Seq(Piece), InOrderUpTo(q, s, k)
    PROVE  /\ s \o Lines(q, f, u) \in Seq(Piece)
           /\ InOrderUpTo(q, s \o Lines(q, f, u), l)
           /\ Len(s \o Lines(q, f, u)) = Len(s) + IF u < f THEN 0 ELSE u + 1 - f
<1> DEFINE new == Lines(q, f, u)
           t == s \o new
<1>1. /\ new \in Seq(Piece)
      /\ Len(new) = IF u < f THEN 0 ELSE u + 1 - f
      /\ \A i \in 1..Len(new) : new[i].of = q /\ new[i].part = f + i - 1 /\ f + i - 1 <= u
  <2>1. f \in Nat \ {0}
    OBVIOUS
  <2> QED
    BY <2>1, LinesArePieces
<1> HIDE DEF new
<1>2. /\ t \in Seq(Piece) /\ Len(t) = Len(s) + Len(new)
      /\ \A i \in 1..Len(t) :
            t[i] = IF i <= Len(s) THEN s[i] ELSE new[i - Len(s)]
  <2>1. new \in Seq(Piece)
    BY <1>1
  <2> QED
    BY <2>1, ConcatProperties
<1>3. /\ Len(s) \in Nat /\ Len(new) \in Nat
      /\ DOMAIN t = 1..Len(t) /\ DOMAIN s = 1..Len(s)
      /\ \A i \in 1..Len(s) : s[i].part \in Nat
  <2>1. \A i \in 1..Len(s) : s[i] \in Piece
    BY ElementOfSeq
  <2>2. \A i \in 1..Len(s) : s[i].part \in Nat
    BY <2>1 DEF Piece
  <2>3. Len(s) \in Nat /\ DOMAIN s = 1..Len(s)
    BY LenProperties
  <2>4. Len(new) \in Nat
    BY <1>1, LenProperties
  <2>5. DOMAIN t = 1..Len(t)
    BY <1>2, LenProperties
  <2> QED
    BY <2>2, <2>3, <2>4, <2>5
<1> HIDE DEF t
<1>4. ASSUME NEW i \in 1..Len(t)
      PROVE  /\ t[i].of = q
             /\ t[i].part <= l
             /\ i > 1 => t[i - 1].part < t[i].part
  <2>1. CASE i <= Len(s)
    <3>1. t[i] = s[i] /\ i \in 1..Len(s)
      BY <1>2, <1>3, <2>1
    <3>2. s[i].of = q /\ s[i].part <= k /\ (i > 1 => s[i - 1].part < s[i].part)
      BY <1>3, <3>1 DEF InOrderUpTo
    <3>3. i > 1 => t[i - 1] = s[i - 1]
      <4> HAVE i > 1
      <4>1. i - 1 \in 1..Len(t) /\ i - 1 <= Len(s)
        BY <1>3, <3>1, <1>2
      <4> QED
        BY <1>2, <4>1
    <3>4. s[i].part \in Nat
      BY <1>3, <3>1
    <3> QED
      BY <3>1, <3>2, <3>3, <3>4
  <2>2. CASE i > Len(s)
    <3>1. /\ t[i] = new[i - Len(s)] /\ i - Len(s) \in 1..Len(new)
          /\ i > 1 => i - 1 \in 1..Len(t)
      BY <1>2, <1>3, <2>2
    <3>2. /\ t[i].of = q
          /\ t[i].part = f + (i - Len(s)) - 1
          /\ f + (i - Len(s)) - 1 <= u
      BY <1>1, <3>1
    <3>3. CASE i = 1
      BY <3>2, <3>3
    <3>4. CASE i > 1 /\ i - 1 <= Len(s)
      <4>1. t[i - 1] = s[i - 1] /\ s[i - 1].part <= k
        BY <1>2, <1>3, <3>1, <3>4 DEF InOrderUpTo
      <4>2. s[i - 1].part \in Nat
        BY <1>3, <3>4
      <4> QED
        BY <1>3, <2>2, <3>2, <3>4, <4>1, <4>2
    <3>5. CASE i > 1 /\ i - 1 > Len(s)
      <4>0. i - 1 \in 1..Len(t) /\ ~(i - 1 <= Len(s)) /\ i - 1 - Len(s) \in 1..Len(new)
        BY <1>2, <1>3, <3>1, <3>5
      <4>1. t[i - 1] = new[i - 1 - Len(s)]
        BY <1>2, <4>0
      <4>2. t[i - 1].part = f + (i - 1 - Len(s)) - 1
        BY <1>1, <4>0, <4>1
      <4> QED
        BY <1>3, <3>2, <4>2
    <3> QED
      BY <1>3, <3>3, <3>4, <3>5
  <2> QED
    BY <1>3, <2>1, <2>2
<1>5. InOrderUpTo(q, t, l)
  BY <1>3, <1>4 DEF InOrderUpTo
<1> QED
  BY <1>1, <1>2, <1>5 DEF t, new

\* What a read does to the text.
LEMMA ReadText ==
    ASSUME Inv, NEW last \in 0..DoneLine, NEW cut \in BOOLEAN, Read(last, cut)
    PROVE  /\ reply \in Question
           /\ text' \in Seq(Piece)
           /\ InOrderUpTo(reply, text', taken')
           /\ reply \in split' \/ Len(text') = Least(taken')
<1> DEFINE u == IF last = DoneLine THEN Parts ELSE last
<1>1. /\ reply \in Question /\ taken \in Nat /\ last \in Nat /\ Parts \in Nat
      /\ taken <= last /\ last <= DoneLine /\ taken' = last /\ First \in Nat
      /\ First = (IF half THEN taken + 2 ELSE taken + 1)
      /\ text \in Seq(Piece) /\ InOrderUpTo(reply, text, taken)
  BY PartsAssumption DEF Inv, PlaceInv, TextInv, Read, First, DoneLine, Question
<1>2. u \in Nat /\ u <= Parts /\ u <= last /\ First \in Nat \ {0} /\ taken < First
  BY <1>1 DEF DoneLine
<1>3. Pieces(AllLines(last)) = Lines(reply, First, u)
  BY DEF Pieces, AllLines, Lines
<1>4. text' = text \o Lines(reply, First, u)
  BY <1>3 DEF Read
<1> HIDE DEF u
<1>5. /\ text' \in Seq(Piece)
      /\ InOrderUpTo(reply, text', last)
      /\ Len(text') = Len(text) + IF u < First THEN 0 ELSE u + 1 - First
  <2> DEFINE f == First
  <2>1. /\ reply \in Question /\ taken \in Nat /\ f \in Nat /\ u \in Nat /\ last \in Nat
        /\ taken < f /\ u <= Parts /\ u <= last /\ taken <= last
        /\ text \in Seq(Piece) /\ InOrderUpTo(reply, text, taken)
    BY <1>1, <1>2
  <2> HIDE DEF f
  <2>2. /\ text \o Lines(reply, f, u) \in Seq(Piece)
        /\ InOrderUpTo(reply, text \o Lines(reply, f, u), last)
        /\ Len(text \o Lines(reply, f, u)) = Len(text) + IF u < f THEN 0 ELSE u + 1 - f
    BY ONLY <2>1, Extended
  <2> QED
    BY <1>4, <2>2 DEF f
<1>6. ASSUME reply \notin split'
      PROVE  Len(text') = Least(taken')
  <2>1. Len(text) = Least(taken) /\ (last > taken => ~half)
    BY <1>1, <1>6 DEF Inv, CompleteInv, Read, Question
  <2>2. last = taken => ~half
    BY DEF Read
  <2>3. First = taken + 1
    BY <1>1, <2>1, <2>2
  <2> QED
    BY <1>1, <1>5, <2>1, <2>3 DEF Least, DoneLine, u
<1> QED
  BY <1>1, <1>5, <1>6

\* A read that meets no deleted label leaves the text in the label, or the
\* label as it was.
LEMMA ReadKeeps ==
    ASSUME Inv, NEW last \in 0..DoneLine, NEW cut \in BOOLEAN, Read(last, cut)
    PROVE  Inv'
<1>0. /\ reply \in Question /\ text' \in Seq(Piece)
      /\ InOrderUpTo(reply, text', taken')
      /\ reply \in split' \/ Len(text') = Least(taken')
  BY ReadText
<1> DEFINE new == Pieces(AllLines(last))
<1>1. /\ reply' = reply /\ asked' = asked /\ labels' = labels
      /\ orphaned' = orphaned /\ hasty' = hasty
      /\ taken' = last /\ half' = cut
      /\ text' = text \o new
      /\ split' = split \/ split' = split \union {reply}
      /\ running /\ reply # 0 /\ last >= taken
  BY DEF Read, Inv, PlaceInv
<1>2. \/ /\ label' = 0 /\ streaming' = FALSE /\ last = DoneLine
         /\ answered' = answered \union {reply}
      \/ label' = label /\ streaming' = streaming /\ answered' = answered
  BY DEF Read, IsDone, AllLines
<1>3. \/ (new = <<>> \/ label = 0) /\ running' = running /\ shown' = shown
      \/ label \in labels /\ shown' = [shown EXCEPT ![label] = text'] /\ running' = running
      \/ label \notin labels \union {0} /\ running' \in BOOLEAN /\ shown' = shown
  BY DEF Read, SetText
<1>4. new = <<>> => text' = text
  BY <1>1, ConcatEmptySeq DEF Inv, TextInv
<1> HIDE DEF new
<1>5. PlaceInv'
  <2>1. asked' \in 0..MaxQuestions /\ reply' \in 0..asked' /\ taken' \in 0..DoneLine
    BY <1>1 DEF Inv, PlaceInv
  <2>2. labels' \subseteq 1..asked' /\ answered' \subseteq 1..asked'
    <3>1. labels \subseteq 1..asked /\ answered \subseteq 1..asked /\ reply \in 1..asked
      BY <1>1, PartsAssumption DEF Inv, PlaceInv
    <3>2. answered' \subseteq answered \union {reply}
      BY <1>2
    <3> QED
      BY <1>1, <3>1, <3>2
  <2>3. half' \in BOOLEAN /\ hasty' \in BOOLEAN
    BY <1>1, Zenon DEF Inv, PlaceInv
  <2>4. running' \in BOOLEAN
    <3>1. running \in BOOLEAN
      BY DEF Inv, PlaceInv
    <3>2. running' = running \/ running' \in BOOLEAN
      BY <1>3
    <3> QED
      BY <3>1, <3>2
  <2> QED
    BY <2>1, <2>2, <2>3, <2>4 DEF PlaceInv
<1>6. TextInv'
  BY <1>0, <1>1 DEF TextInv
<1>7. InOrderUpTo(reply, text', Parts)
  <2>1. \A i \in DOMAIN text' : text'[i] \in Piece
    BY <1>0, ElementOfSeq, LenProperties
  <2> QED
    BY <1>0, <2>1 DEF InOrderUpTo, Piece
<1>8. label \in labels => label = reply
  BY DEF Inv, LabelInv, PlaceInv
<1>9. ShownInv'
  <2>1. CASE shown' = shown
    BY <1>1, <2>1 DEF Inv, ShownInv
  <2>2. CASE label \in labels /\ shown' = [shown EXCEPT ![label] = text']
    <3>1. ~(reply > asked)
      BY PartsAssumption DEF Inv, PlaceInv
    <3> QED
      BY <1>0, <1>1, <1>7, <1>8, <2>2, <3>1 DEF Inv, ShownInv
  <2> QED
    BY <1>3, <2>1, <2>2
<1>10. LabelInv'
  BY <1>1, <1>2, <1>3 DEF Inv, LabelInv, PlaceInv, CrashNeedsHaste
<1>11. taken # DoneLine
  BY DEF Inv, PlaceInv, Read, DoneLine
<1>12. CompleteInv'
  <2>1. reply \in labels => reply \in orphaned \/ shown'[reply] = text'
    <3>1. CASE label \in labels /\ shown' = [shown EXCEPT ![label] = text']
      BY <1>0, <1>8, <3>1 DEF Inv, ShownInv
    <3>2. CASE new = <<>> /\ shown' = shown
      BY <1>1, <1>4, <3>2 DEF Inv, CompleteInv
    <3>3. CASE label = 0 /\ shown' = shown
      BY <1>0, <1>11, <3>3 DEF Inv, CompleteInv, Question
    <3>4. CASE label \notin labels \union {0}
      BY <3>4 DEF Inv, LabelInv
    <3> QED
      BY <1>3, <3>1, <3>2, <3>3, <3>4
  <2>2. reply \in orphaned \/ last = DoneLine \/ label' = reply
    BY <1>1, <1>2, <1>11 DEF Inv, CompleteInv
  <2>3. reply \in answered' => last = DoneLine
    BY <1>1, <1>2, <1>11 DEF Inv, CompleteInv
  <2>4. ASSUME NEW q \in answered'
        PROVE  Len(shown'[q]) = Parts \/ q \in split' \union orphaned' \/ q \notin labels'
    <3>1. CASE q = reply
      <4>1. Least(DoneLine) = Parts
        BY PartsAssumption DEF Least, DoneLine
      <4> QED
        BY <1>0, <1>1, <2>1, <2>3, <3>1, <4>1
    <3>2. CASE q # reply
      <4>1. q \in answered
        BY <1>2, <3>2
      <4>2. q \in Question
        BY <4>1, PartsAssumption DEF Inv, PlaceInv, Question
      <4>3. shown'[q] = shown[q]
        BY <1>3, <1>8, <3>2, <4>2 DEF Inv, ShownInv
      <4> QED
        BY <1>1, <4>1, <4>3 DEF Inv, CompleteInv, AnswerComplete
    <3> QED
      BY <3>1, <3>2
  <2> QED
    BY <1>0, <1>1, <2>1, <2>2, <2>3, <2>4 DEF CompleteInv, AnswerComplete
<1> QED
  BY <1>5, <1>6, <1>9, <1>10, <1>12 DEF Inv

\* A question goes to the server: the text and the label begin anew.
LEMMA PostKeeps ==
    ASSUME Inv, NEW q \in Question, Ask(q), Post(q),
           \/ label' = q /\ UNCHANGED <<orphaned, split, answered, hasty>>
           \/ /\ label' = 0 /\ orphaned' = orphaned \union {q}
              /\ hasty' = TRUE /\ UNCHANGED <<split, answered>>
    PROVE  Inv'
<1>1. /\ q = asked + 1 /\ asked' = q /\ labels' = labels \union {q}
      /\ reply' = q /\ taken' = 0 /\ half' = FALSE /\ streaming' = TRUE
      /\ text' = <<>> /\ shown' = shown /\ running' = running /\ running
      /\ q \in 1..MaxQuestions /\ asked \in Nat /\ MaxQuestions \in Nat
  BY PartsAssumption DEF Inv, PlaceInv, Ask, Post, ClearedText, MaySend, Question
<1>2. PlaceInv'
  <2>0. taken' \in 0..DoneLine
    BY <1>1, PartsAssumption DEF DoneLine
  <2>1. asked' \in 0..MaxQuestions /\ reply' \in 0..asked'
    BY <1>1
  <2>2. labels' \subseteq 1..asked' /\ answered' \subseteq 1..asked'
    <3>1. labels \subseteq 1..asked /\ answered \subseteq 1..asked /\ answered' = answered
      BY DEF Inv, PlaceInv
    <3> QED
      BY <1>1, <3>1
  <2>3. half' \in BOOLEAN /\ running' \in BOOLEAN
    BY <1>1
  <2>4. hasty' \in BOOLEAN
    BY DEF Inv, PlaceInv
  <2> QED
    BY <2>0, <2>1, <2>2, <2>3, <2>4 DEF PlaceInv
<1>3. TextInv'
  BY <1>1 DEF TextInv, InOrderUpTo
<1>4. ShownInv'
  BY <1>1 DEF Inv, ShownInv
<1>5. LabelInv'
  BY <1>1 DEF Inv, LabelInv, CrashNeedsHaste
<1>6. CompleteInv'
  <2>1. q \notin answered /\ q \notin labels
    BY <1>1 DEF Inv, PlaceInv
  <2>2. Len(<<>>) = Least(0)
    BY PartsAssumption DEF Least
  <2>3. shown[q] = <<>>
    BY <1>1 DEF Inv, ShownInv
  <2> QED
    BY <1>1, <2>1, <2>2, <2>3 DEF Inv, CompleteInv, PlaceInv, AnswerComplete
<1> QED
  BY <1>2, <1>3, <1>4, <1>5, <1>6 DEF Inv

\* The old reply was used after it was reset: the process has ended.
LEMMA EndKeeps ==
    ASSUME Inv, NEW q \in Question, Ask(q), running' = FALSE, reply' = 0, label' = 0,
           streaming' = FALSE, hasty' = TRUE, orphaned' = orphaned \union {q},
           UNCHANGED <<taken, half, text, shown, split, answered>>
    PROVE  Inv'
<1>1. PlaceInv'
  <2>1. asked' = asked + 1 /\ asked' \in 0..MaxQuestions /\ asked \in Nat
    BY PartsAssumption DEF Inv, PlaceInv, Ask, Question
  <2>2. labels' \subseteq 1..asked' /\ answered' \subseteq 1..asked'
    BY <2>1 DEF Inv, PlaceInv, Ask
  <2>3. reply' \in 0..asked' /\ taken' \in 0..DoneLine
    BY <2>1 DEF Inv, PlaceInv
  <2>4. half' \in BOOLEAN /\ hasty' \in BOOLEAN /\ running' \in BOOLEAN
    BY DEF Inv, PlaceInv
  <2> QED
    BY <2>1, <2>2, <2>3, <2>4 DEF PlaceInv
<1>2. TextInv' /\ ShownInv'
  BY PartsAssumption DEF Inv, PlaceInv, TextInv, ShownInv, Ask, Question
<1>3. LabelInv'
  BY DEF LabelInv, CrashNeedsHaste
<1>4. CompleteInv'
  BY DEF Inv, CompleteInv, PlaceInv, AnswerComplete, Ask
<1> QED
  BY <1>1, <1>2, <1>3, <1>4 DEF Inv

\* Finished: the text was all read, if it was read to the end.
LEMMA FinishKeeps ==
    ASSUME Inv, Finish
    PROVE  Inv'
<1>1. PlaceInv'
  BY DEF Inv, PlaceInv, Finish
<1>2. TextInv' /\ ShownInv'
  BY DEF Inv, TextInv, ShownInv, Finish
<1>3. LabelInv'
  BY DEF Inv, LabelInv, CrashNeedsHaste, Finish
<1>4. CompleteInv'
  <2>1. taken = DoneLine => Least(taken) = Parts
    BY PartsAssumption DEF Least, DoneLine
  <2> QED
    BY <2>1 DEF Inv, CompleteInv, PlaceInv, AnswerComplete, Finish
<1> QED
  BY <1>1, <1>2, <1>3, <1>4 DEF Inv

\* Clearing the page takes all labels.
LEMMA ClearKeeps ==
    ASSUME Inv, Clear
    PROVE  Inv'
<1>1. PlaceInv'
  BY DEF Inv, PlaceInv, Clear, replyVars
<1>2. TextInv' /\ ShownInv'
  BY DEF Inv, TextInv, ShownInv, Clear, replyVars
<1>3. LabelInv'
  BY DEF Inv, LabelInv, CrashNeedsHaste, Clear, replyVars
<1>4. CompleteInv'
  BY DEF Inv, CompleteInv, AnswerComplete, Clear, replyVars
<1> QED
  BY <1>1, <1>2, <1>3, <1>4 DEF Inv

\* Before the first question there is nothing.
LEMMA InitInv == Init => Inv
<1> SUFFICES ASSUME Init PROVE Inv
  OBVIOUS
<1>1. PlaceInv
  <2>1. 0 \in 0..MaxQuestions /\ 0 \in 0..0 /\ 0 \in 0..DoneLine
    BY PartsAssumption DEF DoneLine
  <2> QED
    BY <2>1 DEF Init, PlaceInv
<1>2. TextInv /\ ShownInv
  <2>1. <<>> \in Seq(Piece)
    OBVIOUS
  <2> QED
    BY <2>1 DEF Init, TextInv, ShownInv, InOrderUpTo
<1>3. LabelInv /\ CompleteInv
  BY DEF Init, LabelInv, CrashNeedsHaste, CompleteInv, AnswerComplete
<1> QED
  BY <1>1, <1>2, <1>3 DEF Inv

\* One step per action.
LEMMA NextInv == Inv /\ [Next]_vars => Inv'
<1> SUFFICES ASSUME Inv, [Next]_vars PROVE Inv'
  OBVIOUS
<1>1. ASSUME NEW q \in Question, Send(q) PROVE Inv'
  BY <1>1, PostKeeps DEF Send, ghosts
<1>2. ASSUME NEW q \in Question, SendEarly(q) PROVE Inv'
  <2>1. hasty' = TRUE
    BY <1>2 DEF SendEarly, Ask, MaySend
  <2>2. CASE Post(q)
    BY <1>2, <2>1, <2>2, PostKeeps DEF SendEarly
  <2>3. CASE running' = FALSE /\ reply' = 0 /\ streaming' = FALSE
             /\ UNCHANGED <<taken, half, text, shown>>
    BY <1>2, <2>1, <2>3, EndKeeps DEF SendEarly
  <2> QED
    BY <1>2, <2>2, <2>3 DEF SendEarly
<1>3. ASSUME NEW last \in 0..DoneLine, NEW cut \in BOOLEAN, Read(last, cut) PROVE Inv'
  BY <1>3, ReadKeeps
<1>4. CASE Finish
  BY <1>4, FinishKeeps
<1>5. CASE Clear
  BY <1>5, ClearKeeps
<1>6. CASE UNCHANGED vars
  BY <1>6 DEF vars, replyVars, labelVars, ghosts, Inv, PlaceInv, TextInv, ShownInv,
     LabelInv, CompleteInv, CrashNeedsHaste, AnswerComplete
<1> QED
  BY <1>1, <1>2, <1>3, <1>4, <1>5, <1>6 DEF Next

\* What a label shows are pieces of its own answer, in order: for every
\* length of an answer, every way its lines come, and any conversation.
THEOREM PiecesAreOwn == Spec => []OwnPieces
<1>1. Inv => OwnPieces
  BY DEF Inv, ShownInv, InOrderUpTo, OwnPieces
<1> QED
  BY <1>1, InitInv, NextInv, PTL DEF Spec

\* An answer received to the end is shown whole, but for the three exceptions.
THEOREM AnswersAreWhole == Spec => []AnswerComplete
<1>1. Inv => AnswerComplete
  BY DEF Inv, CompleteInv
<1> QED
  BY <1>1, InitInv, NextInv, PTL DEF Spec

\* Without haste the process never meets a pointer that is not valid.
THEOREM OnlyHasteCrashes == Spec => []CrashNeedsHaste
<1>1. Inv => CrashNeedsHaste
  BY DEF Inv, LabelInv
<1> QED
  BY <1>1, InitInv, NextInv, PTL DEF Spec
=============================================================================
