------------------------------ MODULE LlmChat -------------------------------
(***************************************************************************)
(* LLMChatPage: a question is sent, and the answer streamed back in lines  *)
(* "data: {...}", closed by "data: [DONE]", is put together in the label   *)
(* that was made for it.  What one readyRead brings is split into lines as *)
(* it is, so a line that comes in two reads is lost.  Between [DONE] and   *)
(* the end of the reply the page takes a new question; then the old reply  *)
(* is aborted, which runs the handler of finished() inside abort(): it     *)
(* resets _currentReply, which is used next, and the label of the new      *)
(* answer.  Clearing the page deletes the labels, but not the pointer to   *)
(* the one being filled.  Both are undefined behaviour: the process ends,  *)
(* or nothing is seen of it.                                               *)
(*                                                                         *)
(* _chatHistory, the body of the request, decides no step and is left out. *)
(***************************************************************************)
EXTENDS Naturals, SequencesExt

CONSTANTS
    Parts,          \* lines of an answer that have a piece of its text
    MaxQuestions    \* bound: questions asked

ASSUME PartsAssumption == Parts \in Nat /\ MaxQuestions \in Nat

Question == 1..MaxQuestions
Piece == [of : Question, part : 1..Parts]
DoneLine == Parts + 1

VARIABLES
    running,     \* the process is alive
    asked,       \* questions so far
    streaming,   \* _isStreaming
    reply,       \* the question _currentReply answers; 0 is the null pointer
    label,       \* the question whose label _streamingContentLabel is; 0: null
    labels,      \* questions whose labels exist
    text,        \* _streamingResponse: its pieces
    shown,       \* the pieces in each label
    taken,       \* lines of the current reply that were read ...
    half,        \* ... and whether half of the next one was, too
    split,       \* ghost: questions with an answer that lost a line
    orphaned,    \* ghost: questions whose label was reset by an abort
    answered,    \* ghost: questions whose answer was received to the end
    hasty        \* ghost: cleared while streaming, or asked before the reply ended

replyVars == <<reply, taken, half>>
labelVars == <<label, labels, shown>>
ghosts == <<split, orphaned, answered, hasty>>
vars == <<running, asked, streaming, replyVars, labelVars, text, ghosts>>

TypeOK ==
    /\ running \in BOOLEAN /\ streaming \in BOOLEAN
    /\ asked \in 0..MaxQuestions
    /\ reply \in 0..asked /\ label \in 0..asked
    /\ labels \subseteq 1..asked
    /\ text \in Seq(Piece)
    /\ shown \in [Question -> Seq(Piece)]
    /\ taken \in 0..DoneLine /\ half \in BOOLEAN
    /\ split \subseteq 1..asked /\ orphaned \subseteq 1..asked
    /\ answered \subseteq 1..asked
    /\ hasty \in BOOLEAN

Init ==
    /\ running = TRUE
    /\ asked = 0
    /\ streaming = FALSE
    /\ reply = 0 /\ taken = 0 /\ half = FALSE
    /\ label = 0 /\ labels = {}
    /\ shown = [q \in Question |-> <<>>]
    /\ text = <<>>
    /\ split = {} /\ orphaned = {} /\ answered = {} /\ hasty = FALSE

------------------------------------------------------------------------------
\* onSendMessage, which is refused while an answer is streamed ...
AnyTime == TRUE   \* Mutant: nothing is refused.
MaySend == ~streaming

\* ... and callDeepSeekAPI.
KeptText == text   \* Mutant: what was streamed before stays.
ClearedText == <<>>

Ask(q) ==
    /\ running /\ MaySend
    /\ asked < MaxQuestions /\ q = asked + 1
    /\ asked' = q
    /\ labels' = labels \union {q}

Post(q) ==
    /\ reply' = q /\ taken' = 0 /\ half' = FALSE
    /\ streaming' = TRUE
    /\ text' = ClearedText
    /\ UNCHANGED <<running, shown>>

Send(q) ==
    /\ Ask(q) /\ reply = 0
    /\ Post(q)
    /\ label' = q
    /\ UNCHANGED ghosts

\* The old reply has not ended: abort() ends it, and the null pointer is used.
SendEarly(q) ==
    /\ Ask(q) /\ reply # 0
    /\ \/ Post(q)
       \/ /\ running' = FALSE
          /\ reply' = 0 /\ streaming' = FALSE
          /\ UNCHANGED <<taken, half, text, shown>>
    /\ label' = 0
    /\ orphaned' = orphaned \union {q}
    /\ hasty' = (hasty \/ ~streaming)
    /\ UNCHANGED <<split, answered>>

------------------------------------------------------------------------------
\* onStreamDataReady: lines up to last arrive, and half of the next if cut.  A
\* line whose first half was read before is lost; parseSSEData takes the others.
First == IF half THEN taken + 2 ELSE taken + 1

FirstOnly(last) == IF First <= last THEN First ELSE last   \* Mutant: one line is taken.
AllLines(last) == last

Pieces(upto) == [i \in 1..(IF upto = DoneLine THEN Parts ELSE upto) + 1 - First |->
                    [of |-> reply, part |-> First + i - 1]]

IsDone(upto) == First <= DoneLine /\ upto = DoneLine

\* setText on the label, if there is one; on a deleted one it may do anything.
SetText(new) ==
    \/ /\ new = <<>> \/ label = 0
       /\ UNCHANGED <<running, shown>>
    \/ /\ new # <<>> /\ label \in labels
       /\ shown' = [shown EXCEPT ![label] = text']
       /\ UNCHANGED running
    \/ /\ new # <<>> /\ label \notin labels \union {0}
       /\ running' \in BOOLEAN
       /\ UNCHANGED shown

Read(last, cut) ==
    /\ running /\ reply # 0
    /\ last \in taken..DoneLine
    /\ cut => last < DoneLine
    /\ last > taken \/ (cut /\ ~half)
    /\ taken' = last
    /\ half' = cut
    /\ split' = IF half /\ last > taken THEN split \union {reply} ELSE split
    /\ text' = text \o Pieces(AllLines(last))
    /\ SetText(Pieces(AllLines(last)))
    /\ \/ /\ IsDone(AllLines(last))
          /\ streaming' = FALSE
          /\ label' = 0
          /\ answered' = answered \union {reply}
       \/ /\ ~IsDone(AllLines(last))
          /\ UNCHANGED <<streaming, label, answered>>
    /\ UNCHANGED <<asked, reply, labels, orphaned, hasty>>

\* finished(), after all lines or with an error: onApiResponse.
Finish ==
    /\ running /\ reply # 0
    /\ answered' = IF taken = DoneLine THEN answered \union {reply} ELSE answered
    /\ streaming' = FALSE
    /\ label' = 0
    /\ reply' = 0
    /\ UNCHANGED <<running, asked, taken, half, labels, shown, text, split, orphaned, hasty>>

\* onClearChat; deleteLater deletes the labels before the next event.
Clear ==
    /\ running
    /\ labels' = {}
    /\ hasty' = (hasty \/ streaming)
    /\ UNCHANGED <<running, asked, streaming, replyVars, label, shown, text, split,
                   orphaned, answered>>

Next ==
    \/ \E q \in Question : Send(q) \/ SendEarly(q)
    \/ \E last \in 0..DoneLine, cut \in BOOLEAN : Read(last, cut)
    \/ Finish
    \/ Clear

Spec == Init /\ [][Next]_vars

------------------------------------------------------------------------------
\* What a label shows are pieces of its own answer, in order and each once.
OwnPieces == \A q \in Question : \A i \in DOMAIN shown[q] :
    /\ shown[q][i].of = q
    /\ i > 1 => shown[q][i - 1].part < shown[q][i].part

\* An answer that was received to the end is shown whole, unless a line of it
\* came in two reads, or its question was asked too early, or the page was
\* cleared.
AnswerComplete == \A q \in answered :
    \/ Len(shown[q]) = Parts
    \/ q \in split \union orphaned
    \/ q \notin labels

\* Only a user who clears the page while an answer is streamed, or asks between
\* [DONE] and the end of the reply, can meet a pointer that is not valid.
CrashNeedsHaste ==
    /\ ~running => hasty
    /\ label \in labels \union {0} \/ hasty
=============================================================================
