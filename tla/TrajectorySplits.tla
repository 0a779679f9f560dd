-------------------------- MODULE TrajectorySplits --------------------------
(***************************************************************************)
(* Conversations as sequences of messages, and the two ways they are cut   *)
(* up: into chunks by the storage actor when an episode is stored          *)
(* (validation/trajectory_splitter.py), and into one training row per      *)
(* answer by the trainer (verl/trainer/ppo/trajectory_splitter.py).        *)
(*                                                                         *)
(* A message is a role, the number of its text, and its images.  Frames    *)
(* are numbered by the step after which they were taken, answers in the    *)
(* order they were given.  Positions in comments count from 0, as in the   *)
(* code; sequences count from 1.                                           *)
(***************************************************************************)
EXTENDS Integers, SequencesExt

NoText == -1

SystemPrompt     == [role |-> "system", text |-> 0, images |-> <<>>]
Instruction(fs)  == [role |-> "user", text |-> 0, images |-> fs]
Image(n)         == [role |-> "user", text |-> NoText, images |-> <<n>>]
Answer(k)        == [role |-> "assistant", text |-> k, images |-> <<>>]

IsAnswer(m) == m.role = "assistant"
HasImage(m) == m.images # <<>>

\* dataset[a:b] of Python, for positions a <= b.
Slice(s, a, b) == SubSeq(s, a + 1, IF b <= Len(s) THEN b ELSE Len(s))

AtLeast(a, b) == IF a >= b THEN a ELSE b

\* The n-th smallest member of P.
Nth(P, n) == CHOOSE i \in P : Cardinality({j \in P : j <= i}) = n

\* The members of s at the positions P, in order.
At(s, P) == [n \in 1 .. Cardinality(P) |-> s[Nth(P, n)]]

\* [x for x in s if Test(x)] of Python.
Only(s, Test(_)) == At(s, {i \in DOMAIN s : Test(s[i])})

(***************************************************************************)
(* The trainer                                                             *)
(***************************************************************************)
\* Mutant: the images after the first `limit' are removed.
ImagesUpTo(s, i) == Cardinality({j \in 1 .. i : HasImage(s[j])})

\* Images of the messages from position i on; a message has at most one.
ImagesFrom(s, i) == Cardinality({j \in i .. Len(s) : HasImage(s[j])})

\* limit_images_in_messages: only the last `limit' images stay, and messages
\* that are left without content are dropped.
LimitImages(s, limit) ==
  LET Without(i) == IF ImagesFrom(s, i) > limit
                    THEN [s[i] EXCEPT !.images = <<>>] ELSE s[i]
  IN  Only([i \in DOMAIN s |-> Without(i)], LAMBDA m : HasImage(m) \/ m.text # NoText)

\* Mutant: one answer fewer.
ShortStart(end, messages) == AtLeast(end - messages * 2 + 1, 0)

\* Where the messages of a row begin.
PreStart(end, messages) == AtLeast(end - messages * 2 - 1, 0)

\* _process_item: the messages before `end', preceded by the system prompt
\* and the text of the instruction unless these are among them.
RowUpTo(dataset, end, images, messages) ==
  LET start == PreStart(end, messages)
      head  == IF start > 0 THEN <<dataset[1], Instruction(<<>>)>> ELSE <<>>
  IN  head \o LimitImages(Slice(dataset, start, end), images)

\* The positions range(start + 2, n_msg, 2).
RowEnds(n, start) == {e \in start + 2 .. n - 1 : (e - start) % 2 = 0}

\* split_dataset_id: one row per answer.
Rows(dataset, images, messages) ==
  {RowUpTo(dataset, e, images, messages) : e \in RowEnds(Len(dataset), 1)}

AnswerPositions(dataset) == {i \in 0 .. Len(dataset) - 1 : IsAnswer(dataset[i + 1])}

\* split_dataset_id_from_pt: of a failed trajectory only the answers after
\* the first `skip' (the mean length of the successes of its group); a row
\* carries the number, among the answers, of the last one it contains, under
\* which its log-probabilities and tokens are looked up.  `usable' are the
\* numbers where they are found and, if the row is built from them, can be
\* split into system and instruction; a row of any other number is left out.
RowsWithLogProbs(dataset, images, messages, skip, usable) ==
  LET answers == AnswerPositions(dataset)
      Index(i) == Cardinality({j \in answers : j < i})
      start    == IF skip = 0 THEN 1 ELSE Nth(answers, skip) + 1
      LastIn(e) == {i \in answers : PreStart(e, messages) <= i /\ i < e}
      Logp(e)   == Index(CHOOSE i \in LastIn(e) : \A j \in LastIn(e) : j <= i)
      Kept(e)   == LastIn(e) # {} /\ Logp(e) \in usable
  IN  IF skip > 0 /\ Cardinality(answers) <= skip THEN {}
      ELSE {[row |-> RowUpTo(dataset, e, images, messages), logp |-> Logp(e)]
              : e \in {x \in RowEnds(Len(dataset), start) : Kept(x)}}

(***************************************************************************)
(* The storage actor                                                       *)
(***************************************************************************)
\* The messages of a window; those of the first follow the instruction.
WindowStart(start) == IF start = 1 THEN start + 1 ELSE start

\* _process_item: the system prompt, the instruction (with its frame in the
\* first window only), the answers shortly before the window, and the window.
Chunk(dataset, start, end, texts) ==
  LET before == Only(Slice(dataset, AtLeast(start - texts * 2, 0), start), IsAnswer)
      first  == IF start = 1 THEN dataset[2] ELSE Instruction(<<>>)
  IN  <<dataset[1], first>> \o before \o Slice(dataset, WindowStart(start), end)

\* _split_trajectory: the starts of the windows of `window' turns, `stride'
\* turns apart, that fit (the last may lack its last message).
ChunkStarts(n, window, stride) ==
  {s \in 1 .. n : /\ (s - 1) % (2 * stride) = 0
                  /\ s + 2 * window <= n + 1 /\ n >= 3}

\* The chunks in order; `texts' answers are kept before a window.
Chunks(dataset, window, stride, texts) ==
  LET n == Cardinality(ChunkStarts(Len(dataset), window, stride))
      Start(i) == 1 + (i - 1) * 2 * stride
  IN  [i \in 1 .. n |-> Chunk(dataset, Start(i), Start(i) + 2 * window,
                              AtLeast(texts, 0))]
=============================================================================
