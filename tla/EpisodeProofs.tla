----------------------------- MODULE EpisodeProofs -----------------------------
(***************************************************************************)
(* Theorems about Episode, for every configuration of the window and the   *)
(* splitter and every number of steps: rows can be read back, the          *)
(* references of the window name its images, the window is the latest      *)
(* part of the conversation, and the rows and chunks the conversation is   *)
(* cut into are the prompts the model was given.                           *)
(***************************************************************************)
EXTENDS Episode, FiniteSetTheorems, FunctionTheorems, SequenceTheorems, TLAPS

\* Messages of a dialogue: an answer, or one frame.
Message == [role : {"user", "assistant"}, text : Int, images : {<<>>} \cup {<<n>> : n \in Nat}]

\* The types the argument needs.
Typed ==
  /\ cfg \in Configs /\ step \in Nat /\ Answered \in Nat
  /\ full \in Seq(Message)
  /\ row \in BOOLEAN
  /\ disk = [frames |-> disk.frames, partials |-> disk.partials, reward |-> disk.reward,
             final |-> disk.final, chunks |-> disk.chunks]

\* Every frame of the conversation is on disk before it is part of the conversation.
FramesStored ==
  /\ \A i \in DOMAIN full : \A n \in Range(full[i].images) : n \in disk.frames
  /\ pc \notin {"save_task_config", "env", "first_frame", "returned", "killed"} =>
       0 \in disk.frames

\* What is on disk when the coroutine is at a place.
Stored ==
  /\ pc \in {"save_episode", "split_episode", "insert"} => disk.reward
  /\ pc \in {"split_episode", "insert"} => disk.final = Conversation
  /\ pc = "insert" => Len(disk.chunks) = Len(TheChunks)

\* RowReadable is not inductive: it says nothing of the steps before the row is there,
\* and nothing keeps what it promises from being changed afterwards.
EpisodeInv ==
  /\ Typed
  /\ FramesStored
  /\ Stored
  /\ row => /\ pc = "returned"
            /\ 0 \in disk.frames
            /\ disk.reward /\ disk.final = Conversation
            /\ Len(disk.chunks) = Len(TheChunks)

LEMMA InitEpisode == Init => EpisodeInv
<1>. SUFFICES ASSUME Init PROVE EpisodeInv
  OBVIOUS
<1>1. /\ cfg \in Configs /\ step = 0 /\ row = FALSE /\ pc = "save_task_config"
      /\ full = <<>> /\ served = <<>>
      /\ disk = [frames |-> {}, partials |-> <<>>, reward |-> FALSE,
                 final |-> <<>>, chunks |-> <<>>]
  BY DEF Init
<1>2. full \in Seq(Message) /\ DOMAIN full = {}
  BY <1>1
<1>3. Answered \in Nat
  BY <1>1 DEF Answered
<1>4. Typed
  BY <1>1, <1>2, <1>3 DEF Typed
<1>. QED  BY <1>1, <1>2, <1>4 DEF EpisodeInv, FramesStored, Stored

\* Frames and answers are messages, and show what they are made of.
LEMMA MessageTypes ==
  ASSUME NEW n \in Nat
  PROVE  /\ Image(n) \in Message /\ Answer(n) \in Message
         /\ Range(Image(n).images) = {n} /\ Range(Answer(n).images) = {}
<1>1. Image(n) \in Message /\ Answer(n) \in Message
  BY DEF Image, Answer, Message, NoText
<1>2. Range(<<n>>) = {n} /\ Range(<<>>) = {}
  BY DEF Range
<1>. QED  BY <1>1, <1>2 DEF Image, Answer

\* The chunks are a sequence, and the first n of them are n.
LEMMA ChunksTyped ==
  ASSUME Typed, NEW n \in 0 .. Len(TheChunks)
  PROVE  Len(SubSeq(TheChunks, 1, n)) = n
<1>. DEFINE starts == ChunkStarts(Len(Conversation), cfg.window, cfg.stride)
            S == {TheChunks[i] : i \in 1 .. Cardinality(starts)}
<1>1. Conversation \in Seq({SystemPrompt, Instruction(<<0>>)} \cup Message)
  <2>1. <<SystemPrompt, Instruction(<<0>>)>>
          \in Seq({SystemPrompt, Instruction(<<0>>)} \cup Message)
    OBVIOUS
  <2>2. full \in Seq({SystemPrompt, Instruction(<<0>>)} \cup Message)
    BY DEF Typed
  <2>. QED  BY <2>1, <2>2, ConcatProperties DEF Conversation
<1>2. IsFiniteSet(starts)
  <2>1. Len(Conversation) \in Nat
    BY <1>1, LenProperties
  <2>2. IsFiniteSet(1 .. Len(Conversation))
    BY <2>1, FS_Interval
  <2>3. starts \subseteq 1 .. Len(Conversation)
    BY DEF ChunkStarts
  <2>. QED  BY <2>2, <2>3, FS_Subset
<1>3. Cardinality(starts) \in Nat
  BY <1>2, FS_CardinalityType
<1>4. TheChunks \in [1 .. Cardinality(starts) -> S]
  BY DEF TheChunks, Chunks
<1>5. TheChunks \in Seq(S)
  <2>. HIDE DEF S, starts
  <2>. QED  BY <1>3, <1>4, IsASeq
<1>. HIDE DEF S
<1>. QED  BY <1>5, SubSeqProperties, LenProperties

\* A message more is no frame more than it shows.
LEMMA FramesKept ==
  ASSUME NEW s \in Seq(Message), NEW m \in Message, NEW F, NEW G, F \subseteq G,
         \A i \in DOMAIN s : \A n \in Range(s[i].images) : n \in F,
         Range(m.images) \subseteq G
  PROVE  \A i \in DOMAIN Append(s, m) : \A n \in Range(Append(s, m)[i].images) : n \in G
<1>. TAKE i \in DOMAIN Append(s, m)
<1>1. CASE i \in DOMAIN s
  BY <1>1
<1>2. CASE i = Len(s) + 1
  BY <1>2
<1>. QED  BY <1>1, <1>2

\* Every step of the coroutine keeps the invariant.
LEMMA StepEpisode == EpisodeInv /\ [Next]_vars => EpisodeInv'
<1>. SUFFICES ASSUME EpisodeInv, [Next]_vars PROVE EpisodeInv'
  OBVIOUS
<1>. USE DEF EpisodeInv
<1>1. CASE ConfigSaved \/ EnvReady \/ LastStep \/ Ask \/ NoAnswer \/ Stepped \/ Raises \/ Killed
           \/ UNCHANGED vars
  <2>1. UNCHANGED <<full, disk, step, cfg, served>> /\ (row' = row)
    BY <1>1 DEF ConfigSaved, EnvReady, LastStep, Ask, NoAnswer, Stepped, Raises, Killed, vars
  <2>2. \/ pc' = pc
        \/ row = FALSE /\ pc' = "env"
        \/ row = FALSE /\ pc' = "first_frame"
        \/ row = FALSE /\ pc \in {"loop", "generate", "step"}
             /\ pc' \in {"generate", "step", "save_frame"}
        \/ row = FALSE /\ pc' \in {"returned", "killed"}
    BY <1>1 DEF ConfigSaved, EnvReady, LastStep, Ask, NoAnswer, Stepped, Raises, Killed, vars,
                Calls, Typed
  <2>3. Conversation' = Conversation /\ TheChunks' = TheChunks /\ Answered' = Answered
    BY <2>1 DEF Conversation, TheChunks, Answered
  <2>4. Typed'
    BY <2>1, <2>3 DEF Typed
  <2>5. FramesStored' /\ Stored'
    BY <2>1, <2>2, <2>3 DEF FramesStored, Stored
  <2>. QED  BY <2>1, <2>2, <2>3, <2>4, <2>5
<1>2. CASE FirstFrame
  <2>1. /\ pc = "first_frame" /\ pc' = "loop" /\ UNCHANGED <<cfg, step, full, served, row>>
        /\ disk' = [disk EXCEPT !.frames = disk.frames \cup {0}] /\ row = FALSE
    BY <1>2 DEF FirstFrame, Typed
  <2>. QED  BY <2>1 DEF Typed, FramesStored, Stored, Answered
<1>3. CASE Answers
  <2>. DEFINE k == Answered + 1
  <2>1. /\ pc = "generate" /\ pc' = "step" /\ UNCHANGED <<cfg, step, disk, row>> /\ row = FALSE
        /\ full' = Append(full, Answer(k)) /\ served' = Append(served, Prompt)
    BY <1>3 DEF Answers
  <2>2. k \in Nat
    BY DEF Typed
  <2>3. Answer(k) \in Message /\ Range(Answer(k).images) = {}
    BY <2>2, MessageTypes
  <2>4. FramesStored'
    BY <2>1, <2>3, FramesKept DEF FramesStored, Typed
  <2>5. full' \in Seq(Message) /\ Answered' \in Nat
    BY <2>1, <2>3 DEF Typed, Answered
  <2>. QED  BY <2>1, <2>4, <2>5 DEF Typed, Stored
<1>4. CASE SaveFrame
  <2>. DEFINE n == step + 1
  <2>1. /\ pc = "save_frame" /\ pc' = "save_partial_traj" /\ UNCHANGED <<cfg, step, served, row>>
        /\ disk' = [disk EXCEPT !.frames = disk.frames \cup {n}] /\ row = FALSE
        /\ full' = Append(full, Image(n))
    BY <1>4 DEF SaveFrame
  <2>2. n \in Nat
    BY DEF Typed
  <2>3. Image(n) \in Message /\ Range(Image(n).images) = {n}
    BY <2>2, MessageTypes
  <2>4. FramesStored'
    <3>1. disk'.frames = disk.frames \cup {n}
      BY <2>1 DEF Typed
    <3>2. \A i \in DOMAIN full' : \A x \in Range(full'[i].images) : x \in disk'.frames
      BY <2>1, <2>3, <3>1, FramesKept DEF FramesStored, Typed
    <3>. QED  BY <2>1, <3>1, <3>2 DEF FramesStored
  <2>5. full' \in Seq(Message) /\ Answered' = Answered
    BY <2>1, <2>3 DEF Typed, Answered
  <2>. QED  BY <2>1, <2>4, <2>5 DEF Typed, Stored
<1>5. CASE SavePartial
  <2>1. /\ pc = "save_partial_traj" /\ pc' \in {"returned", "loop", "save_reward"}
        /\ UNCHANGED <<cfg, full, served, row>> /\ row = FALSE
        /\ disk' = [disk EXCEPT !.partials = Append(disk.partials, Trajectory(win))]
        /\ step' = step \/ step' = step + 1
    BY <1>5 DEF SavePartial
  <2>2. disk'.frames = disk.frames /\ disk'.reward = disk.reward
    BY <2>1 DEF Typed
  <2>3. Typed'
    <3>1. /\ cfg' \in Configs /\ step' \in Nat /\ full' \in Seq(Message)
          /\ Answered' \in Nat /\ row' \in BOOLEAN
      BY <2>1 DEF Typed, Answered
    <3>. QED  BY <2>1, <3>1 DEF Typed
  <2>4. FramesStored'
    BY <2>1, <2>2 DEF FramesStored
  <2>. QED  BY <2>1, <2>3, <2>4 DEF Stored
<1>6. CASE SaveReward
  <2>1. /\ pc = "save_reward" /\ pc' = "save_episode" /\ UNCHANGED <<cfg, step, full, served, row>>
        /\ disk' = [disk EXCEPT !.reward = TRUE] /\ row = FALSE
    BY <1>6 DEF SaveReward
  <2>2. disk'.reward = TRUE /\ disk'.frames = disk.frames
    BY <2>1 DEF Typed
  <2>3. Typed'
    BY <2>1 DEF Typed, Answered
  <2>. QED  BY <2>1, <2>2, <2>3 DEF FramesStored, Stored
<1>7. CASE SaveEpisode
  <2>1. /\ pc = "save_episode" /\ pc' = "split_episode"
        /\ UNCHANGED <<cfg, step, full, served, row>>
        /\ disk' = [disk EXCEPT !.final = Conversation] /\ row = FALSE
    BY <1>7 DEF SaveEpisode
  <2>2. Conversation' = Conversation
    BY <2>1 DEF Conversation
  <2>. QED  BY <2>1, <2>2 DEF Typed, FramesStored, Stored, Answered
<1>8. CASE SplitEpisode
  <2>1. PICK n \in 0 .. Len(TheChunks) :
          /\ disk' = [disk EXCEPT !.chunks = SubSeq(TheChunks, 1, n)]
          /\ (AllWritten(n) /\ pc' = "insert") \/ pc' = "returned"
    BY <1>8 DEF SplitEpisode
  <2>2. pc = "split_episode" /\ UNCHANGED <<cfg, step, full, served, row>> /\ row = FALSE
    BY <1>8 DEF SplitEpisode
  <2>3. Conversation' = Conversation /\ TheChunks' = TheChunks
    BY <2>2 DEF Conversation, TheChunks
  <2>4. Len(disk'.chunks) = n
    BY <2>1, ChunksTyped DEF Typed
  <2>5. pc' = "insert" => Len(disk'.chunks) = Len(TheChunks)
    BY <2>1, <2>4 DEF AllWritten
  <2>. QED  BY <2>1, <2>2, <2>3, <2>5 DEF Typed, FramesStored, Stored, Answered
<1>9. CASE Insert
  <2>1. /\ pc = "insert" /\ pc' = "returned" /\ UNCHANGED <<cfg, step, full, served, disk>>
        /\ row' = cfg.model_pool
    BY <1>9 DEF Insert
  <2>2. row' \in BOOLEAN
    <3>1. cfg \in Config
      BY ConfigsAssumption DEF Typed
    <3>. QED  BY <2>1, <3>1 DEF Config
  <2>3. Conversation' = Conversation /\ TheChunks' = TheChunks
    BY <2>1 DEF Conversation, TheChunks
  <2>. QED  BY <2>1, <2>2, <2>3 DEF Typed, FramesStored, Stored, Answered
<1>. QED  BY <1>1, <1>2, <1>3, <1>4, <1>5, <1>6, <1>7, <1>8, <1>9 DEF Next

\* The whole conversation shows the first frame and those of its steps.
LEMMA FramesOfConversation ==
  ASSUME Typed, FramesStored, 0 \in disk.frames,
         NEW i \in DOMAIN Conversation, NEW n \in Range(Conversation[i].images)
  PROVE  n \in disk.frames
<1>. DEFINE base == <<SystemPrompt, Instruction(<<0>>)>>
<1>1. base \in Seq({SystemPrompt, Instruction(<<0>>)} \cup Message) /\ Len(base) = 2
  OBVIOUS
<1>2. full \in Seq({SystemPrompt, Instruction(<<0>>)} \cup Message)
  BY DEF Typed
<1>3. /\ i \in 1 .. Len(full) + 2
      /\ Conversation[i] = IF i <= 2 THEN base[i] ELSE full[i - 2]
  BY <1>1, <1>2, ConcatProperties DEF Conversation
<1>4. CASE i <= 2
  <2>1. Conversation[i] \in {SystemPrompt, Instruction(<<0>>)}
    BY <1>3, <1>4
  <2>2. Conversation[i].images \in {<<>>, <<0>>}
    BY <2>1 DEF SystemPrompt, Instruction
  <2>3. Range(<<>>) = {} /\ Range(<<0>>) = {0}
    BY DEF Range
  <2>. QED  BY <2>2, <2>3
<1>5. CASE i > 2
  BY <1>2, <1>3, <1>5 DEF FramesStored
<1>. QED  BY <1>3, <1>4, <1>5

LEMMA InvImplies == EpisodeInv => RowReadable
BY FramesOfConversation DEF EpisodeInv, RowReadable

\* A row in the database is an episode that can be read back, whatever the limits
\* of the window and the splitter: its reward, its conversation, every frame the
\* conversation names and all chunks were stored before the row was written.
THEOREM RowsReadable == Spec => []RowReadable
<1>. QED  BY InitEpisode, StepEpisode, InvImplies, PTL DEF Spec

(***************************************************************************)
(* Sets of positions.  The n-th smallest member of a finite set is what    *)
(* an increasing enumeration of the set has at n: facts about Nth follow by *)
(* naming the enumeration.                                                 *)
(***************************************************************************)
\* e lists the k members of P from the smallest to the greatest.
Lists(e, k, P) ==
  /\ k \in Nat /\ e \in [1 .. k -> P]
  /\ \A m, n \in 1 .. k : m < n => e[m] < e[n]
  /\ \A i \in P : \E m \in 1 .. k : e[m] = i

\* Of a list the n-th entry is the n-th smallest member.
LEMMA ListNth ==
  ASSUME NEW P \in SUBSET Int, NEW k, NEW e, Lists(e, k, P)
  PROVE  /\ IsFiniteSet(P) /\ Cardinality(P) = k
         /\ \A n \in 1 .. k : Nth(P, n) = e[n]
<1>1. /\ k \in Nat /\ e \in [1 .. k -> P]
      /\ \A m, n \in 1 .. k : m < n => e[m] < e[n]
      /\ \A i \in P : \E m \in 1 .. k : e[m] = i
  BY DEF Lists
<1>0. \A m \in 1 .. k : e[m] \in Int /\ m \in Int
  <2>1. \A m \in 1 .. k : e[m] \in P
    BY <1>1
  <2>2. \A m \in 1 .. k : m \in Int
    OBVIOUS
  <2>. QED  BY <2>1, <2>2
<1>2. \A m, n \in 1 .. k : e[m] <= e[n] <=> m <= n
  <2>. SUFFICES ASSUME NEW m \in 1 .. k, NEW n \in 1 .. k PROVE e[m] <= e[n] <=> m <= n
    OBVIOUS
  <2>1. e[m] \in Int /\ e[n] \in Int /\ m \in Int /\ n \in Int
    BY <1>0
  <2>2. m < n \/ m = n \/ n < m
    BY <2>1
  <2>. QED  BY <1>1, <2>1, <2>2
<1>3. \A m, n \in 1 .. k : e[m] = e[n] => m = n
  <2>. SUFFICES ASSUME NEW m \in 1 .. k, NEW n \in 1 .. k, e[m] = e[n] PROVE m = n
    OBVIOUS
  <2>1. e[m] \in Int /\ e[n] \in Int /\ m \in Int /\ n \in Int
    BY <1>0
  <2>2. m <= n /\ n <= m
    BY <1>2, <2>1
  <2>. QED  BY <2>1, <2>2
<1>4. ASSUME NEW n \in 0 .. k PROVE Cardinality({e[x] : x \in 1 .. n}) = n
  <2>. DEFINE f == [x \in 1 .. n |-> e[x]]
              R == {e[x] : x \in 1 .. n}
  <2>1. 1 .. n \subseteq 1 .. k /\ n \in Nat
    BY <1>1
  <2>2. f \in [1 .. n -> R] /\ (\A x, y \in 1 .. n : f[x] = f[y] => x = y)
        /\ \A r \in R : \E x \in 1 .. n : f[x] = r
    BY <1>3, <2>1
  <2>3. f \in Injection(1 .. n, R) /\ f \in Surjection(1 .. n, R)
    <3>. HIDE DEF f, R
    <3>. QED  BY <2>2, Fun_IsInj, Fun_IsSurj
  <2>4. ExistsBijection(1 .. n, R)
    BY <2>3 DEF ExistsBijection, Bijection
  <2>5. IsFiniteSet(1 .. n) /\ Cardinality(1 .. n) = n
    BY <2>1, FS_Interval
  <2>. QED  BY <2>4, <2>5, FS_Bijection
<1>5. P = {e[x] : x \in 1 .. k}
  BY <1>1
<1>6. Cardinality(P) = k
  <2>1. k \in 0 .. k
    BY <1>1
  <2>. QED  BY <1>4, <1>5, <2>1
<1>7. IsFiniteSet(P)
  <2>1. [x \in 1 .. k |-> e[x]] \in Surjection(1 .. k, P)
    BY <1>1, Fun_IsSurj
  <2>2. IsFiniteSet(1 .. k)
    BY <1>1, FS_Interval
  <2>. QED  BY <2>1, <2>2, FS_Surjection
<1>8. ASSUME NEW n \in 1 .. k PROVE Cardinality({j \in P : j <= e[n]}) = n
  <2>1. {j \in P : j <= e[n]} = {e[x] : x \in 1 .. n}
    <3>1. n \in Nat /\ 1 .. n \subseteq 1 .. k
      BY <1>1
    <3>2. ASSUME NEW j \in P, j <= e[n] PROVE \E x \in 1 .. n : j = e[x]
      <4>1. PICK x \in 1 .. k : e[x] = j
        BY <1>1
      <4>2. x <= n
        BY <1>2, <3>2, <4>1
      <4>. QED  BY <3>1, <4>1, <4>2
    <3>3. ASSUME NEW x \in 1 .. n PROVE e[x] \in P /\ e[x] <= e[n]
      BY <1>1, <1>2, <3>1
    <3>. QED  BY <3>2, <3>3
  <2>2. n \in 0 .. k
    BY <1>1
  <2>. QED  BY <1>4, <2>1, <2>2
<1>9. ASSUME NEW n \in 1 .. k PROVE Nth(P, n) = e[n]
  <2>1. e[n] \in P /\ Cardinality({j \in P : j <= e[n]}) = n
    BY <1>1, <1>8
  <2>2. ASSUME NEW i \in P, Cardinality({j \in P : j <= i}) = n PROVE i = e[n]
    <3>1. PICK x \in 1 .. k : e[x] = i
      BY <1>1
    <3>2. Cardinality({j \in P : j <= e[x]}) = x
      BY <1>8
    <3>. QED  BY <2>2, <3>1, <3>2
  <2>. QED  BY <2>1, <2>2 DEF Nth
<1>. QED  BY <1>6, <1>7, <1>9

\* Every finite set of numbers is listed by Nth.
LEMMA NthLists ==
  ASSUME NEW P \in SUBSET Int, IsFiniteSet(P)
  PROVE  Lists([n \in 1 .. Cardinality(P) |-> Nth(P, n)], Cardinality(P), P)
<1>. DEFINE k == Cardinality(P)
            UpTo(i) == {j \in P : j <= i}
            f == [i \in P |-> Cardinality(UpTo(i))]
<1>1. k \in Nat
  BY FS_CardinalityType
<1>2. \A i \in P : IsFiniteSet(UpTo(i)) /\ Cardinality(UpTo(i)) \in Nat /\ Cardinality(UpTo(i)) <= k
  <2>. SUFFICES ASSUME NEW i \in P
                PROVE  /\ IsFiniteSet(UpTo(i)) /\ Cardinality(UpTo(i)) \in Nat
                       /\ Cardinality(UpTo(i)) <= k
    OBVIOUS
  <2>1. UpTo(i) \in SUBSET P
    OBVIOUS
  <2>. HIDE DEF UpTo
  <2>. QED  BY <2>1, FS_Subset, FS_CardinalityType
<1>3. \A i, j \in P : i < j => f[i] < f[j]
  <2>. SUFFICES ASSUME NEW i \in P, NEW j \in P, i < j PROVE f[i] < f[j]
    OBVIOUS
  <2>1. UpTo(i) \in SUBSET UpTo(j) /\ j \in UpTo(j) /\ j \notin UpTo(i)
    <3>1. i \in Int /\ j \in Int /\ \A x \in P : x \in Int
      OBVIOUS
    <3>2. \A x \in P : x <= i => x <= j
      BY <3>1
    <3>3. ~(j <= i) /\ j <= j
      BY <3>1
    <3>. QED  BY <3>2, <3>3
  <2>2. f[i] = Cardinality(UpTo(i)) /\ f[j] = Cardinality(UpTo(j))
    OBVIOUS
  <2>3. IsFiniteSet(UpTo(j)) /\ Cardinality(UpTo(i)) \in Nat /\ Cardinality(UpTo(j)) \in Nat
    BY <1>2
  <2>. HIDE DEF UpTo, f
  <2>4. Cardinality(UpTo(i)) <= Cardinality(UpTo(j)) /\ Cardinality(UpTo(j)) # Cardinality(UpTo(i))
    BY <2>1, <2>3, FS_Subset
  <2>. QED  BY <2>2, <2>3, <2>4
<1>4. \A i \in P : f[i] \in 1 .. k
  <2>. SUFFICES ASSUME NEW i \in P PROVE f[i] \in 1 .. k
    OBVIOUS
  <2>1. i \in UpTo(i) /\ f[i] = Cardinality(UpTo(i)) /\ IsFiniteSet(UpTo(i))
        /\ Cardinality(UpTo(i)) \in Nat /\ Cardinality(UpTo(i)) <= k
    BY <1>2
  <2>. HIDE DEF UpTo, f, k
  <2>2. UpTo(i) # {}
    BY <2>1
  <2>3. Cardinality(UpTo(i)) # 0
    BY <2>1, <2>2, FS_EmptySet
  <2>. QED  BY <1>1, <2>1, <2>3
<1>5. \A i, j \in P : f[i] = f[j] => i = j
  <2>. SUFFICES ASSUME NEW i \in P, NEW j \in P, f[i] = f[j] PROVE i = j
    OBVIOUS
  <2>1. i \in Int /\ j \in Int /\ f[i] \in Int /\ f[j] \in Int
    BY <1>4
  <2>. HIDE DEF f
  <2>. QED  BY <1>3, <2>1
<1>6. f \in Surjection(P, 1 .. k)
  <2>1. f \in Injection(P, 1 .. k)
    <3>1. f \in [P -> 1 .. k]
      BY <1>4
    <3>. HIDE DEF f, k
    <3>. QED  BY <1>5, <3>1, Fun_IsInj
  <2>2. IsFiniteSet(1 .. k) /\ Cardinality(1 .. k) = k
    <3>. HIDE DEF k
    <3>. QED  BY <1>1, FS_Interval
  <2>. HIDE DEF f
  <2>. QED  BY <2>1, <2>2, FS_Injection
<1>7. \A n \in 1 .. k : Nth(P, n) \in P /\ f[Nth(P, n)] = n
  <2>. SUFFICES ASSUME NEW n \in 1 .. k PROVE Nth(P, n) \in P /\ f[Nth(P, n)] = n
    OBVIOUS
  <2>1. PICK i \in P : f[i] = n
    <3>. HIDE DEF f, k
    <3>. QED  BY <1>6 DEF Surjection
  <2>2. \E x \in P : Cardinality({j \in P : j <= x}) = n
    BY <2>1
  <2>3. Nth(P, n) \in P /\ Cardinality({j \in P : j <= Nth(P, n)}) = n
    BY <2>2 DEF Nth
  <2>. QED  BY <2>3
<1>. DEFINE e == [n \in 1 .. k |-> Nth(P, n)]
<1>8. e \in [1 .. k -> P] /\ \A n \in 1 .. k : e[n] \in P /\ f[e[n]] = n
  BY <1>7
<1>. HIDE DEF f, e
<1>9. \A m, n \in 1 .. k : m < n => e[m] < e[n]
  <2>. SUFFICES ASSUME NEW m \in 1 .. k, NEW n \in 1 .. k, m < n PROVE e[m] < e[n]
    OBVIOUS
  <2>1. e[m] \in P /\ e[n] \in P /\ f[e[m]] = m /\ f[e[n]] = n /\ e[m] \in Int /\ e[n] \in Int
    BY <1>8
  <2>2. ~(e[n] < e[m]) /\ e[n] # e[m]
    BY <1>1, <1>3, <2>1
  <2>. QED  BY <2>1, <2>2
<1>10. \A i \in P : \E m \in 1 .. k : e[m] = i
  <2>. SUFFICES ASSUME NEW i \in P PROVE \E m \in 1 .. k : e[m] = i
    OBVIOUS
  <2>1. f[i] \in 1 .. k
    BY <1>4
  <2>2. e[f[i]] \in P /\ f[e[f[i]]] = f[i]
    BY <1>8, <2>1
  <2>. QED  BY <1>5, <2>1, <2>2
<1>. QED  BY <1>1, <1>8, <1>9, <1>10 DEF Lists, e

\* The entries of Nth, as facts about numbers.
LEMMA NthFacts ==
  ASSUME NEW P \in SUBSET Int, IsFiniteSet(P)
  PROVE  /\ Cardinality(P) \in Nat
         /\ \A n \in 1 .. Cardinality(P) : Nth(P, n) \in P
         /\ \A m, n \in 1 .. Cardinality(P) : m < n => Nth(P, m) < Nth(P, n)
         /\ \A i \in P : \E n \in 1 .. Cardinality(P) : Nth(P, n) = i
<1>. DEFINE e == [n \in 1 .. Cardinality(P) |-> Nth(P, n)]
<1>1. Lists(e, Cardinality(P), P)
  BY NthLists
<1>2. \A n \in 1 .. Cardinality(P) : e[n] = Nth(P, n)
  OBVIOUS
<1>. HIDE DEF e
<1>. QED  BY <1>1, <1>2 DEF Lists

\* A greater number comes last.
LEMMA NthAdded ==
  ASSUME NEW P \in SUBSET Int, IsFiniteSet(P), NEW q \in Int, \A i \in P : i < q
  PROVE  /\ IsFiniteSet(P \cup {q}) /\ Cardinality(P \cup {q}) = Cardinality(P) + 1
         /\ \A n \in 1 .. Cardinality(P) : Nth(P \cup {q}, n) = Nth(P, n)
         /\ Nth(P \cup {q}, Cardinality(P) + 1) = q
<1>. DEFINE k == Cardinality(P)
            Q == P \cup {q}
            e == [n \in 1 .. k + 1 |-> IF n <= k THEN Nth(P, n) ELSE q]
<1>1. /\ k \in Nat
      /\ \A n \in 1 .. k : Nth(P, n) \in P
      /\ \A m, n \in 1 .. k : m < n => Nth(P, m) < Nth(P, n)
      /\ \A i \in P : \E n \in 1 .. k : Nth(P, n) = i
  BY NthFacts
<1>. HIDE DEF k
<1>2. /\ \A n \in 1 .. k : n \in 1 .. k + 1 /\ e[n] = Nth(P, n) /\ e[n] \in P
      /\ k + 1 \in 1 .. k + 1 /\ e[k + 1] = q
  BY <1>1
<1>3. e \in [1 .. k + 1 -> Q]
  BY <1>1
<1>4. \A m, n \in 1 .. k + 1 : m < n => m \in 1 .. k /\ (n \in 1 .. k \/ n = k + 1)
  BY <1>1
<1>. HIDE DEF e
<1>5. \A m, n \in 1 .. k + 1 : m < n => e[m] < e[n]
  <2>. SUFFICES ASSUME NEW m \in 1 .. k + 1, NEW n \in 1 .. k + 1, m < n PROVE e[m] < e[n]
    OBVIOUS
  <2>1. CASE n \in 1 .. k
    BY <1>1, <1>2, <1>4, <2>1
  <2>2. CASE n = k + 1
    <3>1. e[m] \in P /\ e[n] = q
      BY <1>2, <1>4, <2>2
    <3>. QED  BY <3>1
  <2>. QED  BY <1>4, <2>1, <2>2
<1>6. \A i \in Q : \E m \in 1 .. k + 1 : e[m] = i
  BY <1>1, <1>2
<1>7. Lists(e, k + 1, Q) /\ Q \in SUBSET Int
  BY <1>1, <1>3, <1>5, <1>6 DEF Lists
<1>. HIDE DEF Q
<1>8. IsFiniteSet(Q) /\ Cardinality(Q) = k + 1 /\ \A n \in 1 .. k + 1 : Nth(Q, n) = e[n]
  BY <1>7, ListNth
<1>. QED  BY <1>2, <1>8 DEF Q, k

\* Without the m-th number the later ones move up.
LEMMA NthRemoved ==
  ASSUME NEW P \in SUBSET Int, IsFiniteSet(P), NEW m \in 1 .. Cardinality(P)
  PROVE  LET Q == P \ {Nth(P, m)}
         IN  /\ IsFiniteSet(Q) /\ Cardinality(Q) = Cardinality(P) - 1
             /\ \A n \in 1 .. Cardinality(P) - 1 :
                  Nth(Q, n) = IF n < m THEN Nth(P, n) ELSE Nth(P, n + 1)
<1>. DEFINE k == Cardinality(P)
            Q == P \ {Nth(P, m)}
            e == [n \in 1 .. k - 1 |-> IF n < m THEN Nth(P, n) ELSE Nth(P, n + 1)]
<1>1. /\ k \in Nat
      /\ \A n \in 1 .. k : Nth(P, n) \in P
      /\ \A l, n \in 1 .. k : l < n => Nth(P, l) < Nth(P, n)
      /\ \A i \in P : \E n \in 1 .. k : Nth(P, n) = i
  BY NthFacts
<1>0. m \in 1 .. k
  OBVIOUS
<1>. HIDE DEF k
<1>2. \A l, n \in 1 .. k : l # n => Nth(P, l) # Nth(P, n)
  <2>. SUFFICES ASSUME NEW l \in 1 .. k, NEW n \in 1 .. k, l # n PROVE Nth(P, l) # Nth(P, n)
    OBVIOUS
  <2>1. Nth(P, l) \in P /\ Nth(P, n) \in P
    BY <1>1
  <2>2. Nth(P, l) \in Int /\ Nth(P, n) \in Int
    BY <2>1
  <2>3. l < n \/ n < l
    BY <1>1
  <2>. QED  BY <1>1, <2>2, <2>3
<1>3. \A n \in 1 .. k - 1 : /\ n \in 1 .. k /\ n + 1 \in 1 .. k
                            /\ e[n] = IF n < m THEN Nth(P, n) ELSE Nth(P, n + 1)
  BY <1>1
<1>4. e \in [1 .. k - 1 -> Q]
  <2>. SUFFICES ASSUME NEW n \in 1 .. k - 1 PROVE e[n] \in Q
    OBVIOUS
  <2>1. PICK x \in 1 .. k : e[n] = Nth(P, x) /\ x # m
    BY <1>0, <1>3
  <2>. HIDE DEF e
  <2>. QED  BY <1>0, <1>1, <1>2, <2>1
<1>5. \A a, b \in 1 .. k - 1 : a < b => e[a] < e[b]
  <2>. SUFFICES ASSUME NEW a \in 1 .. k - 1, NEW b \in 1 .. k - 1, a < b PROVE e[a] < e[b]
    OBVIOUS
  <2>1. PICK x \in 1 .. k, y \in 1 .. k : e[a] = Nth(P, x) /\ e[b] = Nth(P, y) /\ x < y
    <3>. DEFINE x == IF a < m THEN a ELSE a + 1
                y == IF b < m THEN b ELSE b + 1
    <3>1. x \in 1 .. k /\ y \in 1 .. k /\ x < y
      BY <1>0, <1>1
    <3>2. e[a] = Nth(P, x) /\ e[b] = Nth(P, y)
      BY <1>3
    <3>. HIDE DEF x, y, e
    <3>. QED  BY <3>1, <3>2
  <2>. HIDE DEF e
  <2>. QED  BY <1>1, <2>1
<1>6. \A i \in Q : \E n \in 1 .. k - 1 : e[n] = i
  <2>. SUFFICES ASSUME NEW i \in Q PROVE \E n \in 1 .. k - 1 : e[n] = i
    OBVIOUS
  <2>1. PICK x \in 1 .. k : Nth(P, x) = i
    BY <1>1
  <2>2. x # m
    BY <2>1
  <2>3. CASE x < m
    <3>1. x \in 1 .. k - 1
      BY <1>0, <1>1, <2>3
    <3>2. e[x] = i
      BY <1>3, <2>1, <2>3, <3>1
    <3>. QED  BY <3>1, <3>2
  <2>4. CASE m < x
    <3>1. x - 1 \in 1 .. k - 1 /\ ~(x - 1 < m) /\ x - 1 + 1 = x
      BY <1>0, <1>1, <2>4
    <3>2. e[x - 1] = i
      BY <1>3, <2>1, <3>1
    <3>. QED  BY <3>1, <3>2
  <2>. QED  BY <1>0, <2>2, <2>3, <2>4
<1>7. k - 1 \in Nat /\ Q \in SUBSET Int
  <2>1. k \in Nat
    BY <1>1
  <2>2. k - 1 \in Nat
    BY <1>0, <2>1
  <2>. QED  BY <2>2
<1>8. Lists(e, k - 1, Q)
  <2>. HIDE DEF e, Q
  <2>. QED  BY <1>4, <1>5, <1>6, <1>7 DEF Lists
<1>9. IsFiniteSet(Q) /\ Cardinality(Q) = k - 1 /\ \A n \in 1 .. k - 1 : Nth(Q, n) = e[n]
  <2>. HIDE DEF e, Q
  <2>. QED  BY <1>7, <1>8, ListNth
<1>. QED  BY <1>3, <1>9 DEF k

\* A map that keeps the order keeps the places.
LEMMA NthMapped ==
  ASSUME NEW P \in SUBSET Int, IsFiniteSet(P), NEW Q \in SUBSET Int, NEW g \in [P -> Q],
         \A i, j \in P : i < j => g[i] < g[j],
         \A q \in Q : \E i \in P : g[i] = q
  PROVE  /\ IsFiniteSet(Q) /\ Cardinality(Q) = Cardinality(P)
         /\ \A n \in 1 .. Cardinality(P) : Nth(Q, n) = g[Nth(P, n)]
<1>. DEFINE k == Cardinality(P)
            e == [n \in 1 .. k |-> g[Nth(P, n)]]
<1>1. /\ k \in Nat
      /\ \A n \in 1 .. k : Nth(P, n) \in P
      /\ \A l, n \in 1 .. k : l < n => Nth(P, l) < Nth(P, n)
      /\ \A i \in P : \E n \in 1 .. k : Nth(P, n) = i
  BY NthFacts
<1>. HIDE DEF k
<1>2. e \in [1 .. k -> Q] /\ \A n \in 1 .. k : e[n] = g[Nth(P, n)]
  BY <1>1
<1>. HIDE DEF e
<1>3. Lists(e, k, Q)
  <2>1. ASSUME NEW m \in 1 .. k, NEW n \in 1 .. k, m < n
        PROVE  e[m] < e[n]
    <3>1. Nth(P, m) \in P /\ Nth(P, n) \in P /\ Nth(P, m) < Nth(P, n)
      BY <1>1, <2>1
    <3>2. g[Nth(P, m)] < g[Nth(P, n)]
      BY <3>1
    <3>. QED  BY <1>2, <3>2
  <2>2. ASSUME NEW i \in Q
        PROVE  \E m \in 1 .. k : e[m] = i
    <3>1. PICK p \in P : g[p] = i
      OBVIOUS
    <3>2. PICK m \in 1 .. k : Nth(P, m) = p
      BY <1>1
    <3>3. e[m] = i
      BY <1>2, <3>1, <3>2
    <3>. QED  BY <3>3
  <2>. QED  BY <1>1, <1>2, <2>1, <2>2 DEF Lists
<1>4. IsFiniteSet(Q) /\ Cardinality(Q) = k /\ \A n \in 1 .. k : Nth(Q, n) = e[n]
  BY <1>3, ListNth
<1>. QED  BY <1>2, <1>4 DEF k

(***************************************************************************)
(* Messages at a set of positions: one position more or less is one        *)
(* message more or less, and the messages behind move up.                  *)
(***************************************************************************)
\* At is the sequence of the members at the positions.
LEMMA AtSeq ==
  ASSUME NEW P \in SUBSET Int, IsFiniteSet(P), NEW s, \A i \in P : s[i] \in Message
  PROVE  /\ At(s, P) \in Seq(Message) /\ Len(At(s, P)) = Cardinality(P)
         /\ \A n \in 1 .. Cardinality(P) : At(s, P)[n] = s[Nth(P, n)] /\ Nth(P, n) \in P
<1>1. Cardinality(P) \in Nat /\ \A n \in 1 .. Cardinality(P) : Nth(P, n) \in P
  BY NthFacts
<1>2. \A n \in 1 .. Cardinality(P) : s[Nth(P, n)] \in Message
  BY <1>1
<1>3. [n \in 1 .. Cardinality(P) |-> s[Nth(P, n)]] \in Seq(Message)
  BY <1>1, <1>2, IsASeq
<1>. QED  BY <1>1, <1>3 DEF At

\* Only what stands at the positions matters.
LEMMA AtSame ==
  ASSUME NEW P \in SUBSET Int, IsFiniteSet(P), NEW s, NEW t, \A i \in P : s[i] = t[i]
  PROVE  At(s, P) = At(t, P)
<1>1. \A n \in 1 .. Cardinality(P) : Nth(P, n) \in P
  BY NthFacts
<1>. QED  BY <1>1 DEF At

\* A position behind the others adds its member at the end.
LEMMA AtAdded ==
  ASSUME NEW P \in SUBSET Int, IsFiniteSet(P), NEW q \in Int, \A i \in P : i < q,
         NEW s, \A i \in P \cup {q} : s[i] \in Message
  PROVE  At(s, P \cup {q}) = Append(At(s, P), s[q])
<1>. DEFINE Q == P \cup {q}
            k == Cardinality(P)
<1>1. /\ IsFiniteSet(Q) /\ Cardinality(Q) = k + 1
      /\ \A n \in 1 .. k : Nth(Q, n) = Nth(P, n)
      /\ Nth(Q, k + 1) = q
  BY NthAdded
<1>2. k \in Nat /\ Q \in SUBSET Int /\ s[q] \in Message /\ \A i \in Q : s[i] \in Message
  BY NthFacts
<1>3. /\ At(s, P) \in Seq(Message) /\ Len(At(s, P)) = k
      /\ \A n \in 1 .. k : At(s, P)[n] = s[Nth(P, n)]
  BY AtSeq
<1>4. /\ At(s, Q) \in Seq(Message) /\ Len(At(s, Q)) = k + 1
      /\ \A n \in 1 .. k + 1 : At(s, Q)[n] = s[Nth(Q, n)]
  <2>. HIDE DEF k, Q
  <2>1. /\ At(s, Q) \in Seq(Message) /\ Len(At(s, Q)) = Cardinality(Q)
        /\ \A n \in 1 .. Cardinality(Q) : At(s, Q)[n] = s[Nth(Q, n)]
    BY <1>1, <1>2, AtSeq
  <2>. QED  BY <1>1, <2>1
<1>. HIDE DEF Q, k
<1>5. /\ Append(At(s, P), s[q]) \in Seq(Message) /\ Len(Append(At(s, P), s[q])) = k + 1
      /\ \A n \in 1 .. k : Append(At(s, P), s[q])[n] = At(s, P)[n]
      /\ Append(At(s, P), s[q])[k + 1] = s[q]
  BY <1>2, <1>3, AppendProperties
<1>6. ASSUME NEW n \in 1 .. k + 1 PROVE At(s, Q)[n] = Append(At(s, P), s[q])[n]
  <2>1. CASE n \in 1 .. k
    BY <1>1, <1>3, <1>4, <1>5, <2>1
  <2>2. CASE n = k + 1
    BY <1>1, <1>4, <1>5, <2>2
  <2>3. k \in Nat
    BY <1>2
  <2>4. n \in 1 .. k \/ n = k + 1
    BY <2>3
  <2>. QED  BY <2>1, <2>2, <2>4
<1>7. At(s, Q) = Append(At(s, P), s[q])
  BY <1>4, <1>5, <1>6, SeqEqual
<1>. QED  BY <1>7 DEF Q

\* RemoveAt, by position.
LEMMA RemoveAtProperties ==
  ASSUME NEW S, NEW s \in Seq(S), NEW m \in 1 .. Len(s)
  PROVE  /\ RemoveAt(s, m) \in Seq(S) /\ Len(RemoveAt(s, m)) = Len(s) - 1
         /\ \A n \in 1 .. Len(s) - 1 :
              RemoveAt(s, m)[n] = IF n < m THEN s[n] ELSE s[n + 1]
<1>. DEFINE k == Len(s)
            a == SubSeq(s, 1, m - 1)
            b == SubSeq(s, m + 1, k)
<1>1. k \in Nat /\ m \in 1 .. k /\ \A i \in 1 .. k : s[i] \in S
  BY LenProperties
<1>2. /\ a \in Seq(S) /\ Len(a) = m - 1 /\ \A i \in 1 .. m - 1 : a[i] = s[i]
  <2>1. 1 \in Int /\ m - 1 \in Int /\ \A i \in 1 .. m - 1 : s[i] \in S
    BY <1>1
  <2>2. /\ a \in Seq(S) /\ Len(a) = (IF 1 <= m - 1 THEN (m - 1) - 1 + 1 ELSE 0)
        /\ \A i \in 1 .. (m - 1) - 1 + 1 : a[i] = s[1 + i - 1]
    <3>. HIDE DEF k
    <3>. QED  BY <2>1, SubSeqProperties
  <2>. QED  BY <1>1, <2>2
<1>3. /\ b \in Seq(S) /\ Len(b) = k - m /\ \A i \in 1 .. k - m : b[i] = s[m + i]
  <2>1. m + 1 \in Int /\ k \in Int /\ \A i \in m + 1 .. k : s[i] \in S
    BY <1>1
  <2>2. /\ b \in Seq(S) /\ Len(b) = (IF m + 1 <= k THEN k - (m + 1) + 1 ELSE 0)
        /\ \A i \in 1 .. k - (m + 1) + 1 : b[i] = s[(m + 1) + i - 1]
    <3>. HIDE DEF k
    <3>. QED  BY <2>1, SubSeqProperties
  <2>. QED  BY <1>1, <2>2
<1>4. RemoveAt(s, m) = a \o b
  BY DEF RemoveAt
<1>. HIDE DEF k, a, b
<1>5. /\ a \o b \in Seq(S) /\ Len(a \o b) = k - 1
      /\ \A i \in 1 .. k - 1 : (a \o b)[i] = IF i <= m - 1 THEN a[i] ELSE b[i - (m - 1)]
  <2>1. Len(a) + Len(b) = k - 1
    BY <1>1, <1>2, <1>3
  <2>. QED  BY <1>2, <1>3, <2>1, ConcatProperties
<1>6. ASSUME NEW n \in 1 .. k - 1 PROVE (a \o b)[n] = IF n < m THEN s[n] ELSE s[n + 1]
  <2>1. CASE n < m
    <3>1. n \in 1 .. m - 1 /\ n <= m - 1
      BY <1>1, <2>1
    <3>. QED  BY <1>2, <1>5, <2>1, <3>1
  <2>2. CASE ~(n < m)
    <3>1. n - (m - 1) \in 1 .. k - m /\ ~(n <= m - 1) /\ m + (n - (m - 1)) = n + 1
      BY <1>1, <2>2
    <3>. QED  BY <1>3, <1>5, <2>2, <3>1
  <2>. QED  BY <2>1, <2>2
<1>. QED  BY <1>4, <1>5, <1>6 DEF k

\* Removing the m-th member leaves the members at the other positions.
LEMMA AtRemoved ==
  ASSUME NEW P \in SUBSET Int, IsFiniteSet(P), NEW s, \A i \in P : s[i] \in Message,
         NEW m \in 1 .. Cardinality(P)
  PROVE  RemoveAt(At(s, P), m) = At(s, P \ {Nth(P, m)})
<1>. DEFINE Q == P \ {Nth(P, m)}
            k == Cardinality(P)
<1>0. k \in Nat
  BY NthFacts
<1>1. /\ IsFiniteSet(Q) /\ Cardinality(Q) = k - 1
      /\ \A n \in 1 .. k - 1 : Nth(Q, n) = IF n < m THEN Nth(P, n) ELSE Nth(P, n + 1)
  BY NthRemoved
<1>2. Q \in SUBSET Int /\ (\A i \in Q : s[i] \in Message) /\ m \in 1 .. k
  OBVIOUS
<1>3. /\ At(s, P) \in Seq(Message) /\ Len(At(s, P)) = k
      /\ \A n \in 1 .. k : At(s, P)[n] = s[Nth(P, n)]
  BY AtSeq
<1>. HIDE DEF Q, k
<1>4. /\ At(s, Q) \in Seq(Message) /\ Len(At(s, Q)) = k - 1
      /\ \A n \in 1 .. k - 1 : At(s, Q)[n] = s[Nth(Q, n)]
  <2>0. IsFiniteSet(Q) /\ Q \in SUBSET Int /\ \A i \in Q : s[i] \in Message
    BY <1>1, <1>2
  <2>1. /\ At(s, Q) \in Seq(Message) /\ Len(At(s, Q)) = Cardinality(Q)
        /\ \A n \in 1 .. Cardinality(Q) : At(s, Q)[n] = s[Nth(Q, n)]
    BY <2>0, AtSeq
  <2>. QED  BY <1>1, <2>1
<1>5. /\ RemoveAt(At(s, P), m) \in Seq(Message) /\ Len(RemoveAt(At(s, P), m)) = k - 1
      /\ \A n \in 1 .. k - 1 :
           RemoveAt(At(s, P), m)[n] = IF n < m THEN At(s, P)[n] ELSE At(s, P)[n + 1]
  BY <1>2, <1>3, RemoveAtProperties
<1>6. ASSUME NEW n \in 1 .. k - 1 PROVE RemoveAt(At(s, P), m)[n] = At(s, Q)[n]
  <2>1. n \in 1 .. k /\ n + 1 \in 1 .. k
    BY <1>0
  <2>. QED  BY <1>1, <1>3, <1>4, <1>5, <2>1
<1>7. RemoveAt(At(s, P), m) = At(s, Q)
  BY <1>4, <1>5, <1>6, SeqEqual
<1>. QED  BY <1>7 DEF Q

\* E are the members of D, less m, once place m is gone and the later ones have moved up.
MoveUp(L, m, D, E) ==
  \A n \in 1 .. L - 1 : n \in E <=> IF n < m THEN n \in D ELSE n + 1 \in D

\* What is left of a set of places when place m goes and the later ones move up.
LEMMA PlacesShifted ==
  ASSUME NEW L \in Nat, NEW D \in SUBSET (1 .. L), NEW m \in 1 .. L,
         NEW E \in SUBSET (1 .. L - 1),
         MoveUp(L, m, D, E)
  PROVE  /\ IsFiniteSet(D) /\ IsFiniteSet(D \ {m}) /\ Cardinality(E) = Cardinality(D \ {m})
         /\ \A n \in 1 .. Cardinality(E) :
              Nth(E, n) = IF Nth(D \ {m}, n) > m THEN Nth(D \ {m}, n) - 1 ELSE Nth(D \ {m}, n)
<1>. DEFINE P == D \ {m}
            g == [i \in P |-> IF i > m THEN i - 1 ELSE i]
<1>0. \A n \in 1 .. L - 1 : n \in E <=> IF n < m THEN n \in D ELSE n + 1 \in D
  BY DEF MoveUp
<1>1. IsFiniteSet(D) /\ IsFiniteSet(P) /\ P \in SUBSET Int /\ E \in SUBSET Int
  <2>1. IsFiniteSet(1 .. L)
    BY FS_Interval
  <2>2. IsFiniteSet(D)
    BY <2>1, FS_Subset
  <2>3. P \in SUBSET D /\ P \in SUBSET Int /\ E \in SUBSET Int
    OBVIOUS
  <2>. HIDE DEF P
  <2>. QED  BY <2>2, <2>3, FS_Subset
<1>2. \A i \in P : i \in 1 .. L /\ i \in D /\ (i < m \/ i > m)
  OBVIOUS
<1>3. g \in [P -> E]
  <2>. SUFFICES ASSUME NEW i \in P PROVE (IF i > m THEN i - 1 ELSE i) \in E
    OBVIOUS
  <2>1. CASE i > m
    <3>1. i - 1 \in 1 .. L - 1 /\ ~(i - 1 < m) /\ (i - 1) + 1 = i
      BY <1>2, <2>1
    <3>. QED  BY <1>0, <1>2, <2>1, <3>1
  <2>2. CASE i < m
    <3>1. i \in 1 .. L - 1 /\ ~(i > m)
      BY <1>2, <2>2
    <3>. QED  BY <1>0, <1>2, <2>2, <3>1
  <2>. QED  BY <1>2, <2>1, <2>2
<1>4. \A i, j \in P : i < j => g[i] < g[j]
  BY <1>2
<1>5. \A q \in E : \E i \in P : g[i] = q
  <2>. SUFFICES ASSUME NEW q \in E PROVE \E i \in P : g[i] = q
    OBVIOUS
  <2>1. q \in 1 .. L - 1
    OBVIOUS
  <2>2. CASE q < m
    <3>1. q \in P /\ ~(q > m)
      BY <1>0, <2>1, <2>2
    <3>2. g[q] = q
      BY <3>1
    <3>. QED  BY <3>1, <3>2
  <2>3. CASE ~(q < m)
    <3>1. q + 1 \in D /\ q + 1 > m /\ (q + 1) - 1 = q
      BY <1>0, <2>1, <2>3
    <3>2. q + 1 \in P
      BY <3>1
    <3>3. g[q + 1] = q
      BY <3>1, <3>2
    <3>. QED  BY <3>2, <3>3
  <2>. QED  BY <2>2, <2>3
<1>6. \A n \in 1 .. Cardinality(P) : g[Nth(P, n)] =
        IF Nth(P, n) > m THEN Nth(P, n) - 1 ELSE Nth(P, n)
  BY <1>1, NthFacts
<1>. HIDE DEF P, g
<1>7. Cardinality(E) = Cardinality(P) /\ \A n \in 1 .. Cardinality(P) : Nth(E, n) = g[Nth(P, n)]
  BY <1>1, <1>3, <1>4, <1>5, NthMapped
<1>. QED  BY <1>1, <1>6, <1>7 DEF P

\* The first place that shows a member of R shows the smallest of them.
LEMMA FirstPlace ==
  ASSUME NEW P \in SUBSET Int, IsFiniteSet(P), NEW R \in SUBSET P,
         NEW q \in R, \A p \in R : q <= p,
         NEW m \in 1 .. Cardinality(P), Nth(P, m) \in R,
         \A j \in 1 .. Cardinality(P) : Nth(P, j) \in R => m <= j
  PROVE  Nth(P, m) = q
<1>1. /\ Cardinality(P) \in Nat
      /\ \A l, n \in 1 .. Cardinality(P) : l < n => Nth(P, l) < Nth(P, n)
      /\ \A i \in P : \E n \in 1 .. Cardinality(P) : Nth(P, n) = i
  BY NthFacts
<1>2. PICK x \in 1 .. Cardinality(P) : Nth(P, x) = q
  BY <1>1
<1>3. m <= x
  BY <1>2
<1>4. ~(m < x)
  <2>1. q \in Int /\ Nth(P, m) \in Int /\ q <= Nth(P, m)
    OBVIOUS
  <2>. QED  BY <1>1, <1>2, <2>1
<1>5. m = x
  BY <1>1, <1>3, <1>4
<1>. QED  BY <1>2, <1>5

\* The places that show a member of R are as many as R.
LEMMA PlacesCount ==
  ASSUME NEW P \in SUBSET Int, IsFiniteSet(P), NEW R \in SUBSET P
  PROVE  LET D == {n \in 1 .. Cardinality(P) : Nth(P, n) \in R}
         IN  IsFiniteSet(D) /\ IsFiniteSet(R) /\ Cardinality(D) = Cardinality(R)
<1>. DEFINE k == Cardinality(P)
            D == {n \in 1 .. k : Nth(P, n) \in R}
            g == [n \in D |-> Nth(P, n)]
<1>1. /\ k \in Nat
      /\ \A l, n \in 1 .. k : l < n => Nth(P, l) < Nth(P, n)
      /\ \A i \in P : \E n \in 1 .. k : Nth(P, n) = i
  BY NthFacts
<1>. HIDE DEF k
<1>2. IsFiniteSet(1 .. k) /\ D \in SUBSET (1 .. k)
  BY <1>1, FS_Interval
<1>3. /\ D \in SUBSET Int /\ R \in SUBSET Int /\ g \in [D -> R]
      /\ \A i, j \in D : i < j => g[i] < g[j]
      /\ \A q \in R : \E i \in D : g[i] = q
  BY <1>1, <1>2
<1>. HIDE DEF D, g
<1>4. IsFiniteSet(D)
  BY <1>2, FS_Subset
<1>5. IsFiniteSet(R) /\ Cardinality(R) = Cardinality(D)
  BY <1>3, <1>4, NthMapped
<1>. QED  BY <1>4, <1>5 DEF D, k

\* The first number is the smallest.
LEMMA NthFirst ==
  ASSUME NEW D \in SUBSET Int, IsFiniteSet(D), D # {}
  PROVE  /\ Cardinality(D) \in Nat \ {0} /\ 1 \in 1 .. Cardinality(D)
         /\ Nth(D, 1) \in D /\ \A i \in D : Nth(D, 1) <= i
<1>1. /\ Cardinality(D) \in Nat
      /\ \A n \in 1 .. Cardinality(D) : Nth(D, n) \in D
      /\ \A l, n \in 1 .. Cardinality(D) : l < n => Nth(D, l) < Nth(D, n)
      /\ \A i \in D : \E n \in 1 .. Cardinality(D) : Nth(D, n) = i
  BY NthFacts
<1>2. Cardinality(D) # 0
  BY FS_EmptySet
<1>3. Cardinality(D) \in Nat \ {0} /\ 1 \in 1 .. Cardinality(D)
  BY <1>1, <1>2
<1>4. ASSUME NEW i \in D PROVE Nth(D, 1) <= i
  <2>1. PICK n \in 1 .. Cardinality(D) : Nth(D, n) = i
    BY <1>1
  <2>2. n = 1 \/ 1 < n
    BY <1>3
  <2>3. Nth(D, 1) \in Int /\ i \in Int
    BY <1>1, <1>3
  <2>. QED  BY <1>1, <1>3, <2>1, <2>2, <2>3
<1>. QED  BY <1>1, <1>3, <1>4

\* All members of a sequence, in order, are the sequence.
LEMMA AtAll ==
  ASSUME NEW S, NEW s \in Seq(S)
  PROVE  At(s, 1 .. Len(s)) = s
<1>. DEFINE k == Len(s)
            e == [n \in 1 .. k |-> n]
<1>1. k \in Nat /\ s \in [1 .. k -> S]
  BY LenProperties
<1>. HIDE DEF k
<1>2. Lists(e, k, 1 .. k) /\ 1 .. k \in SUBSET Int
  BY <1>1 DEF Lists
<1>3. \A n \in 1 .. k : e[n] = n
  OBVIOUS
<1>. HIDE DEF e
<1>4. Cardinality(1 .. k) = k /\ \A n \in 1 .. k : Nth(1 .. k, n) = n
  BY <1>2, <1>3, ListNth
<1>. QED  BY <1>1, <1>4 DEF At, k

(***************************************************************************)
(* The window: its references are the first frame's, if it is still there, *)
(* and those of its images in order.  Trimming keeps this.                 *)
(***************************************************************************)
\* A reference, and the state of a window.
Ref == [source : {"base", "dialogue"}, msg_idx : Nat]
Window == [base_images : {<<>>, <<0>>}, prompt_dialogue : Seq(Message),
           save_dialogue : Seq(Message), image_refs : Seq(Ref)]

\* The images of a dialogue, the references to them, and the one to the first frame.
Images(d) == {i \in DOMAIN d : HasImage(d[i])}
RefList(D) == [n \in 1 .. Cardinality(D) |-> DialogueRef(Nth(D, n))]
BaseRefs(b) == IF b = <<>> THEN <<>> ELSE <<BaseRef>>

LEMMA RefListSeq ==
  ASSUME NEW D \in SUBSET Nat, IsFiniteSet(D)
  PROVE  /\ RefList(D) \in Seq(Ref) /\ Len(RefList(D)) = Cardinality(D)
         /\ \A n \in 1 .. Cardinality(D) : RefList(D)[n] = DialogueRef(Nth(D, n)) /\ Nth(D, n) \in D
<1>1. D \in SUBSET Int
  OBVIOUS
<1>2. Cardinality(D) \in Nat /\ \A n \in 1 .. Cardinality(D) : Nth(D, n) \in D
  BY <1>1, NthFacts
<1>3. \A n \in 1 .. Cardinality(D) : DialogueRef(Nth(D, n)) \in Ref
  BY <1>2 DEF DialogueRef, Ref
<1>4. [n \in 1 .. Cardinality(D) |-> DialogueRef(Nth(D, n))] \in Seq(Ref)
  BY <1>2, <1>3, IsASeq
<1>. QED  BY <1>2, <1>4 DEF RefList

LEMMA BaseRefsSeq ==
  ASSUME NEW b
  PROVE  /\ BaseRefs(b) \in Seq(Ref) /\ Len(BaseRefs(b)) = (IF b = <<>> THEN 0 ELSE 1)
         /\ \A j \in 1 .. Len(BaseRefs(b)) : BaseRefs(b)[j] = BaseRef
<1>1. CASE b = <<>>
  BY <1>1 DEF BaseRefs
<1>2. CASE b # <<>>
  <2>1. BaseRefs(b) = <<BaseRef>> /\ BaseRef \in Ref
    BY <1>2 DEF BaseRefs, BaseRef, Ref
  <2>. QED  BY <1>2, <2>1
<1>. QED  BY <1>1, <1>2

LEMMA ImagesFinite ==
  ASSUME NEW d \in Seq(Message)
  PROVE  /\ Images(d) \in SUBSET (1 .. Len(d)) /\ IsFiniteSet(Images(d))
         /\ Images(d) \in SUBSET Nat /\ Texts(d) \in SUBSET (1 .. Len(d)) /\ IsFiniteSet(Texts(d))
<1>1. Len(d) \in Nat /\ DOMAIN d = 1 .. Len(d)
  BY LenProperties
<1>2. Images(d) \in SUBSET (1 .. Len(d)) /\ Texts(d) \in SUBSET (1 .. Len(d))
  BY <1>1 DEF Images, Texts
<1>3. IsFiniteSet(1 .. Len(d))
  BY <1>1, FS_Interval
<1>. QED  BY <1>1, <1>2, <1>3, FS_Subset

\* What the references of a window are.
LEMMA RefsOfWindow ==
  ASSUME NEW b, NEW D \in SUBSET Nat, IsFiniteSet(D)
  PROVE  LET r == BaseRefs(b) \o RefList(D)
             l == Len(BaseRefs(b))
         IN  /\ r \in Seq(Ref) /\ Len(r) = l + Cardinality(D) /\ DOMAIN r = 1 .. l + Cardinality(D)
             /\ l \in Nat /\ Cardinality(D) \in Nat
             /\ \A j \in 1 .. l + Cardinality(D) :
                  \/ j \in 1 .. l /\ r[j] = BaseRef
                  \/ /\ ~(j <= l) /\ j - l \in 1 .. Cardinality(D)
                     /\ Nth(D, j - l) \in D /\ r[j] = DialogueRef(Nth(D, j - l))
<1>. DEFINE B == BaseRefs(b)
            X == RefList(D)
            l == Len(B)
            k == Cardinality(D)
<1>1. B \in Seq(Ref) /\ l \in Nat /\ \A j \in 1 .. l : B[j] = BaseRef
  BY BaseRefsSeq
<1>2. /\ X \in Seq(Ref) /\ Len(X) = k /\ k \in Nat
      /\ \A n \in 1 .. k : X[n] = DialogueRef(Nth(D, n)) /\ Nth(D, n) \in D
  BY RefListSeq, FS_CardinalityType
<1>. HIDE DEF B, X, l, k
<1>3. /\ B \o X \in Seq(Ref) /\ Len(B \o X) = l + k
      /\ \A j \in 1 .. l + k : (B \o X)[j] = IF j <= l THEN B[j] ELSE X[j - l]
  BY <1>1, <1>2, ConcatProperties DEF l
<1>4. \A j \in 1 .. l + k : (j <= l => j \in 1 .. l) /\ (~(j <= l) => j - l \in 1 .. k)
  BY <1>1, <1>2
<1>5. DOMAIN (B \o X) = 1 .. l + k
  BY <1>3, LenProperties
<1>6. \A j \in 1 .. l + k :
                  \/ j \in 1 .. l /\ (B \o X)[j] = BaseRef
                  \/ /\ ~(j <= l) /\ j - l \in 1 .. k
                     /\ Nth(D, j - l) \in D /\ (B \o X)[j] = DialogueRef(Nth(D, j - l))
  BY <1>1, <1>2, <1>3, <1>4
<1>. QED  BY <1>1, <1>2, <1>3, <1>5, <1>6 DEF B, X, l, k

\* _remove_dialogue_msg keeps the references that are left in step with the dialogue.
LEMMA RemoveMsgKeeps ==
  ASSUME NEW w \in Window, NEW m \in 1 .. Len(w.prompt_dialogue), NEW b,
         w.save_dialogue = w.prompt_dialogue,
         w.image_refs = BaseRefs(b) \o RefList(Images(w.prompt_dialogue) \ {m})
  PROVE  LET v == RemoveMsg(w, m)
             d == RemoveAt(w.prompt_dialogue, m)
         IN  /\ v \in Window /\ v.base_images = w.base_images
             /\ v.prompt_dialogue = d /\ v.save_dialogue = d
             /\ v.image_refs = BaseRefs(b) \o RefList(Images(d))
<1>. DEFINE p == w.prompt_dialogue
            d == RemoveAt(p, m)
            D == Images(p)
            P == D \ {m}
            E == Images(d)
            r == w.image_refs
            l == Len(BaseRefs(b))
            k == Cardinality(P)
            v == RemoveMsg(w, m)
            t == BaseRefs(b) \o RefList(E)
<1>1. p \in Seq(Message) /\ r \in Seq(Ref) /\ Len(p) \in Nat /\ m \in 1 .. Len(p)
  BY LenProperties DEF Window
<1>2. /\ d \in Seq(Message) /\ Len(d) = Len(p) - 1
      /\ \A n \in 1 .. Len(p) - 1 : d[n] = IF n < m THEN p[n] ELSE p[n + 1]
  BY <1>1, RemoveAtProperties
<1>3. /\ D \in SUBSET (1 .. Len(p)) /\ D \in SUBSET Nat /\ IsFiniteSet(D)
      /\ E \in SUBSET (1 .. Len(d)) /\ E \in SUBSET Nat /\ IsFiniteSet(E)
  BY <1>1, <1>2, ImagesFinite
<1>4. MoveUp(Len(p), m, D, E)
  <2>1. DOMAIN d = 1 .. Len(p) - 1 /\ DOMAIN p = 1 .. Len(p)
    BY <1>1, <1>2, LenProperties
  <2>2. \A n \in 1 .. Len(p) - 1 : n \in 1 .. Len(p) /\ n + 1 \in 1 .. Len(p)
    BY <1>1
  <2>3. \A n \in 1 .. Len(p) - 1 : n \in E <=> HasImage(d[n])
    BY <2>1 DEF Images
  <2>4. \A n \in 1 .. Len(p) : n \in D <=> HasImage(p[n])
    BY <2>1 DEF Images
  <2>. QED  BY <1>2, <2>2, <2>3, <2>4 DEF MoveUp
<1>. HIDE DEF p, d, D, E, r, v
<1>5. /\ IsFiniteSet(P) /\ Cardinality(E) = k
      /\ \A n \in 1 .. k : Nth(E, n) = IF Nth(P, n) > m THEN Nth(P, n) - 1 ELSE Nth(P, n)
  <2>1. E \in SUBSET (1 .. Len(p) - 1)
    BY <1>2, <1>3
  <2>2. /\ IsFiniteSet(P) /\ Cardinality(E) = Cardinality(P)
        /\ \A n \in 1 .. Cardinality(E) :
             Nth(E, n) = IF Nth(P, n) > m THEN Nth(P, n) - 1 ELSE Nth(P, n)
    <3>1. D \in SUBSET (1 .. Len(p)) /\ Len(p) \in Nat /\ m \in 1 .. Len(p)
      BY <1>1, <1>3
    <3>. QED  BY <1>4, <2>1, <3>1, PlacesShifted
  <2>. QED  BY <2>2
<1>6. P \in SUBSET Nat /\ r = BaseRefs(b) \o RefList(P)
  BY <1>3 DEF r, D, p
<1>. HIDE DEF k, l
<1>7. /\ r \in Seq(Ref) /\ Len(r) = l + k /\ DOMAIN r = 1 .. l + k
      /\ l \in Nat /\ k \in Nat
      /\ \A j \in 1 .. l + k :
           \/ j \in 1 .. l /\ r[j] = BaseRef
           \/ /\ ~(j <= l) /\ j - l \in 1 .. k
              /\ Nth(P, j - l) \in P /\ r[j] = DialogueRef(Nth(P, j - l))
  <2>. HIDE DEF P
  <2>. QED  BY <1>5, <1>6, RefsOfWindow DEF k, l
<1>8. \A j \in 1 .. l + k : r[j] # DialogueRef(m)
  BY <1>7 DEF BaseRef, DialogueRef
<1>9. Only(r, LAMBDA x : x # DialogueRef(m)) = r
  <2>1. {j \in DOMAIN r : r[j] # DialogueRef(m)} = 1 .. Len(r)
    BY <1>7, <1>8
  <2>. QED  BY <1>7, <2>1, AtAll DEF Only
<1>10. v = [w EXCEPT !.prompt_dialogue = RemoveAt(p, m),
                     !.save_dialogue = RemoveAt(w.save_dialogue, m),
                     !.image_refs = [j \in DOMAIN r |-> Moved(r[j], m)]]
  BY <1>9 DEF RemoveMsg, v, r, p
<1>11. /\ t \in Seq(Ref) /\ Len(t) = l + k /\ DOMAIN t = 1 .. l + k
       /\ \A j \in 1 .. l + k :
            \/ j \in 1 .. l /\ t[j] = BaseRef
            \/ /\ ~(j <= l) /\ j - l \in 1 .. k /\ t[j] = DialogueRef(Nth(E, j - l))
  <2>1. /\ t \in Seq(Ref) /\ Len(t) = l + Cardinality(E) /\ DOMAIN t = 1 .. l + Cardinality(E)
        /\ \A j \in 1 .. l + Cardinality(E) :
             \/ j \in 1 .. l /\ t[j] = BaseRef
             \/ /\ ~(j <= l) /\ j - l \in 1 .. Cardinality(E) /\ t[j] = DialogueRef(Nth(E, j - l))
    BY <1>3, RefsOfWindow DEF l
  <2>. QED  BY <1>5, <2>1
<1>. HIDE DEF t
<1>12. \A j \in 1 .. l + k : Moved(r[j], m) = t[j]
  <2>. SUFFICES ASSUME NEW j \in 1 .. l + k PROVE Moved(r[j], m) = t[j]
    OBVIOUS
  <2>1. CASE j \in 1 .. l
    <3>1. r[j] = BaseRef /\ t[j] = BaseRef
      BY <1>7, <1>11, <2>1
    <3>. QED  BY <3>1 DEF Moved, BaseRef
  <2>2. CASE ~(j <= l)
    <3>1. /\ r[j] = DialogueRef(Nth(P, j - l)) /\ t[j] = DialogueRef(Nth(E, j - l))
          /\ j - l \in 1 .. k
      <4>1. j \notin 1 .. l
        BY <2>2
      <4>. QED  BY <1>7, <1>11, <4>1
    <3>2. Nth(E, j - l) = IF Nth(P, j - l) > m THEN Nth(P, j - l) - 1 ELSE Nth(P, j - l)
      BY <1>5, <3>1
    <3>. QED  BY <3>1, <3>2 DEF Moved, DialogueRef
  <2>. QED  BY <1>7, <2>1, <2>2
<1>13. [j \in DOMAIN r |-> Moved(r[j], m)] = t
  <2>1. t = [j \in 1 .. l + k |-> t[j]]
    BY <1>11, LenProperties
  <2>. QED  BY <1>7, <1>12, <2>1
<1>14. /\ v = [w EXCEPT !.prompt_dialogue = d, !.save_dialogue = d, !.image_refs = t]
  BY <1>10, <1>13 DEF d, p
<1>15. /\ v \in Window /\ v.base_images = w.base_images /\ v.prompt_dialogue = d
       /\ v.save_dialogue = d /\ v.image_refs = t
  BY <1>2, <1>11, <1>14 DEF Window
<1>. QED  BY <1>15 DEF v, d, p, E, t

LEMMA RefListTail ==
  ASSUME NEW D \in SUBSET Nat, IsFiniteSet(D), D # {}
  PROVE  /\ RefList(D) # <<>> /\ Head(RefList(D)) = DialogueRef(Nth(D, 1))
         /\ Tail(RefList(D)) = RefList(D \ {Nth(D, 1)})
<1>. DEFINE k == Cardinality(D)
            P == D \ {Nth(D, 1)}
            s == RefList(D)
<1>1. k \in Nat \ {0} /\ 1 \in 1 .. k /\ Nth(D, 1) \in D
  <2>1. D \in SUBSET Int
    OBVIOUS
  <2>. QED  BY <2>1, NthFirst
<1>2. /\ s \in Seq(Ref) /\ Len(s) = k
      /\ \A n \in 1 .. k : s[n] = DialogueRef(Nth(D, n))
  BY RefListSeq
<1>3. s # <<>> /\ Head(s) = s[1]
  <2>1. Len(s) # 0
    BY <1>1, <1>2
  <2>. HIDE DEF s
  <2>. QED  BY <1>2, <2>1, EmptySeq
<1>4. /\ IsFiniteSet(P) /\ Cardinality(P) = k - 1 /\ P \in SUBSET Nat
      /\ \A n \in 1 .. k - 1 : Nth(P, n) = Nth(D, n + 1)
  <2>1. D \in SUBSET Int
    OBVIOUS
  <2>2. /\ IsFiniteSet(P) /\ Cardinality(P) = k - 1
        /\ \A n \in 1 .. k - 1 : Nth(P, n) = IF n < 1 THEN Nth(D, n) ELSE Nth(D, n + 1)
    BY <1>1, <2>1, NthRemoved
  <2>3. \A n \in 1 .. k - 1 : ~(n < 1)
    BY <1>1
  <2>. QED  BY <2>2, <2>3
<1>. HIDE DEF P, k, s
<1>5. /\ RefList(P) \in Seq(Ref) /\ Len(RefList(P)) = k - 1
      /\ \A n \in 1 .. k - 1 : RefList(P)[n] = DialogueRef(Nth(P, n))
  <2>1. /\ RefList(P) \in Seq(Ref) /\ Len(RefList(P)) = Cardinality(P)
        /\ \A n \in 1 .. Cardinality(P) : RefList(P)[n] = DialogueRef(Nth(P, n))
    BY <1>4, RefListSeq
  <2>. QED  BY <1>4, <2>1
<1>6. /\ Tail(s) \in Seq(Ref) /\ Len(Tail(s)) = k - 1 /\ \A n \in 1 .. k - 1 : Tail(s)[n] = s[n + 1]
  BY <1>2, <1>3, HeadTailProperties
<1>7. \A n \in 1 .. k - 1 : n + 1 \in 1 .. k
  BY <1>1
<1>8. \A n \in 1 .. k - 1 : Tail(s)[n] = RefList(P)[n]
  BY <1>2, <1>4, <1>5, <1>6, <1>7
<1>9. Tail(s) = RefList(P)
  BY <1>5, <1>6, <1>8, SeqEqual
<1>. QED  BY <1>1, <1>2, <1>3, <1>9 DEF s, P

\* The places of images and answers in the dialogue made of the messages at P.
LEMMA PlacesShown ==
  ASSUME NEW P \in SUBSET Int, IsFiniteSet(P), NEW s, \A i \in P : s[i] \in Message
  PROVE  LET d == At(s, P)
             R == {p \in P : HasImage(s[p])}
             T == {p \in P : IsAnswer(s[p])}
         IN  /\ d \in Seq(Message) /\ Len(d) = Cardinality(P) /\ Cardinality(P) \in Nat
             /\ Images(d) = {n \in 1 .. Cardinality(P) : Nth(P, n) \in R}
             /\ Texts(d) = {n \in 1 .. Cardinality(P) : Nth(P, n) \in T}
             /\ Cardinality(Images(d)) = Cardinality(R)
             /\ Cardinality(Texts(d)) = Cardinality(T)
<1>. DEFINE d == At(s, P)
            R == {p \in P : HasImage(s[p])}
            T == {p \in P : IsAnswer(s[p])}
<1>1. /\ d \in Seq(Message) /\ Len(d) = Cardinality(P)
      /\ \A n \in 1 .. Cardinality(P) : d[n] = s[Nth(P, n)] /\ Nth(P, n) \in P
  BY AtSeq
<1>2. DOMAIN d = 1 .. Cardinality(P) /\ Cardinality(P) \in Nat
  <2>. HIDE DEF d
  <2>. QED  BY <1>1, LenProperties
<1>3. Images(d) = {n \in 1 .. Cardinality(P) : Nth(P, n) \in R}
  BY <1>1, <1>2 DEF Images
<1>4. Texts(d) = {n \in 1 .. Cardinality(P) : Nth(P, n) \in T}
  BY <1>1, <1>2 DEF Texts
<1>5. R \in SUBSET P /\ T \in SUBSET P
  OBVIOUS
<1>. HIDE DEF d, R, T
<1>6. /\ Cardinality({n \in 1 .. Cardinality(P) : Nth(P, n) \in R}) = Cardinality(R)
      /\ Cardinality({n \in 1 .. Cardinality(P) : Nth(P, n) \in T}) = Cardinality(T)
  BY <1>5, PlacesCount
<1>. QED  BY <1>1, <1>2, <1>3, <1>4, <1>6 DEF d, R, T

\* The window w shows the messages of s at the positions P, and its references name them.
Shows(w, s, P) ==
  /\ w \in Window
  /\ w.prompt_dialogue = At(s, P)
  /\ w.save_dialogue = w.prompt_dialogue
  /\ w.image_refs = BaseRefs(w.base_images) \o RefList(Images(w.prompt_dialogue))

\* How many images it shows, the first frame included, and how many answers.
LEMMA ShowsCount ==
  ASSUME NEW P \in SUBSET Int, IsFiniteSet(P), NEW s, \A i \in P : s[i] \in Message,
         NEW w, Shows(w, s, P)
  PROVE  /\ Len(w.image_refs) = (IF w.base_images = <<>> THEN 0 ELSE 1)
                                 + Cardinality({p \in P : HasImage(s[p])})
         /\ Cardinality(Texts(w.prompt_dialogue)) = Cardinality({p \in P : IsAnswer(s[p])})
<1>. DEFINE d == At(s, P)
            D == Images(d)
<1>1. /\ d \in Seq(Message)
      /\ Cardinality(D) = Cardinality({p \in P : HasImage(s[p])})
      /\ Cardinality(Texts(d)) = Cardinality({p \in P : IsAnswer(s[p])})
  BY PlacesShown
<1>. HIDE DEF d
<1>2. D \in SUBSET Nat /\ IsFiniteSet(D)
  BY <1>1, ImagesFinite
<1>. HIDE DEF D
<1>3. Len(BaseRefs(w.base_images) \o RefList(D)) = Len(BaseRefs(w.base_images)) + Cardinality(D)
  BY <1>2, RefsOfWindow
<1>4. Len(BaseRefs(w.base_images)) = IF w.base_images = <<>> THEN 0 ELSE 1
  BY BaseRefsSeq
<1>5. w.prompt_dialogue = d /\ w.image_refs = BaseRefs(w.base_images) \o RefList(D)
  BY DEF Shows, d, D
<1>. QED  BY <1>1, <1>3, <1>4, <1>5

\* _trim: with the first frame gone, the earliest image of the dialogue goes.
LEMMA ShowsDropImage ==
  ASSUME NEW P \in SUBSET Int, IsFiniteSet(P), NEW s, \A i \in P : s[i] \in Message,
         NEW w, Shows(w, s, P), w.base_images = <<>>,
         NEW q \in P, HasImage(s[q]), \A p \in P : HasImage(s[p]) => q <= p
  PROVE  Shows(DropImage(w), s, P \ {q}) /\ DropImage(w).base_images = <<>>
<1>. DEFINE d == At(s, P)
            D == Images(d)
            R == {p \in P : HasImage(s[p])}
            m == Nth(D, 1)
            rest == [w EXCEPT !.image_refs = Tail(w.image_refs)]
<1>1. /\ d \in Seq(Message) /\ Len(d) = Cardinality(P) /\ Cardinality(P) \in Nat
      /\ D = {n \in 1 .. Cardinality(P) : Nth(P, n) \in R}
  BY PlacesShown
<1>2. q \in R /\ R \in SUBSET P /\ \A p \in R : q <= p
  OBVIOUS
<1>. HIDE DEF R, d
<1>3. D \in SUBSET Nat /\ IsFiniteSet(D) /\ D \in SUBSET Int
  <2>1. d \in Seq(Message)
    BY <1>1
  <2>2. D \in SUBSET Nat /\ IsFiniteSet(D)
    BY <2>1, ImagesFinite
  <2>. HIDE DEF D
  <2>. QED  BY <2>2
<1>4. D # {}
  <2>1. PICK n \in 1 .. Cardinality(P) : Nth(P, n) = q
    BY NthFacts
  <2>2. n \in D
    BY <1>1, <1>2, <2>1
  <2>. QED  BY <2>2
<1>. HIDE DEF D
<1>5. m \in D /\ \A j \in D : m <= j
  BY <1>3, <1>4, NthFirst
<1>. HIDE DEF m
<1>6. m \in 1 .. Cardinality(P) /\ Nth(P, m) \in R
      /\ \A j \in 1 .. Cardinality(P) : Nth(P, j) \in R => m <= j
  BY <1>1, <1>5
<1>7. Nth(P, m) = q
  BY <1>2, <1>6, FirstPlace
<1>8. RefList(D) # <<>> /\ Head(RefList(D)) = DialogueRef(m) /\ Tail(RefList(D)) = RefList(D \ {m})
  BY <1>3, <1>4, RefListTail DEF m
<1>9. w \in Window /\ w.prompt_dialogue = d /\ w.save_dialogue = d /\ w.image_refs = RefList(D)
  <2>1. w.image_refs = BaseRefs(<<>>) \o RefList(D)
    BY DEF Shows, D, d
  <2>2. BaseRefs(<<>>) = <<>> /\ RefList(D) \in Seq(Ref)
    BY <1>3, RefListSeq DEF BaseRefs
  <2>3. w.image_refs = RefList(D)
    BY <2>1, <2>2, ConcatEmptySeq
  <2>. QED  BY <2>3 DEF Shows, d
<1>10. /\ rest \in Window /\ rest.prompt_dialogue = d /\ rest.save_dialogue = d
       /\ rest.base_images = <<>> /\ rest.image_refs = RefList(D \ {m})
  <2>1. RefList(D \ {m}) \in Seq(Ref)
    <3>1. D \ {m} \in SUBSET Nat /\ IsFiniteSet(D \ {m})
      BY <1>3, FS_RemoveElement
    <3>. QED  BY <3>1, RefListSeq
  <2>. QED  BY <1>8, <1>9, <2>1 DEF Window
<1>11. DropImage(w) = RemoveMsg(rest, m)
  BY <1>8, <1>9 DEF DropImage, DialogueRef
<1>. HIDE DEF rest
<1>12. rest.image_refs = BaseRefs(<<>>) \o RefList(Images(rest.prompt_dialogue) \ {m})
  <2>1. RefList(D \ {m}) \in Seq(Ref)
    BY <1>10 DEF Window
  <2>2. BaseRefs(<<>>) \o RefList(D \ {m}) = RefList(D \ {m})
    BY <2>1, ConcatEmptySeq DEF BaseRefs
  <2>. QED  BY <1>10, <2>2 DEF D
<1>13. LET v == RemoveMsg(rest, m)
       IN  /\ v \in Window /\ v.base_images = <<>>
           /\ v.prompt_dialogue = RemoveAt(d, m) /\ v.save_dialogue = RemoveAt(d, m)
           /\ v.image_refs = BaseRefs(<<>>) \o RefList(Images(RemoveAt(d, m)))
  <2>1. m \in 1 .. Len(rest.prompt_dialogue) /\ rest.save_dialogue = rest.prompt_dialogue
    BY <1>1, <1>6, <1>10
  <2>. QED  BY <1>10, <1>12, <2>1, RemoveMsgKeeps
<1>14. RemoveAt(d, m) = At(s, P \ {q})
  <2>1. m \in 1 .. Cardinality(P)
    BY <1>6
  <2>2. RemoveAt(At(s, P), m) = At(s, P \ {Nth(P, m)})
    BY <2>1, AtRemoved
  <2>. QED  BY <1>7, <2>2 DEF d
<1>. QED  BY <1>11, <1>13, <1>14 DEF Shows

\* _trim: the first frame is the earliest image as long as it is there.
LEMMA ShowsDropBase ==
  ASSUME NEW P \in SUBSET Int, IsFiniteSet(P), NEW s, \A i \in P : s[i] \in Message,
         NEW w, Shows(w, s, P), w.base_images = << 0 >>
  PROVE  Shows(DropImage(w), s, P) /\ DropImage(w).base_images = <<>>
<1>. DEFINE X == RefList(Images(w.prompt_dialogue))
<1>1. w \in Window /\ w.prompt_dialogue \in Seq(Message) /\ w.image_refs = <<BaseRef>> \o X
  BY DEF Shows, BaseRefs, Window
<1>2. X \in Seq(Ref)
  BY <1>1, ImagesFinite, RefListSeq
<1>. HIDE DEF X
<1>3. BaseRef \in Ref /\ BaseRef.source = "base"
  BY DEF BaseRef, Ref
<1>4. Head(w.image_refs) = BaseRef /\ Tail(w.image_refs) = X
  BY <1>1, <1>2, <1>3
<1>5. DropImage(w) = [w EXCEPT !.image_refs = X, !.base_images = <<>>]
  BY <1>1, <1>3, <1>4 DEF DropImage, Window
<1>6. BaseRefs(<<>>) \o X = X
  BY <1>2, ConcatEmptySeq DEF BaseRefs
<1>. QED  BY <1>1, <1>2, <1>5, <1>6 DEF Shows, Window, X

\* _trim: the earliest answer goes.
LEMMA ShowsDropText ==
  ASSUME NEW P \in SUBSET Int, IsFiniteSet(P), NEW s, \A i \in P : s[i] \in Message,
         NEW w, Shows(w, s, P),
         NEW q \in P, IsAnswer(s[q]), ~HasImage(s[q]), \A p \in P : IsAnswer(s[p]) => q <= p
  PROVE  Shows(DropText(w), s, P \ {q}) /\ DropText(w).base_images = w.base_images
<1>. DEFINE d == At(s, P)
            D == Images(d)
            T == {p \in P : IsAnswer(s[p])}
            m == CHOOSE i \in Texts(d) : \A j \in Texts(d) : i <= j
<1>1. /\ d \in Seq(Message) /\ Len(d) = Cardinality(P) /\ Cardinality(P) \in Nat
      /\ Texts(d) = {n \in 1 .. Cardinality(P) : Nth(P, n) \in T}
      /\ D = {n \in 1 .. Cardinality(P) : Nth(P, n) \in {p \in P : HasImage(s[p])}}
  BY PlacesShown
<1>2. q \in T /\ T \in SUBSET P /\ \A p \in T : q <= p
  OBVIOUS
<1>. HIDE DEF T, d
<1>3. Texts(d) \in SUBSET Int /\ IsFiniteSet(Texts(d))
  <2>1. d \in Seq(Message)
    BY <1>1
  <2>2. Texts(d) \in SUBSET (1 .. Len(d)) /\ IsFiniteSet(Texts(d))
    BY <2>1, ImagesFinite
  <2>. QED  BY <2>2
<1>4. Texts(d) # {}
  <2>1. PICK n \in 1 .. Cardinality(P) : Nth(P, n) = q
    BY NthFacts
  <2>. QED  BY <1>1, <1>2, <2>1
<1>5. m \in Texts(d) /\ \A j \in Texts(d) : m <= j
  <2>1. \E i \in Texts(d) : \A j \in Texts(d) : i <= j
    BY <1>3, <1>4, NthFirst
  <2>. QED  BY <2>1
<1>. HIDE DEF m
<1>6. m \in 1 .. Cardinality(P) /\ Nth(P, m) \in T
      /\ \A j \in 1 .. Cardinality(P) : Nth(P, j) \in T => m <= j
  BY <1>1, <1>5
<1>7. Nth(P, m) = q
  BY <1>2, <1>6, FirstPlace
<1>8. m \notin D
  BY <1>1, <1>7
<1>9. /\ w \in Window /\ w.prompt_dialogue = d /\ w.save_dialogue = d
      /\ w.image_refs = BaseRefs(w.base_images) \o RefList(D \ {m})
  <2>1. D \ {m} = D
    BY <1>8
  <2>. QED  BY <2>1 DEF Shows, d
<1>10. DropText(w) = RemoveMsg(w, m)
  BY <1>9 DEF DropText, m
<1>11. LET v == RemoveMsg(w, m)
       IN  /\ v \in Window /\ v.base_images = w.base_images
           /\ v.prompt_dialogue = RemoveAt(d, m) /\ v.save_dialogue = RemoveAt(d, m)
           /\ v.image_refs = BaseRefs(w.base_images) \o RefList(Images(RemoveAt(d, m)))
  <2>1. m \in 1 .. Len(w.prompt_dialogue) /\ w.save_dialogue = w.prompt_dialogue
    BY <1>1, <1>6, <1>9
  <2>2. w.image_refs = BaseRefs(w.base_images) \o RefList(Images(w.prompt_dialogue) \ {m})
    BY <1>9
  <2>. QED  BY <1>9, <2>1, <2>2, RemoveMsgKeeps
<1>12. RemoveAt(d, m) = At(s, P \ {q})
  <2>1. m \in 1 .. Cardinality(P)
    BY <1>6
  <2>2. RemoveAt(At(s, P), m) = At(s, P \ {Nth(P, m)})
    BY <2>1, AtRemoved
  <2>. QED  BY <1>7, <2>2 DEF d
<1>. QED  BY <1>10, <1>11, <1>12 DEF Shows

\* A greater place makes the list of references longer by one.
LEMMA RefListAdded ==
  ASSUME NEW D \in SUBSET Nat, IsFiniteSet(D), NEW k \in Nat, \A i \in D : i < k
  PROVE  RefList(D \cup {k}) = Append(RefList(D), DialogueRef(k))
<1>. DEFINE E == D \cup {k}
            c == Cardinality(D)
<1>1. /\ IsFiniteSet(E) /\ Cardinality(E) = c + 1
      /\ \A n \in 1 .. c : Nth(E, n) = Nth(D, n)
      /\ Nth(E, c + 1) = k
  <2>1. D \in SUBSET Int /\ k \in Int
    OBVIOUS
  <2>. QED  BY <2>1, NthAdded
<1>2. E \in SUBSET Nat /\ c \in Nat /\ DialogueRef(k) \in Ref
  BY FS_CardinalityType DEF DialogueRef, Ref
<1>3. /\ RefList(D) \in Seq(Ref) /\ Len(RefList(D)) = c
      /\ \A n \in 1 .. c : RefList(D)[n] = DialogueRef(Nth(D, n))
  BY RefListSeq
<1>. HIDE DEF E, c
<1>4. /\ RefList(E) \in Seq(Ref) /\ Len(RefList(E)) = c + 1
      /\ \A n \in 1 .. c + 1 : RefList(E)[n] = DialogueRef(Nth(E, n))
  <2>1. /\ RefList(E) \in Seq(Ref) /\ Len(RefList(E)) = Cardinality(E)
        /\ \A n \in 1 .. Cardinality(E) : RefList(E)[n] = DialogueRef(Nth(E, n))
    BY <1>1, <1>2, RefListSeq
  <2>. QED  BY <1>1, <2>1
<1>. DEFINE t == Append(RefList(D), DialogueRef(k))
<1>5. /\ t \in Seq(Ref) /\ Len(t) = c + 1
      /\ \A n \in 1 .. c : t[n] = RefList(D)[n]
      /\ t[c + 1] = DialogueRef(k)
  BY <1>2, <1>3, AppendProperties
<1>. HIDE DEF t
<1>6. ASSUME NEW n \in 1 .. c + 1 PROVE RefList(E)[n] = t[n]
  <2>1. n \in 1 .. c \/ n = c + 1
    BY <1>2
  <2>2. CASE n \in 1 .. c
    BY <1>1, <1>3, <1>4, <1>5, <2>2
  <2>3. CASE n = c + 1
    BY <1>1, <1>4, <1>5, <2>3
  <2>. QED  BY <2>1, <2>2, <2>3
<1>7. RefList(E) = t
  BY <1>4, <1>5, <1>6, SeqEqual
<1>. QED  BY <1>7 DEF E, t

LEMMA AppendBehind ==
  ASSUME NEW S, NEW a \in Seq(S), NEW b \in Seq(S), NEW e \in S
  PROVE  a \o Append(b, e) = Append(a \o b, e)
<1>1. Append(b, e) = b \o <<e>> /\ a \o b \in Seq(S) /\ <<e>> \in Seq(S)
  BY AppendIsConcat, ConcatProperties
<1>2. Append(a \o b, e) = (a \o b) \o <<e>>
  BY <1>1, AppendIsConcat
<1>. QED  BY <1>1, <1>2, ConcatAssociative

\* The images of a dialogue with one message more.
LEMMA ImagesAdded ==
  ASSUME NEW d \in Seq(Message), NEW x \in Message
  PROVE  Images(Append(d, x)) = IF HasImage(x) THEN Images(d) \cup {Len(d) + 1} ELSE Images(d)
<1>1. /\ Len(d) \in Nat /\ DOMAIN d = 1 .. Len(d) /\ DOMAIN Append(d, x) = 1 .. Len(d) + 1
      /\ \A i \in 1 .. Len(d) : Append(d, x)[i] = d[i]
      /\ Append(d, x)[Len(d) + 1] = x
  OBVIOUS
<1>2. 1 .. Len(d) + 1 = (1 .. Len(d)) \cup {Len(d) + 1} /\ Len(d) + 1 \notin 1 .. Len(d)
  BY <1>1
<1>3. \A i \in 1 .. Len(d) : i \in Images(Append(d, x)) <=> i \in Images(d)
  BY <1>1, <1>2 DEF Images
<1>4. Len(d) + 1 \in Images(Append(d, x)) <=> HasImage(x)
  BY <1>1, <1>2 DEF Images
<1>5. Images(d) \in SUBSET (1 .. Len(d)) /\ Images(Append(d, x)) \in SUBSET (1 .. Len(d) + 1)
  BY <1>1 DEF Images
<1>6. ASSUME NEW i \in 1 .. Len(d) + 1
      PROVE  i \in Images(Append(d, x))
               <=> i \in IF HasImage(x) THEN Images(d) \cup {Len(d) + 1} ELSE Images(d)
  <2>1. CASE i \in 1 .. Len(d)
    BY <1>2, <1>3, <2>1
  <2>2. CASE i = Len(d) + 1
    BY <1>2, <1>4, <1>5, <2>2
  <2>. QED  BY <1>2, <2>1, <2>2
<1>7. (IF HasImage(x) THEN Images(d) \cup {Len(d) + 1} ELSE Images(d)) \in SUBSET (1 .. Len(d) + 1)
  BY <1>2, <1>5
<1>. QED  BY <1>5, <1>6, <1>7

\* The window before it is trimmed.
WithImage(w, n) ==
  [w EXCEPT !.prompt_dialogue = Append(w.prompt_dialogue, Image(n)),
            !.save_dialogue = Append(w.save_dialogue, Image(n)),
            !.image_refs = Append(w.image_refs,
                                  DialogueRef(Len(Append(w.prompt_dialogue, Image(n)))))]
WithText(w, k) ==
  [w EXCEPT !.prompt_dialogue = Append(w.prompt_dialogue, Answer(k)),
            !.save_dialogue = Append(w.save_dialogue, Answer(k))]

LEMMA AddTrims ==
  ASSUME NEW w, NEW n
  PROVE  AddImage(w, n) = Trim(WithImage(w, n)) /\ AddText(w, n) = Trim(WithText(w, n))
BY DEF AddImage, AddText, WithImage, WithText

Behind(L, P) == L \in Int /\ \A i \in P : i < L

LEMMA ShowsImage ==
  ASSUME NEW P \in SUBSET Int, IsFiniteSet(P), NEW s, \A i \in P : s[i] \in Message,
         NEW w, Shows(w, s, P), NEW L, Behind(L, P),
         NEW n \in Nat, s[L] = Image(n)
  PROVE  Shows(WithImage(w, n), s, P \cup {L}) /\ WithImage(w, n).base_images = w.base_images
<1>. DEFINE d == At(s, P)
            D == Images(d)
            v == WithImage(w, n)
            x == Image(n)
<1>1. d \in Seq(Message) /\ x \in Message /\ HasImage(x)
  <2>1. d \in Seq(Message)
    BY PlacesShown
  <2>2. x \in Message
    BY MessageTypes
  <2>3. HasImage(x)
    BY DEF HasImage, Image
  <2>. QED  BY <2>1, <2>2, <2>3
<1>2. At(s, P \cup {L}) = Append(d, x)
  <2>1. \A i \in P \cup {L} : s[i] \in Message
    BY <1>1
  <2>2. L \in Int /\ \A i \in P : i < L
    BY DEF Behind
  <2>. QED  BY <2>1, <2>2, AtAdded
<1>. HIDE DEF d, x
<1>3. /\ D \in SUBSET Nat /\ IsFiniteSet(D) /\ D \in SUBSET (1 .. Len(d)) /\ Len(d) \in Nat
      /\ Len(Append(d, x)) = Len(d) + 1 /\ Append(d, x) \in Seq(Message)
  <2>1. D \in SUBSET Nat /\ IsFiniteSet(D) /\ D \in SUBSET (1 .. Len(d))
    BY <1>1, ImagesFinite
  <2>2. Len(d) \in Nat /\ Len(Append(d, x)) = Len(d) + 1 /\ Append(d, x) \in Seq(Message)
    BY <1>1
  <2>. QED  BY <2>1, <2>2
<1>4. Images(Append(d, x)) = D \cup {Len(d) + 1}
  BY <1>1, ImagesAdded
<1>. HIDE DEF D
<1>5. RefList(D \cup {Len(d) + 1}) = Append(RefList(D), DialogueRef(Len(d) + 1))
  <2>. DEFINE m == Len(d) + 1
  <2>1. m \in Nat /\ \A i \in D : i < m
    BY <1>3
  <2>. HIDE DEF m
  <2>2. RefList(D \cup {m}) = Append(RefList(D), DialogueRef(m))
    BY <1>3, <2>1, RefListAdded
  <2>. QED  BY <2>2 DEF m
<1>6. /\ w \in Window /\ w.prompt_dialogue = d /\ w.save_dialogue = d
      /\ w.image_refs = BaseRefs(w.base_images) \o RefList(D)
  BY DEF Shows, d, D
<1>7. /\ Append(w.image_refs, DialogueRef(Len(d) + 1)) \in Seq(Ref)
      /\ Append(w.image_refs, DialogueRef(Len(d) + 1))
           = BaseRefs(w.base_images) \o RefList(D \cup {Len(d) + 1})
  <2>1. DialogueRef(Len(d) + 1) \in Ref
    BY <1>3 DEF DialogueRef, Ref
  <2>2. BaseRefs(w.base_images) \in Seq(Ref) /\ RefList(D) \in Seq(Ref)
    BY <1>3, BaseRefsSeq, RefListSeq
  <2>3. w.image_refs \in Seq(Ref)
    BY <1>6 DEF Window
  <2>4. BaseRefs(w.base_images) \o Append(RefList(D), DialogueRef(Len(d) + 1))
          = Append(BaseRefs(w.base_images) \o RefList(D), DialogueRef(Len(d) + 1))
    BY <2>1, <2>2, AppendBehind
  <2>5. Append(w.image_refs, DialogueRef(Len(d) + 1)) \in Seq(Ref)
    BY <2>1, <2>3, AppendProperties
  <2>. QED  BY <1>5, <1>6, <2>4, <2>5
<1>8. v = [w EXCEPT !.prompt_dialogue = Append(d, x), !.save_dialogue = Append(d, x),
                    !.image_refs = Append(w.image_refs, DialogueRef(Len(d) + 1))]
  BY <1>3, <1>6 DEF WithImage, x
<1>9. /\ v \in Window /\ v.base_images = w.base_images /\ v.prompt_dialogue = Append(d, x)
      /\ v.save_dialogue = Append(d, x)
      /\ v.image_refs = BaseRefs(w.base_images) \o RefList(D \cup {Len(d) + 1})
  BY <1>3, <1>6, <1>7, <1>8 DEF Window
<1>. HIDE DEF v
<1>. QED  BY <1>2, <1>4, <1>9 DEF Shows, v

LEMMA ShowsText ==
  ASSUME NEW P \in SUBSET Int, IsFiniteSet(P), NEW s, \A i \in P : s[i] \in Message,
         NEW w, Shows(w, s, P), NEW L, Behind(L, P),
         NEW k \in Nat, s[L] = Answer(k)
  PROVE  Shows(WithText(w, k), s, P \cup {L}) /\ WithText(w, k).base_images = w.base_images
<1>. DEFINE d == At(s, P)
            v == WithText(w, k)
            x == Answer(k)
<1>1. d \in Seq(Message) /\ x \in Message /\ ~HasImage(x)
  <2>1. d \in Seq(Message)
    BY PlacesShown
  <2>2. x \in Message
    BY MessageTypes
  <2>3. ~HasImage(x)
    BY DEF HasImage, Answer
  <2>. QED  BY <2>1, <2>2, <2>3
<1>2. At(s, P \cup {L}) = Append(d, x)
  <2>1. \A i \in P \cup {L} : s[i] \in Message
    BY <1>1
  <2>2. L \in Int /\ \A i \in P : i < L
    BY DEF Behind
  <2>. QED  BY <2>1, <2>2, AtAdded
<1>. HIDE DEF d, x
<1>3. Append(d, x) \in Seq(Message)
  BY <1>1
<1>4. Images(Append(d, x)) = Images(d)
  BY <1>1, ImagesAdded
<1>5. /\ w \in Window /\ w.prompt_dialogue = d /\ w.save_dialogue = d
      /\ w.image_refs = BaseRefs(w.base_images) \o RefList(Images(d))
  BY DEF Shows, d
<1>6. v = [w EXCEPT !.prompt_dialogue = Append(d, x), !.save_dialogue = Append(d, x)]
  BY <1>5 DEF WithText, x
<1>7. /\ v \in Window /\ v.base_images = w.base_images /\ v.prompt_dialogue = Append(d, x)
      /\ v.save_dialogue = Append(d, x) /\ v.image_refs = w.image_refs
  BY <1>3, <1>5, <1>6 DEF Window
<1>. HIDE DEF v
<1>. QED  BY <1>2, <1>4, <1>5, <1>7 DEF Shows, v

(***************************************************************************)
(* The conversation: answers and frames alternate, but for the last step,  *)
(* which may go without an answer.  Its latest messages, within the limits. *)
(***************************************************************************)
\* Where the n-th image is in a conversation with a answers: behind the n-th answer, or, if
\* the last step went without one, behind the image before.
ImageAt(a, n) == IF n <= a THEN 2 * n ELSE 2 * n - 1

\* s is a conversation of a answers and f images.
Alternates(s, a, f) ==
  /\ s \in Seq(Message) /\ a \in Nat /\ f \in Nat /\ a <= f + 1 /\ f <= a + 1
  /\ Len(s) = a + f
  /\ \A k \in 1 .. a : s[2 * k - 1] = Answer(k)
  /\ \A n \in 1 .. f : s[ImageAt(a, n)] = Image(n)
  /\ \A i \in 1 .. a + f : \/ \E k \in 1 .. a : i = 2 * k - 1
                           \/ \E n \in 1 .. f : i = ImageAt(a, n)

\* The positions of its last answers and images, within the limits of c.
LatestTexts(c, a)     == {2 * k - 1 : k \in {x \in 1 .. a : x > a - c.max_texts}}
LatestImages(c, a, f) == {ImageAt(a, n) : n \in {x \in 1 .. f : x > f - c.max_images}}
Latest(c, a, f)       == LatestTexts(c, a) \cup LatestImages(c, a, f)

Smaller(x, y) == IF x <= y THEN x ELSE y

LEMMA ImagePlaces ==
  ASSUME NEW a \in Nat, NEW f \in Nat, a <= f + 1, f <= a + 1
  PROVE  /\ \A n \in 1 .. f : ImageAt(a, n) \in 1 .. a + f
         /\ \A m, n \in 1 .. f : m < n => ImageAt(a, m) < ImageAt(a, n)
         /\ \A k \in 1 .. a : 2 * k - 1 \in 1 .. a + f
BY DEF ImageAt

LEMMA LatestBounds ==
  ASSUME NEW a \in Nat, NEW f \in Nat, a <= f + 1, f <= a + 1, NEW c
  PROVE  /\ LatestImages(c, a, f) \in SUBSET (1 .. a + f)
         /\ LatestTexts(c, a) \in SUBSET (1 .. a + f)
         /\ Latest(c, a, f) \in SUBSET (1 .. a + f) /\ IsFiniteSet(Latest(c, a, f))
<1>. DEFINE P == Latest(c, a, f)
            R == LatestImages(c, a, f)
            T == LatestTexts(c, a)
<1>2. /\ \A n \in 1 .. f : ImageAt(a, n) \in 1 .. a + f
      /\ \A k \in 1 .. a : 2 * k - 1 \in 1 .. a + f
  BY ImagePlaces
<1>3. R \in SUBSET (1 .. a + f)
  <2>. SUFFICES ASSUME NEW i \in R PROVE i \in 1 .. a + f
    OBVIOUS
  <2>1. PICK n \in 1 .. f : i = ImageAt(a, n)
    BY DEF LatestImages
  <2>. QED  BY <1>2, <2>1
<1>4. T \in SUBSET (1 .. a + f)
  <2>. SUFFICES ASSUME NEW i \in T PROVE i \in 1 .. a + f
    OBVIOUS
  <2>1. PICK k \in 1 .. a : i = 2 * k - 1
    BY DEF LatestTexts
  <2>. QED  BY <1>2, <2>1
<1>5. P \in SUBSET (1 .. a + f)
  BY <1>3, <1>4 DEF Latest
<1>6. IsFiniteSet(1 .. a + f)
  BY FS_Interval
<1>. HIDE DEF P, R, T
<1>7. IsFiniteSet(P)
  BY <1>5, <1>6, FS_Subset
<1>. QED  BY <1>3, <1>4, <1>5, <1>7 DEF P, R, T

\* What is at the latest positions, and how much.
LEMMA LatestPlaces ==
  ASSUME NEW s, NEW a, NEW f, Alternates(s, a, f), NEW c \in Config
  PROVE  LET P == Latest(c, a, f)
         IN  /\ P \in SUBSET (1 .. a + f) /\ IsFiniteSet(P)
             /\ \A i \in P : s[i] \in Message
             /\ {p \in P : HasImage(s[p])} = LatestImages(c, a, f)
             /\ {p \in P : IsAnswer(s[p])} = LatestTexts(c, a)
<1>. DEFINE P == Latest(c, a, f)
            R == LatestImages(c, a, f)
            T == LatestTexts(c, a)
<1>1. /\ s \in Seq(Message) /\ a \in Nat /\ f \in Nat /\ a <= f + 1 /\ f <= a + 1
      /\ Len(s) = a + f
      /\ \A k \in 1 .. a : s[2 * k - 1] = Answer(k)
      /\ \A n \in 1 .. f : s[ImageAt(a, n)] = Image(n)
  BY DEF Alternates
<1>5. P \in SUBSET (1 .. a + f) /\ P = R \cup T /\ IsFiniteSet(P)
  BY <1>1, LatestBounds DEF Latest
<1>6. \A i \in R : HasImage(s[i]) /\ ~IsAnswer(s[i])
  <2>. SUFFICES ASSUME NEW i \in R PROVE HasImage(s[i]) /\ ~IsAnswer(s[i])
    OBVIOUS
  <2>1. PICK n \in 1 .. f : i = ImageAt(a, n)
    BY DEF LatestImages
  <2>2. s[i] = Image(n)
    BY <1>1, <2>1
  <2>. QED  BY <2>2 DEF HasImage, IsAnswer, Image
<1>7. \A i \in T : IsAnswer(s[i]) /\ ~HasImage(s[i])
  <2>. SUFFICES ASSUME NEW i \in T PROVE IsAnswer(s[i]) /\ ~HasImage(s[i])
    OBVIOUS
  <2>1. PICK k \in 1 .. a : i = 2 * k - 1
    BY DEF LatestTexts
  <2>2. s[i] = Answer(k)
    BY <1>1, <2>1
  <2>. QED  BY <2>2 DEF HasImage, IsAnswer, Answer
<1>9. \A i \in P : s[i] \in Message
  <2>1. \A i \in 1 .. a + f : s[i] \in Message
    BY <1>1
  <2>. HIDE DEF P
  <2>. QED  BY <1>5, <2>1
<1>. HIDE DEF P, R, T
<1>10. {p \in P : HasImage(s[p])} = R /\ {p \in P : IsAnswer(s[p])} = T
  BY <1>5, <1>6, <1>7
<1>. QED  BY <1>5, <1>9, <1>10 DEF P, R, T

LEMMA LatestCount ==
  ASSUME NEW a \in Nat, NEW f \in Nat, a <= f + 1, f <= a + 1, NEW c \in Config
  PROVE  /\ Cardinality(LatestImages(c, a, f)) = Smaller(f, c.max_images)
         /\ Cardinality(LatestTexts(c, a)) = Smaller(a, c.max_texts)
<1>1. c.max_images \in Nat /\ c.max_texts \in Nat
  BY DEF Config
<1>2. Cardinality(LatestImages(c, a, f)) = Smaller(f, c.max_images)
  <2>. DEFINE k == Smaller(f, c.max_images)
              R == LatestImages(c, a, f)
              e == [n \in 1 .. k |-> ImageAt(a, f - k + n)]
  <2>1. /\ k \in Nat /\ k <= f
        /\ \A n \in 1 .. k : f - k + n \in 1 .. f /\ f - k + n > f - c.max_images
        /\ \A x \in 1 .. f : x > f - c.max_images => x - (f - k) \in 1 .. k
    BY <1>1 DEF Smaller
  <2>. HIDE DEF k
  <2>2. e \in [1 .. k -> R]
    BY <2>1 DEF LatestImages
  <2>3. \A m, n \in 1 .. k : m < n => e[m] < e[n]
    <3>. SUFFICES ASSUME NEW m \in 1 .. k, NEW n \in 1 .. k, m < n PROVE e[m] < e[n]
      OBVIOUS
    <3>1. f - k + m \in 1 .. f /\ f - k + n \in 1 .. f
      BY <2>1
    <3>2. f - k + m < f - k + n
      BY <2>1
    <3>. QED  BY <3>1, <3>2, ImagePlaces
  <2>4. \A i \in R : \E m \in 1 .. k : e[m] = i
    <3>. SUFFICES ASSUME NEW i \in R PROVE \E m \in 1 .. k : e[m] = i
      OBVIOUS
    <3>1. PICK x \in 1 .. f : x > f - c.max_images /\ i = ImageAt(a, x)
      BY DEF LatestImages
    <3>2. x - (f - k) \in 1 .. k /\ f - k + (x - (f - k)) = x
      BY <2>1, <3>1
    <3>3. e[x - (f - k)] = i
      BY <3>1, <3>2
    <3>. QED  BY <3>2, <3>3
  <2>5. R \in SUBSET Int
    <3>. SUFFICES ASSUME NEW i \in R PROVE i \in Int
      OBVIOUS
    <3>1. PICK x \in 1 .. f : i = ImageAt(a, x)
      BY DEF LatestImages
    <3>. QED  BY <3>1 DEF ImageAt
  <2>. HIDE DEF e, R
  <2>6. Lists(e, k, R)
    BY <2>1, <2>2, <2>3, <2>4 DEF Lists
  <2>7. Cardinality(R) = k
    BY <2>5, <2>6, ListNth
  <2>. QED  BY <2>7 DEF k, R
<1>3. Cardinality(LatestTexts(c, a)) = Smaller(a, c.max_texts)
  <2>. DEFINE k == Smaller(a, c.max_texts)
              R == LatestTexts(c, a)
              e == [n \in 1 .. k |-> 2 * (a - k + n) - 1]
  <2>1. /\ k \in Nat /\ k <= a
        /\ \A n \in 1 .. k : a - k + n \in 1 .. a /\ a - k + n > a - c.max_texts
        /\ \A x \in 1 .. a : x > a - c.max_texts => x - (a - k) \in 1 .. k
    BY <1>1 DEF Smaller
  <2>. HIDE DEF k
  <2>2. e \in [1 .. k -> R]
    BY <2>1 DEF LatestTexts
  <2>3. \A m, n \in 1 .. k : m < n => e[m] < e[n]
    BY <2>1
  <2>4. \A i \in R : \E m \in 1 .. k : e[m] = i
    <3>. SUFFICES ASSUME NEW i \in R PROVE \E m \in 1 .. k : e[m] = i
      OBVIOUS
    <3>1. PICK x \in 1 .. a : x > a - c.max_texts /\ i = 2 * x - 1
      BY DEF LatestTexts
    <3>2. x - (a - k) \in 1 .. k /\ a - k + (x - (a - k)) = x
      BY <2>1, <3>1
    <3>3. e[x - (a - k)] = i
      BY <3>1, <3>2
    <3>. QED  BY <3>2, <3>3
  <2>5. R \in SUBSET Int
    BY DEF LatestTexts
  <2>. HIDE DEF e, R
  <2>6. Lists(e, k, R)
    BY <2>1, <2>2, <2>3, <2>4 DEF Lists
  <2>7. Cardinality(R) = k
    BY <2>5, <2>6, ListNth
  <2>. QED  BY <2>7 DEF k, R
<1>. QED  BY <1>2, <1>3

\* One message more.
LEMMA AlternatesText ==
  ASSUME NEW s, NEW a, Alternates(s, a, a)
  PROVE  Alternates(Append(s, Answer(a + 1)), a + 1, a)
<1>. DEFINE t == Append(s, Answer(a + 1))
<1>1. /\ s \in Seq(Message) /\ a \in Nat /\ Len(s) = a + a
      /\ \A k \in 1 .. a : s[2 * k - 1] = Answer(k)
      /\ \A n \in 1 .. a : s[ImageAt(a, n)] = Image(n)
      /\ \A i \in 1 .. a + a : \/ \E k \in 1 .. a : i = 2 * k - 1
                               \/ \E n \in 1 .. a : i = ImageAt(a, n)
  BY DEF Alternates
<1>2. Answer(a + 1) \in Message
  BY <1>1, MessageTypes
<1>3. /\ t \in Seq(Message) /\ Len(t) = a + 1 + a
      /\ \A i \in 1 .. a + a : t[i] = s[i]
      /\ t[a + a + 1] = Answer(a + 1)
  <2>1. /\ t \in Seq(Message) /\ Len(t) = Len(s) + 1
        /\ \A i \in 1 .. Len(s) : t[i] = s[i]
        /\ t[Len(s) + 1] = Answer(a + 1)
    BY <1>1, <1>2, AppendProperties
  <2>. QED  BY <1>1, <2>1
<1>. HIDE DEF t
<1>4. ASSUME NEW k \in 1 .. a + 1 PROVE t[2 * k - 1] = Answer(k)
  <2>1. CASE k \in 1 .. a
    <3>1. 2 * k - 1 \in 1 .. a + a
      BY <1>1, <2>1
    <3>. QED  BY <1>1, <1>3, <2>1, <3>1
  <2>2. CASE k = a + 1
    <3>1. 2 * k - 1 = a + a + 1
      BY <1>1, <2>2
    <3>. QED  BY <1>3, <2>2, <3>1
  <2>. QED  BY <1>1, <2>1, <2>2
<1>5. \A n \in 1 .. a : ImageAt(a + 1, n) = ImageAt(a, n) /\ ImageAt(a, n) \in 1 .. a + a
  BY <1>1 DEF ImageAt
<1>6. \A n \in 1 .. a : t[ImageAt(a + 1, n)] = Image(n)
  BY <1>1, <1>3, <1>5
<1>7. ASSUME NEW i \in 1 .. a + 1 + a
      PROVE  \/ \E k \in 1 .. a + 1 : i = 2 * k - 1
             \/ \E n \in 1 .. a : i = ImageAt(a + 1, n)
  <2>1. CASE i \in 1 .. a + a
    <3>1. CASE \E k \in 1 .. a : i = 2 * k - 1
      <4>1. 1 .. a \subseteq 1 .. a + 1
        BY <1>1
      <4>. QED  BY <3>1, <4>1
    <3>2. CASE \E n \in 1 .. a : i = ImageAt(a, n)
      BY <1>5, <3>2
    <3>. QED  BY <1>1, <2>1, <3>1, <3>2
  <2>2. CASE i = a + a + 1
    <3>1. a + 1 \in 1 .. a + 1 /\ i = 2 * (a + 1) - 1
      BY <1>1, <2>2
    <3>. QED  BY <3>1
  <2>. QED  BY <1>1, <2>1, <2>2
<1>8. a + 1 \in Nat /\ a + 1 <= a + 1 /\ a <= a + 1 + 1
  BY <1>1
<1>9. Alternates(t, a + 1, a)
  BY <1>1, <1>3, <1>4, <1>6, <1>7, <1>8 DEF Alternates
<1>. QED  BY <1>9 DEF t

LEMMA AlternatesImage ==
  ASSUME NEW s, NEW a, NEW f, Alternates(s, a, f), f <= a, a <= f + 1
  PROVE  Alternates(Append(s, Image(f + 1)), a, f + 1) /\ ImageAt(a, f + 1) = a + f + 1
<1>. DEFINE t == Append(s, Image(f + 1))
<1>1. /\ s \in Seq(Message) /\ a \in Nat /\ f \in Nat /\ Len(s) = a + f
      /\ \A k \in 1 .. a : s[2 * k - 1] = Answer(k)
      /\ \A n \in 1 .. f : s[ImageAt(a, n)] = Image(n)
      /\ \A i \in 1 .. a + f : \/ \E k \in 1 .. a : i = 2 * k - 1
                               \/ \E n \in 1 .. f : i = ImageAt(a, n)
  BY DEF Alternates
<1>2. Image(f + 1) \in Message
  BY <1>1, MessageTypes
<1>3. /\ t \in Seq(Message) /\ Len(t) = a + (f + 1)
      /\ \A i \in 1 .. a + f : t[i] = s[i]
      /\ t[a + f + 1] = Image(f + 1)
  <2>1. /\ t \in Seq(Message) /\ Len(t) = Len(s) + 1
        /\ \A i \in 1 .. Len(s) : t[i] = s[i]
        /\ t[Len(s) + 1] = Image(f + 1)
    <3>1. s \in Seq(Message)
      BY <1>1
    <3>. QED  BY <1>2, <3>1, AppendProperties
  <2>. QED  BY <1>1, <2>1
<1>. HIDE DEF t
<1>4. ImageAt(a, f + 1) = a + f + 1
  <2>1. a = f \/ a = f + 1
    BY <1>1
  <2>. QED  BY <1>1, <2>1 DEF ImageAt
<1>5. /\ \A n \in 1 .. f : ImageAt(a, n) \in 1 .. a + f
      /\ \A k \in 1 .. a : 2 * k - 1 \in 1 .. a + f
  <2>1. a <= f + 1 /\ f <= a + 1
    BY <1>1
  <2>. QED  BY <1>1, <2>1, ImagePlaces
<1>6. \A k \in 1 .. a : t[2 * k - 1] = Answer(k)
  BY <1>1, <1>3, <1>5
<1>7. ASSUME NEW n \in 1 .. f + 1 PROVE t[ImageAt(a, n)] = Image(n)
  <2>1. CASE n \in 1 .. f
    BY <1>1, <1>3, <1>5, <2>1
  <2>2. CASE n = f + 1
    BY <1>3, <1>4, <2>2
  <2>. QED  BY <1>1, <2>1, <2>2
<1>8. ASSUME NEW i \in 1 .. a + (f + 1)
      PROVE  \/ \E k \in 1 .. a : i = 2 * k - 1
             \/ \E n \in 1 .. f + 1 : i = ImageAt(a, n)
  <2>1. CASE i \in 1 .. a + f
    <3>1. 1 .. f \subseteq 1 .. f + 1
      BY <1>1
    <3>. QED  BY <1>1, <2>1, <3>1
  <2>2. CASE i = a + f + 1
    <3>1. f + 1 \in 1 .. f + 1
      BY <1>1
    <3>. QED  BY <1>4, <2>2, <3>1
  <2>. QED  BY <1>1, <2>1, <2>2
<1>9. f + 1 \in Nat /\ a <= f + 1 + 1 /\ f + 1 <= a + 1
  BY <1>1
<1>10. Alternates(t, a, f + 1)
  BY <1>1, <1>3, <1>6, <1>7, <1>8, <1>9 DEF Alternates
<1>. QED  BY <1>4, <1>10 DEF t

\* The first frame stays in the instruction until max_images frames came after it.
Base(c, f) == IF f < c.max_images THEN <<0>> ELSE <<>>

\* The window shows the latest messages of a conversation of a answers and f images.
Framed(w, c, s, a, f) == Shows(w, s, Latest(c, a, f)) /\ w.base_images = Base(c, f)

\* Messages behind the positions change nothing.
LEMMA ShowsSame ==
  ASSUME NEW P \in SUBSET Int, IsFiniteSet(P), NEW s, NEW t, \A i \in P : s[i] = t[i],
         NEW w, Shows(w, s, P)
  PROVE  Shows(w, t, P)
<1>1. At(s, P) = At(t, P)
  BY AtSame
<1>. QED  BY <1>1 DEF Shows

\* The window within its limits.
LEMMA FramedCounts ==
  ASSUME NEW c \in Config, NEW s, NEW a, NEW f, Alternates(s, a, f),
         NEW w, Framed(w, c, s, a, f)
  PROVE  /\ Len(w.image_refs) = Smaller(f + 1, c.max_images)
         /\ Cardinality(Texts(w.prompt_dialogue)) = Smaller(a, c.max_texts)
<1>. DEFINE P == Latest(c, a, f)
<1>1. /\ P \in SUBSET (1 .. a + f) /\ IsFiniteSet(P)
      /\ \A i \in P : s[i] \in Message
      /\ {p \in P : HasImage(s[p])} = LatestImages(c, a, f)
      /\ {p \in P : IsAnswer(s[p])} = LatestTexts(c, a)
  BY LatestPlaces
<1>2. a \in Nat /\ f \in Nat /\ a <= f + 1 /\ f <= a + 1
  BY DEF Alternates
<1>3. P \in SUBSET Int /\ Shows(w, s, P)
  BY <1>1 DEF Framed
<1>. HIDE DEF P
<1>4. /\ Len(w.image_refs) = (IF w.base_images = <<>> THEN 0 ELSE 1)
                              + Cardinality({p \in P : HasImage(s[p])})
      /\ Cardinality(Texts(w.prompt_dialogue)) = Cardinality({p \in P : IsAnswer(s[p])})
  BY <1>1, <1>3, ShowsCount
<1>5. /\ Cardinality(LatestImages(c, a, f)) = Smaller(f, c.max_images)
      /\ Cardinality(LatestTexts(c, a)) = Smaller(a, c.max_texts)
  BY <1>2, LatestCount
<1>6. w.base_images = <<>> <=> ~(f < c.max_images)
  BY DEF Framed, Base
<1>7. c.max_images \in Nat /\ c.max_images # 0
  BY DEF Config
<1>8. (IF w.base_images = <<>> THEN 0 ELSE 1) + Smaller(f, c.max_images)
        = Smaller(f + 1, c.max_images)
  BY <1>2, <1>6, <1>7 DEF Smaller
<1>. QED  BY <1>1, <1>4, <1>5, <1>8

LEMMA InLatestTexts ==
  ASSUME NEW c, NEW a, NEW p
  PROVE  p \in LatestTexts(c, a) <=> \E x \in 1 .. a : x > a - c.max_texts /\ p = 2 * x - 1
BY DEF LatestTexts

LEMMA InLatestImages ==
  ASSUME NEW c, NEW a, NEW f, NEW p
  PROVE  p \in LatestImages(c, a, f)
           <=> \E x \in 1 .. f : x > f - c.max_images /\ p = ImageAt(a, x)
BY DEF LatestImages

\* The latest positions when an answer is added behind.
LEMMA LatestWithText ==
  ASSUME NEW c \in Config, NEW a \in Nat
  PROVE  LET L == 2 * a + 1
             q == 2 * (a + 1 - c.max_texts) - 1
         IN  /\ LatestImages(c, a + 1, a) = LatestImages(c, a, a)
             /\ L \notin Latest(c, a, a)
             /\ a < c.max_texts => LatestTexts(c, a + 1) = LatestTexts(c, a) \cup {L}
             /\ a >= c.max_texts =>
                  /\ LatestTexts(c, a + 1) = (LatestTexts(c, a) \cup {L}) \ {q}
                  /\ q \in LatestTexts(c, a) \cup {L}
                  /\ \A p \in LatestTexts(c, a) \cup {L} : q <= p
                  /\ q \notin LatestImages(c, a, a)
<1>. DEFINE L == 2 * a + 1
            q == 2 * (a + 1 - c.max_texts) - 1
            m == c.max_texts
<1>1. m \in Nat /\ c.max_images \in Nat
  BY DEF Config
<1>2. LatestImages(c, a + 1, a) = LatestImages(c, a, a)
  <2>1. \A n \in 1 .. a : ImageAt(a + 1, n) = ImageAt(a, n)
    BY DEF ImageAt
  <2>. QED  BY <2>1 DEF LatestImages
<1>3. ASSUME NEW p \in LatestImages(c, a, a) PROVE p # L /\ \A k \in Int : p # 2 * k - 1
  <2>1. PICK n \in 1 .. a : p = ImageAt(a, n)
    BY <1>3 DEF LatestImages
  <2>2. p = 2 * n
    BY <2>1 DEF ImageAt
  <2>. QED  BY <2>2
<1>4. ASSUME NEW p \in LatestTexts(c, a) PROVE p # L
  BY <1>4 DEF LatestTexts
<1>5. L \notin Latest(c, a, a)
  BY <1>3, <1>4 DEF Latest
<1>6. \A p : p \in LatestTexts(c, a) <=> \E x \in 1 .. a : x > a - m /\ p = 2 * x - 1
  <2>. SUFFICES ASSUME NEW p
                PROVE  p \in LatestTexts(c, a) <=> \E x \in 1 .. a : x > a - m /\ p = 2 * x - 1
    OBVIOUS
  <2>. QED  BY DEF LatestTexts
<1>7. \A p : p \in LatestTexts(c, a + 1) <=> \E x \in 1 .. a + 1 : x > a + 1 - m /\ p = 2 * x - 1
  <2>. SUFFICES ASSUME NEW p
                PROVE  p \in LatestTexts(c, a + 1) <=>
                         \E x \in 1 .. a + 1 : x > a + 1 - m /\ p = 2 * x - 1
    OBVIOUS
  <2>. QED  BY <1>1, InLatestTexts
<1>8. L = 2 * (a + 1) - 1 /\ 1 .. a + 1 = (1 .. a) \cup {a + 1} /\ a + 1 \notin 1 .. a
  OBVIOUS
<1>9. CASE a < m
  <2>1. ASSUME NEW p PROVE p \in LatestTexts(c, a + 1) <=> p \in LatestTexts(c, a) \cup {L}
    <3>1. ASSUME NEW x \in 1 .. a + 1, p = 2 * x - 1 PROVE p \in LatestTexts(c, a) \cup {L}
      <4>1. CASE x = a + 1
        BY <1>8, <3>1, <4>1
      <4>2. CASE x \in 1 .. a
        <5>1. x > a - m
          BY <1>1, <1>9, <4>2
        <5>. QED  BY <1>6, <3>1, <4>2, <5>1
      <4>. QED  BY <1>8, <4>1, <4>2
    <3>2. ASSUME NEW x \in 1 .. a, p = 2 * x - 1 PROVE p \in LatestTexts(c, a + 1)
      <4>1. x \in 1 .. a + 1 /\ x > a + 1 - m
        BY <1>1, <1>9
      <4>. QED  BY <1>7, <3>2, <4>1
    <3>3. L \in LatestTexts(c, a + 1)
      <4>1. a + 1 \in 1 .. a + 1 /\ a + 1 > a + 1 - m
        BY <1>1, <1>9
      <4>. QED  BY <1>7, <1>8, <4>1
    <3>. QED  BY <1>6, <1>7, <3>1, <3>2, <3>3
  <2>2. LatestTexts(c, a + 1) = LatestTexts(c, a) \cup {L}
    BY <2>1
  <2>3. ~(a >= m)
    BY <1>1, <1>9
  <2>. QED  BY <1>2, <1>5, <2>2, <2>3
<1>10. CASE a >= m
  <2>0. a + 1 - m \in 1 .. a + 1
    BY <1>1, <1>10
  <2>1. ASSUME NEW p PROVE p \in LatestTexts(c, a + 1) <=> p \in (LatestTexts(c, a) \cup {L}) \ {q}
    <3>1. ASSUME NEW x \in 1 .. a + 1, x > a + 1 - m, p = 2 * x - 1
          PROVE  p \in (LatestTexts(c, a) \cup {L}) \ {q}
      <4>0. p # q
        BY <1>1, <3>1
      <4>1. CASE x = a + 1
        BY <1>8, <3>1, <4>0, <4>1
      <4>2. CASE x \in 1 .. a
        <5>1. x > a - m
          BY <1>1, <3>1
        <5>. QED  BY <1>6, <3>1, <4>0, <4>2, <5>1
      <4>. QED  BY <1>8, <4>1, <4>2
    <3>2. ASSUME NEW x \in 1 .. a, x > a - m, p = 2 * x - 1, p # q PROVE p \in LatestTexts(c, a + 1)
      <4>1. x \in 1 .. a + 1 /\ x # a + 1 - m
        BY <1>1, <3>2
      <4>2. x > a + 1 - m
        BY <1>1, <3>2, <4>1
      <4>. QED  BY <1>7, <3>2, <4>1, <4>2
    <3>3. L # q => L \in LatestTexts(c, a + 1)
      <4>1. L # q => a + 1 \in 1 .. a + 1 /\ a + 1 > a + 1 - m
        BY <1>1, <1>10
      <4>. QED  BY <1>7, <1>8, <4>1
    <3>. QED  BY <1>6, <1>7, <3>1, <3>2, <3>3
  <2>2. LatestTexts(c, a + 1) = (LatestTexts(c, a) \cup {L}) \ {q}
    BY <2>1
  <2>3. q \in LatestTexts(c, a) \cup {L}
    <3>1. CASE m = 0
      BY <1>1, <3>1
    <3>2. CASE m # 0
      <4>1. a + 1 - m \in 1 .. a /\ a + 1 - m > a - m
        BY <1>1, <1>10, <3>2
      <4>. QED  BY <1>6, <4>1
    <3>. QED  BY <3>1, <3>2
  <2>4. \A p \in LatestTexts(c, a) \cup {L} : q <= p
    <3>1. ASSUME NEW p \in LatestTexts(c, a) PROVE q <= p
      <4>1. PICK x \in 1 .. a : x > a - m /\ p = 2 * x - 1
        BY <1>6, <3>1
      <4>. QED  BY <1>1, <4>1
    <3>2. q <= L
      BY <1>1
    <3>. QED  BY <3>1, <3>2
  <2>5. q \notin LatestImages(c, a, a)
    <3>1. a + 1 - m \in Int
      BY <1>1
    <3>. QED  BY <1>3, <3>1
  <2>6. ~(a < m)
    BY <1>1, <1>10
  <2>. QED  BY <1>2, <1>5, <2>2, <2>3, <2>4, <2>5, <2>6
<1>11. a < m \/ a >= m
  BY <1>1
<1>. QED  BY <1>9, <1>10, <1>11

\* The latest positions when an image is added behind.
LEMMA LatestWithImage ==
  ASSUME NEW c \in Config, NEW a \in Nat, NEW f \in Nat, f <= a, a <= f + 1
  PROVE  LET L == a + f + 1
             q == ImageAt(a, f + 1 - c.max_images)
         IN  /\ L \notin Latest(c, a, f)
             /\ f + 1 <= c.max_images => LatestImages(c, a, f + 1) = LatestImages(c, a, f) \cup {L}
             /\ f + 1 > c.max_images =>
                  /\ LatestImages(c, a, f + 1) = (LatestImages(c, a, f) \cup {L}) \ {q}
                  /\ q \in LatestImages(c, a, f) \cup {L}
                  /\ \A p \in LatestImages(c, a, f) \cup {L} : q <= p
                  /\ q \notin LatestTexts(c, a)
<1>. DEFINE L == a + f + 1
            m == c.max_images
            q == ImageAt(a, f + 1 - m)
<1>1. m \in Nat /\ m # 0 /\ c.max_texts \in Nat
  BY DEF Config
<1>2. L = ImageAt(a, f + 1) /\ L \in Int
  BY DEF ImageAt
<1>3. \A x \in 1 .. f + 1 : ImageAt(a, x) \in Int /\ \A k \in 1 .. a : ImageAt(a, x) # 2 * k - 1
  BY DEF ImageAt
<1>4. \A x, y \in 1 .. f + 1 : x < y => ImageAt(a, x) < ImageAt(a, y)
  BY DEF ImageAt
<1>5. \A p : p \in LatestTexts(c, a) => \E k \in 1 .. a : p = 2 * k - 1
  BY DEF LatestTexts
<1>6. \A p : p \in LatestImages(c, a, f) <=> \E x \in 1 .. f : x > f - m /\ p = ImageAt(a, x)
  <2>. SUFFICES ASSUME NEW p
                PROVE  p \in LatestImages(c, a, f) <=>
                         \E x \in 1 .. f : x > f - m /\ p = ImageAt(a, x)
    OBVIOUS
  <2>. QED  BY DEF LatestImages
<1>7. \A p : p \in LatestImages(c, a, f + 1)
               <=> \E x \in 1 .. f + 1 : x > f + 1 - m /\ p = ImageAt(a, x)
  <2>. SUFFICES ASSUME NEW p
                PROVE  p \in LatestImages(c, a, f + 1)
                         <=> \E x \in 1 .. f + 1 : x > f + 1 - m /\ p = ImageAt(a, x)
    OBVIOUS
  <2>. QED  BY <1>1, InLatestImages
<1>8. 1 .. f + 1 = (1 .. f) \cup {f + 1} /\ f + 1 \notin 1 .. f
  OBVIOUS
<1>9. L \notin Latest(c, a, f)
  <2>1. ASSUME L \in LatestTexts(c, a) PROVE FALSE
    <3>1. f + 1 \in 1 .. f + 1
      OBVIOUS
    <3>. QED  BY <1>2, <1>3, <1>5, <2>1, <3>1
  <2>2. ASSUME L \in LatestImages(c, a, f) PROVE FALSE
    <3>1. PICK x \in 1 .. f : L = ImageAt(a, x)
      BY <1>6, <2>2
    <3>2. x \in 1 .. f + 1 /\ f + 1 \in 1 .. f + 1 /\ x < f + 1
      OBVIOUS
    <3>3. L < L
      BY <1>2, <1>4, <3>1, <3>2
    <3>. QED  BY <1>2, <3>3
  <2>. QED  BY <2>1, <2>2 DEF Latest
<1>. HIDE DEF L, q, m
<1>10. CASE f + 1 <= m
  <2>1. ASSUME NEW p
        PROVE  p \in LatestImages(c, a, f + 1) <=> p \in LatestImages(c, a, f) \cup {L}
    <3>1. ASSUME NEW x \in 1 .. f + 1, p = ImageAt(a, x) PROVE p \in LatestImages(c, a, f) \cup {L}
      <4>1. CASE x = f + 1
        BY <1>2, <3>1, <4>1
      <4>2. CASE x \in 1 .. f
        <5>1. x > f - m
          BY <1>1, <1>10, <4>2
        <5>. QED  BY <1>6, <3>1, <4>2, <5>1
      <4>. QED  BY <1>8, <4>1, <4>2
    <3>2. ASSUME NEW x \in 1 .. f, p = ImageAt(a, x) PROVE p \in LatestImages(c, a, f + 1)
      <4>1. x \in 1 .. f + 1 /\ x > f + 1 - m
        BY <1>1, <1>10
      <4>. QED  BY <1>7, <3>2, <4>1
    <3>3. L \in LatestImages(c, a, f + 1)
      <4>1. f + 1 \in 1 .. f + 1 /\ f + 1 > f + 1 - m
        BY <1>1, <1>10
      <4>. QED  BY <1>2, <1>7, <4>1
    <3>. QED  BY <1>6, <1>7, <3>1, <3>2, <3>3
  <2>2. LatestImages(c, a, f + 1) = LatestImages(c, a, f) \cup {L}
    BY <2>1
  <2>3. ~(f + 1 > m)
    BY <1>1, <1>10
  <2>. QED  BY <1>9, <2>2, <2>3 DEF L, q, m
<1>11. CASE f + 1 > m
  <2>. DEFINE y == f + 1 - m
  <2>0. y \in 1 .. f /\ y \in 1 .. f + 1 /\ q = ImageAt(a, y) /\ f + 1 \in 1 .. f + 1 /\ y > f - m
    BY <1>1, <1>11 DEF q
  <2>. HIDE DEF y
  <2>1. ASSUME NEW p
        PROVE  p \in LatestImages(c, a, f + 1) <=> p \in (LatestImages(c, a, f) \cup {L}) \ {q}
    <3>1. ASSUME NEW x \in 1 .. f + 1, x > f + 1 - m, p = ImageAt(a, x)
          PROVE  p \in (LatestImages(c, a, f) \cup {L}) \ {q}
      <4>0. p # q
        <5>1. y < x
          BY <3>1 DEF y
        <5>2. ImageAt(a, y) < ImageAt(a, x) /\ ImageAt(a, x) \in Int
          BY <1>3, <1>4, <2>0, <5>1
        <5>. QED  BY <2>0, <3>1, <5>2
      <4>1. CASE x = f + 1
        BY <1>2, <3>1, <4>0, <4>1
      <4>2. CASE x \in 1 .. f
        <5>1. x > f - m
          BY <1>1, <3>1
        <5>. QED  BY <1>6, <3>1, <4>0, <4>2, <5>1
      <4>. QED  BY <1>8, <4>1, <4>2
    <3>2. ASSUME NEW x \in 1 .. f, x > f - m, p = ImageAt(a, x), p # q
          PROVE  p \in LatestImages(c, a, f + 1)
      <4>1. x \in 1 .. f + 1 /\ x # f + 1 - m
        BY <2>0, <3>2 DEF y
      <4>2. x > f + 1 - m
        BY <1>1, <3>2, <4>1
      <4>. QED  BY <1>7, <3>2, <4>1, <4>2
    <3>3. L \in LatestImages(c, a, f + 1)
      <4>1. f + 1 \in 1 .. f + 1 /\ f + 1 > f + 1 - m
        BY <1>1
      <4>. QED  BY <1>2, <1>7, <4>1
    <3>. QED  BY <1>6, <1>7, <3>1, <3>2, <3>3
  <2>2. LatestImages(c, a, f + 1) = (LatestImages(c, a, f) \cup {L}) \ {q}
    BY <2>1
  <2>3. q \in LatestImages(c, a, f) \cup {L}
    BY <1>6, <2>0
  <2>4. \A p \in LatestImages(c, a, f) \cup {L} : q <= p
    <3>1. ASSUME NEW x \in 1 .. f + 1, x >= y PROVE q <= ImageAt(a, x)
      <4>1. x = y \/ y < x
        BY <2>0, <3>1
      <4>2. ImageAt(a, y) \in Int /\ ImageAt(a, x) \in Int
        BY <1>3, <2>0
      <4>. QED  BY <1>4, <2>0, <4>1, <4>2
    <3>2. ASSUME NEW p \in LatestImages(c, a, f) PROVE q <= p
      <4>1. PICK x \in 1 .. f : x > f - m /\ p = ImageAt(a, x)
        BY <1>6, <3>2
      <4>2. x \in 1 .. f + 1 /\ x >= y
        BY <1>1, <4>1 DEF y
      <4>. QED  BY <3>1, <4>1, <4>2
    <3>3. q <= L
      <4>1. f + 1 >= y
        BY <2>0
      <4>. QED  BY <1>2, <2>0, <3>1, <4>1
    <3>. QED  BY <3>2, <3>3
  <2>5. q \notin LatestTexts(c, a)
    BY <1>3, <1>5, <2>0
  <2>6. ~(f + 1 <= m)
    BY <1>1, <1>11
  <2>. QED  BY <1>9, <2>2, <2>3, <2>4, <2>5, <2>6 DEF L, q, m
<1>12. f + 1 <= m \/ f + 1 > m
  BY <1>1
<1>. QED  BY <1>10, <1>11, <1>12

\* _add_text keeps the window on the latest messages.
LEMMA AddTextFramed ==
  ASSUME cfg \in Config, NEW s, NEW a, Alternates(s, a, a),
         NEW w, Framed(w, cfg, s, a, a)
  PROVE  Framed(AddText(w, a + 1), cfg, Append(s, Answer(a + 1)), a + 1, a)
<1>. DEFINE t == Append(s, Answer(a + 1))
            P == Latest(cfg, a, a)
            L == 2 * a + 1
            v == WithText(w, a + 1)
            q == 2 * (a + 1 - cfg.max_texts) - 1
            Q == P \cup {L}
            T == LatestTexts(cfg, a)
            R == LatestImages(cfg, a, a)
<1>1. /\ s \in Seq(Message) /\ a \in Nat /\ Len(s) = a + a /\ a + 1 \in Nat
      /\ cfg.max_texts \in Nat /\ cfg.max_images \in Nat
  BY DEF Alternates, Config
<1>2. /\ P \in SUBSET (1 .. a + a) /\ IsFiniteSet(P)
      /\ \A i \in P : s[i] \in Message
      /\ {p \in P : HasImage(s[p])} = R /\ {p \in P : IsAnswer(s[p])} = T
  BY LatestPlaces
<1>3. /\ LatestImages(cfg, a + 1, a) = R
      /\ L \notin P
      /\ a < cfg.max_texts => LatestTexts(cfg, a + 1) = T \cup {L}
      /\ a >= cfg.max_texts =>
           /\ LatestTexts(cfg, a + 1) = (T \cup {L}) \ {q}
           /\ q \in T \cup {L}
           /\ \A p \in T \cup {L} : q <= p
           /\ q \notin R
  BY <1>1, LatestWithText
<1>4. P = T \cup R
  BY DEF Latest
<1>5. Answer(a + 1) \in Message /\ IsAnswer(Answer(a + 1)) /\ ~HasImage(Answer(a + 1))
  BY <1>1, MessageTypes DEF IsAnswer, HasImage, Answer
<1>6. (\A i \in P : t[i] = s[i]) /\ t[L] = Answer(a + 1)
  BY <1>1, <1>2, <1>5
<1>. HIDE DEF t
<1>7. P \in SUBSET Int /\ L \in Int /\ Behind(L, P)
  BY <1>1, <1>2 DEF Behind
<1>. HIDE DEF P, L, T, R, q
<1>8. \A i \in P : t[i] \in Message
  BY <1>2, <1>6
<1>9. Shows(w, t, P)
  <2>1. Shows(w, s, P)
    BY DEF Framed, P
  <2>2. \A i \in P : s[i] = t[i]
    BY <1>6
  <2>. QED  BY <1>2, <1>7, <2>1, <2>2, ShowsSame
<1>10. Shows(v, t, Q) /\ v.base_images = w.base_images
  <2>1. IsFiniteSet(P) /\ t[L] = Answer(a + 1) /\ a + 1 \in Nat
    BY <1>1, <1>2, <1>6
  <2>2. Shows(WithText(w, a + 1), t, P \cup {L}) /\ WithText(w, a + 1).base_images = w.base_images
    BY <1>7, <1>8, <1>9, <2>1, ShowsText
  <2>. QED  BY <2>2
<1>. HIDE DEF v
<1>11. Q \in SUBSET Int /\ IsFiniteSet(Q) /\ \A i \in Q : t[i] \in Message
  BY <1>2, <1>5, <1>6, <1>7, <1>8, FS_AddElement
<1>12. {p \in Q : HasImage(t[p])} = R
  BY <1>2, <1>3, <1>5, <1>6
<1>13. {p \in Q : IsAnswer(t[p])} = T \cup {L}
  BY <1>2, <1>3, <1>5, <1>6
<1>. HIDE DEF Q
<1>14. /\ Len(v.image_refs) = (IF v.base_images = <<>> THEN 0 ELSE 1) + Cardinality(R)
       /\ Cardinality(Texts(v.prompt_dialogue)) = Cardinality(T \cup {L})
  <2>1. /\ Len(v.image_refs) = (IF v.base_images = <<>> THEN 0 ELSE 1)
                                + Cardinality({p \in Q : HasImage(t[p])})
        /\ Cardinality(Texts(v.prompt_dialogue)) = Cardinality({p \in Q : IsAnswer(t[p])})
    BY <1>10, <1>11, ShowsCount
  <2>. QED  BY <1>12, <1>13, <2>1
<1>15. Cardinality(R) = Smaller(a, cfg.max_images) /\ Cardinality(T) = Smaller(a, cfg.max_texts)
  <2>1. a <= a + 1
    BY <1>1
  <2>. QED  BY <1>1, <2>1, LatestCount DEF R, T
<1>16. v.base_images = Base(cfg, a)
  BY <1>10 DEF Framed
<1>17. ~TooManyImages(v)
  BY <1>1, <1>14, <1>15, <1>16 DEF TooManyImages, Base, Smaller
<1>18. Cardinality(T \cup {L}) = Smaller(a, cfg.max_texts) + 1
  <2>1. L \notin T
    BY <1>3, <1>4
  <2>2. IsFiniteSet(T)
    BY <1>2, <1>4, FS_Subset
  <2>. QED  BY <1>15, <2>1, <2>2, FS_AddElement
<1>19. TooManyTexts(v) <=> a >= cfg.max_texts
  BY <1>1, <1>14, <1>18 DEF TooManyTexts, Smaller
<1>20. AddText(w, a + 1) = IF a >= cfg.max_texts THEN DropText(v) ELSE v
  BY <1>17, <1>19, AddTrims DEF Trim, v
<1>21. Latest(cfg, a + 1, a) = LatestTexts(cfg, a + 1) \cup R
  BY <1>3 DEF Latest
<1>22. CASE a < cfg.max_texts
  <2>1. Latest(cfg, a + 1, a) = Q
    BY <1>3, <1>4, <1>21, <1>22 DEF Q
  <2>2. AddText(w, a + 1) = v
    BY <1>1, <1>20, <1>22
  <2>. QED  BY <1>10, <1>16, <2>1, <2>2 DEF Framed, t
<1>23. CASE a >= cfg.max_texts
  <2>1. Latest(cfg, a + 1, a) = Q \ {q}
    BY <1>3, <1>4, <1>21, <1>23 DEF Q
  <2>2. q \in Q /\ IsAnswer(t[q]) /\ ~HasImage(t[q]) /\ \A p \in Q : IsAnswer(t[p]) => q <= p
    <3>1. q \in T \cup {L} /\ \A p \in T \cup {L} : q <= p
      BY <1>3, <1>23
    <3>2. q \notin R
      BY <1>3, <1>23
    <3>. QED  BY <1>12, <1>13, <3>1, <3>2
  <2>3. Shows(DropText(v), t, Q \ {q}) /\ DropText(v).base_images = v.base_images
    BY <1>10, <1>11, <2>2, ShowsDropText
  <2>4. AddText(w, a + 1) = DropText(v)
    BY <1>20, <1>23
  <2>. QED  BY <1>16, <2>1, <2>3, <2>4 DEF Framed, t
<1>24. a < cfg.max_texts \/ a >= cfg.max_texts
  BY <1>1
<1>. QED  BY <1>22, <1>23, <1>24

\* _add_image does as well.
LEMMA AddImageFramed ==
  ASSUME cfg \in Config, NEW s, NEW a, NEW f, Alternates(s, a, f), f <= a,
         NEW w, Framed(w, cfg, s, a, f)
  PROVE  Framed(AddImage(w, f + 1), cfg, Append(s, Image(f + 1)), a, f + 1)
<1>. DEFINE t == Append(s, Image(f + 1))
            P == Latest(cfg, a, f)
            L == a + f + 1
            v == WithImage(w, f + 1)
            q == ImageAt(a, f + 1 - cfg.max_images)
            Q == P \cup {L}
            T == LatestTexts(cfg, a)
            R == LatestImages(cfg, a, f)
<1>1. /\ s \in Seq(Message) /\ a \in Nat /\ f \in Nat /\ Len(s) = a + f /\ f + 1 \in Nat
      /\ a <= f + 1 /\ f <= a + 1
      /\ cfg.max_texts \in Nat /\ cfg.max_images \in Nat /\ cfg.max_images # 0
  BY DEF Alternates, Config
<1>2. /\ P \in SUBSET (1 .. a + f) /\ IsFiniteSet(P)
      /\ \A i \in P : s[i] \in Message
      /\ {p \in P : HasImage(s[p])} = R /\ {p \in P : IsAnswer(s[p])} = T
  BY LatestPlaces
<1>3. /\ L \notin P
      /\ f + 1 <= cfg.max_images => LatestImages(cfg, a, f + 1) = R \cup {L}
      /\ f + 1 > cfg.max_images =>
           /\ LatestImages(cfg, a, f + 1) = (R \cup {L}) \ {q}
           /\ q \in R \cup {L}
           /\ \A p \in R \cup {L} : q <= p
           /\ q \notin T
  BY <1>1, LatestWithImage
<1>4. P = T \cup R
  BY DEF Latest
<1>5. Image(f + 1) \in Message /\ ~IsAnswer(Image(f + 1)) /\ HasImage(Image(f + 1))
  BY <1>1, MessageTypes DEF IsAnswer, HasImage, Image
<1>6. (\A i \in P : t[i] = s[i]) /\ t[L] = Image(f + 1)
  BY <1>1, <1>2, <1>5
<1>. HIDE DEF t
<1>7. P \in SUBSET Int /\ L \in Int /\ Behind(L, P)
  BY <1>1, <1>2 DEF Behind
<1>. HIDE DEF P, L, T, R, q
<1>8. \A i \in P : t[i] \in Message
  BY <1>2, <1>6
<1>9. Shows(w, t, P)
  <2>1. Shows(w, s, P)
    BY DEF Framed, P
  <2>2. \A i \in P : s[i] = t[i]
    BY <1>6
  <2>. QED  BY <1>2, <1>7, <2>1, <2>2, ShowsSame
<1>10. Shows(v, t, Q) /\ v.base_images = w.base_images
  <2>1. IsFiniteSet(P) /\ t[L] = Image(f + 1) /\ f + 1 \in Nat
    BY <1>1, <1>2, <1>6
  <2>2. Shows(WithImage(w, f + 1), t, P \cup {L}) /\ WithImage(w, f + 1).base_images = w.base_images
    BY <1>7, <1>8, <1>9, <2>1, ShowsImage
  <2>. QED  BY <2>2
<1>. HIDE DEF v
<1>11. Q \in SUBSET Int /\ IsFiniteSet(Q) /\ \A i \in Q : t[i] \in Message
  BY <1>2, <1>5, <1>6, <1>7, <1>8, FS_AddElement
<1>12. {p \in Q : HasImage(t[p])} = R \cup {L}
  BY <1>2, <1>3, <1>5, <1>6
<1>13. {p \in Q : IsAnswer(t[p])} = T
  BY <1>2, <1>3, <1>5, <1>6
<1>. HIDE DEF Q
<1>14. /\ Len(v.image_refs) = (IF v.base_images = <<>> THEN 0 ELSE 1) + Cardinality(R \cup {L})
       /\ Cardinality(Texts(v.prompt_dialogue)) = Cardinality(T)
  <2>1. /\ Len(v.image_refs) = (IF v.base_images = <<>> THEN 0 ELSE 1)
                                + Cardinality({p \in Q : HasImage(t[p])})
        /\ Cardinality(Texts(v.prompt_dialogue)) = Cardinality({p \in Q : IsAnswer(t[p])})
    BY <1>10, <1>11, ShowsCount
  <2>. QED  BY <1>12, <1>13, <2>1
<1>15. Cardinality(R) = Smaller(f, cfg.max_images) /\ Cardinality(T) = Smaller(a, cfg.max_texts)
  BY <1>1, LatestCount DEF R, T
<1>16. v.base_images = Base(cfg, f)
  BY <1>10 DEF Framed
<1>17. Cardinality(R \cup {L}) = Smaller(f, cfg.max_images) + 1
  <2>1. L \notin R
    BY <1>3, <1>4
  <2>2. IsFiniteSet(R)
    BY <1>2, <1>4, FS_Subset
  <2>. QED  BY <1>15, <2>1, <2>2, FS_AddElement
<1>18. TooManyImages(v) <=> f + 1 >= cfg.max_images
  BY <1>1, <1>14, <1>16, <1>17 DEF TooManyImages, Base, Smaller
<1>19. ~TooManyTexts(v)
  BY <1>1, <1>14, <1>15 DEF TooManyTexts, Smaller
<1>20. AddImage(w, f + 1) = IF f + 1 >= cfg.max_images THEN DropImage(v) ELSE v
  BY <1>18, <1>19, AddTrims DEF Trim, v
<1>21. Latest(cfg, a, f + 1) = T \cup LatestImages(cfg, a, f + 1)
  BY DEF Latest, T
<1>22. CASE f + 1 < cfg.max_images
  <2>1. Latest(cfg, a, f + 1) = Q
    BY <1>1, <1>3, <1>4, <1>21, <1>22 DEF Q
  <2>2. AddImage(w, f + 1) = v
    BY <1>1, <1>20, <1>22
  <2>3. Base(cfg, f) = Base(cfg, f + 1)
    BY <1>1, <1>22 DEF Base
  <2>. QED  BY <1>10, <1>16, <2>1, <2>2, <2>3 DEF Framed, t
<1>23. CASE f + 1 = cfg.max_images
  <2>1. Latest(cfg, a, f + 1) = Q
    BY <1>1, <1>3, <1>4, <1>21, <1>23 DEF Q
  <2>2. AddImage(w, f + 1) = DropImage(v)
    BY <1>1, <1>20, <1>23
  <2>3. v.base_images = <<0>> /\ Base(cfg, f + 1) = <<>>
    BY <1>1, <1>16, <1>23 DEF Base
  <2>4. Shows(DropImage(v), t, Q) /\ DropImage(v).base_images = <<>>
    BY <1>10, <1>11, <2>3, ShowsDropBase
  <2>. QED  BY <2>1, <2>2, <2>3, <2>4 DEF Framed, t
<1>24. CASE f + 1 > cfg.max_images
  <2>1. Latest(cfg, a, f + 1) = Q \ {q}
    BY <1>3, <1>4, <1>21, <1>24 DEF Q
  <2>2. q \in Q /\ HasImage(t[q]) /\ \A p \in Q : HasImage(t[p]) => q <= p
    <3>1. q \in R \cup {L} /\ \A p \in R \cup {L} : q <= p
      BY <1>3, <1>24
    <3>. QED  BY <1>12, <3>1
  <2>3. v.base_images = <<>> /\ Base(cfg, f + 1) = <<>>
    BY <1>1, <1>16, <1>24 DEF Base
  <2>4. Shows(DropImage(v), t, Q \ {q}) /\ DropImage(v).base_images = <<>>
    BY <1>10, <1>11, <2>2, <2>3, ShowsDropImage
  <2>5. AddImage(w, f + 1) = DropImage(v)
    BY <1>1, <1>20, <1>24
  <2>. QED  BY <2>1, <2>3, <2>4, <2>5 DEF Framed, t
<1>25. f + 1 < cfg.max_images \/ f + 1 = cfg.max_images \/ f + 1 > cfg.max_images
  BY <1>1
<1>. QED  BY <1>22, <1>23, <1>24, <1>25

\* _set_first_frame: the window of a conversation that has not begun.
LEMMA FirstFramed ==
  ASSUME NEW c \in Config
  PROVE  /\ Framed(SetFirstFrame(EmptyWindow), c, <<>>, 0, 0)
         /\ Alternates(<<>>, 0, 0)
<1>1. LatestTexts(c, 0) = {} /\ LatestImages(c, 0, 0) = {}
  BY DEF LatestTexts, LatestImages
<1>2. Latest(c, 0, 0) = {} /\ Cardinality({}) = 0
  BY <1>1, FS_EmptySet DEF Latest
<1>3. At(<<>>, {}) = <<>> /\ Images(<<>>) = {} /\ RefList({}) = <<>>
  BY <1>2 DEF At, Images, RefList
<1>4. c.max_images \in Nat /\ c.max_images # 0
  BY DEF Config
<1>5. Base(c, 0) = <<0>> /\ BaseRefs(<<0>>) = <<BaseRef>>
  BY <1>4 DEF Base, BaseRefs
<1>. DEFINE w == SetFirstFrame(EmptyWindow)
<1>6. w = [base_images |-> <<0>>, prompt_dialogue |-> <<>>, save_dialogue |-> <<>>,
           image_refs |-> <<BaseRef>>]
  <2>1. Append(<<>>, BaseRef) = <<BaseRef>>
    OBVIOUS
  <2>2. w = [EmptyWindow EXCEPT !.base_images = <<0>>, !.image_refs = <<BaseRef>>]
    BY <2>1 DEF SetFirstFrame, EmptyWindow
  <2>. QED  BY <2>2 DEF EmptyWindow
<1>7. BaseRef \in Ref /\ <<BaseRef>> \o <<>> = <<BaseRef>>
  BY DEF BaseRef, Ref
<1>8. Framed(w, c, <<>>, 0, 0)
  <2>. HIDE DEF w
  <2>1. w \in Window
    BY <1>6, <1>7 DEF Window
  <2>2. w.image_refs = BaseRefs(w.base_images) \o RefList(Images(w.prompt_dialogue))
    BY <1>3, <1>5, <1>6, <1>7
  <2>. QED  BY <1>2, <1>3, <1>5, <1>6, <2>1, <2>2 DEF Framed, Shows
<1>. QED  BY <1>8 DEF Alternates

(***************************************************************************)
(* The invariant: the window shows the latest messages of the conversation, *)
(* and a prompt is what the window was when the answer was asked for.      *)
(***************************************************************************)
\* What a prompt or a row is made of.
Talk == [role : {"system", "user", "assistant"}, text : Int,
         images : {<<>>} \cup {<<n>> : n \in Nat}]

\* The prompt of an answer that j answers and j frames came before.
PromptOf(c, s, j) == <<SystemPrompt, Instruction(Base(c, j))>> \o At(s, Latest(c, j, j))

\* The frames behind the first.
Frames == Len(full) - Answered

Fresh == win = EmptyWindow /\ full = <<>> /\ served = <<>>

Early == {"save_task_config", "env", "first_frame"}
Late  == {"save_reward", "save_episode", "split_episode", "insert"}

\* The window, the conversation and the prompts.
Dialogue ==
  /\ cfg \in Config
  /\ served \in Seq(Seq(Talk))
  /\ Alternates(full, Answered, Frames)
  /\ Fresh \/ Framed(win, cfg, full, Answered, Frames)
  /\ \A k \in 1 .. Answered : served[k] = PromptOf(cfg, full, k - 1)

\* How far the conversation is when the coroutine is at a place.
Progress ==
  /\ pc \in Places /\ done \in BOOLEAN /\ step \in Nat
  /\ step <= cfg.max_steps /\ Answered <= cfg.max_steps /\ Frames <= cfg.max_steps
  /\ pc \in Early => Fresh /\ step = 0 /\ done = FALSE
  /\ pc \notin Early \cup {"returned", "killed"} => Framed(win, cfg, full, Answered, Frames)
  /\ pc \in {"loop", "generate"} =>
       Answered = step /\ Frames = step /\ done = FALSE /\ step < cfg.max_steps
  /\ pc \in {"step", "save_frame"} =>
       /\ Frames = step /\ step < cfg.max_steps
       /\ Answered = step + 1 \/ (Answered = step /\ done = TRUE)
  /\ pc = "save_partial_traj" =>
       /\ Frames = step + 1 /\ step < cfg.max_steps
       /\ Answered = step + 1 \/ (Answered = step /\ done = TRUE)
  /\ pc \in Late => Answered = Frames \/ Answered + 1 = Frames

\* The files, as far as types go.
Files ==
  /\ disk = [frames |-> disk.frames, partials |-> disk.partials, reward |-> disk.reward,
             final |-> disk.final, chunks |-> disk.chunks]
  /\ disk.frames \subseteq 0 .. cfg.max_steps
  /\ disk.reward \in BOOLEAN /\ row \in BOOLEAN

DialogueInv == cfg \in Configs /\ Dialogue /\ Progress /\ Files

LEMMA InitDialogue == Init => DialogueInv
<1>. SUFFICES ASSUME Init PROVE DialogueInv
  OBVIOUS
<1>1. /\ cfg \in Configs /\ step = 0 /\ row = FALSE /\ pc = "save_task_config"
      /\ full = <<>> /\ served = <<>>
      /\ win = EmptyWindow /\ done = FALSE
      /\ disk = [frames |-> {}, partials |-> <<>>, reward |-> FALSE,
                 final |-> <<>>, chunks |-> <<>>]
  BY DEF Init
<1>2. cfg \in Config /\ cfg.max_steps \in Nat
  BY <1>1, ConfigsAssumption DEF Config
<1>3. Answered = 0 /\ Frames = 0
  BY <1>1 DEF Answered, Frames
<1>4. Dialogue
  <2>1. Alternates(full, Answered, Frames)
    BY <1>1, <1>2, <1>3, FirstFramed
  <2>2. served \in Seq(Seq(Talk)) /\ 1 .. Answered = {}
    BY <1>1, <1>3
  <2>. QED  BY <1>1, <1>2, <2>1, <2>2 DEF Dialogue, Fresh
<1>5. Progress
  <2>1. /\ pc \in Places /\ pc \in Early /\ pc \notin Late
        /\ pc \notin {"loop", "generate"} /\ pc \notin {"step", "save_frame"}
        /\ pc # "save_partial_traj" /\ done \in BOOLEAN /\ step \in Nat
    BY <1>1 DEF Places, Calls, Early, Late
  <2>2. Fresh /\ step = 0 /\ done = FALSE
    BY <1>1 DEF Fresh
  <2>3. step <= cfg.max_steps /\ Answered <= cfg.max_steps /\ Frames <= cfg.max_steps
    BY <1>2, <1>3, <2>2
  <2>. QED  BY <2>1, <2>2, <2>3 DEF Progress
<1>6. Files
  BY <1>1 DEF Files
<1>. QED  BY <1>1, <1>4, <1>5, <1>6 DEF DialogueInv

\* Prompts already given do not change with the conversation.
LEMMA PromptKept ==
  ASSUME NEW c \in Config, NEW s, NEW a, NEW f, Alternates(s, a, f), NEW m \in Message,
         NEW j \in Nat, j <= a, j <= f
  PROVE  PromptOf(c, Append(s, m), j) = PromptOf(c, s, j)
<1>. DEFINE P == Latest(c, j, j)
<1>1. s \in Seq(Message) /\ a \in Nat /\ f \in Nat /\ Len(s) = a + f
  BY DEF Alternates
<1>2. P \in SUBSET (1 .. j + j) /\ IsFiniteSet(P)
  <2>1. j <= j + 1
    OBVIOUS
  <2>. QED  BY <2>1, LatestBounds
<1>. HIDE DEF P
<1>3. P \in SUBSET Int /\ \A i \in P : i \in 1 .. Len(s)
  BY <1>1, <1>2
<1>4. \A i \in P : Append(s, m)[i] = s[i]
  BY <1>1, <1>3
<1>5. At(Append(s, m), P) = At(s, P)
  BY <1>2, <1>3, <1>4, AtSame
<1>. QED  BY <1>5 DEF PromptOf, P

LEMMA TalkTypes ==
  /\ Message \subseteq Talk /\ SystemPrompt \in Talk
  /\ Instruction(<<>>) \in Talk /\ Instruction(<<0>>) \in Talk
BY DEF Talk, Message, SystemPrompt, Instruction

\* The prompt is a sequence of messages.
LEMMA PromptTyped ==
  ASSUME NEW c, NEW s, NEW a, NEW f, Alternates(s, a, f), NEW j \in Nat, j <= a, j <= f
  PROVE  /\ PromptOf(c, s, j) \in Seq(Talk)
         /\ At(s, Latest(c, j, j)) \in Seq(Talk)
         /\ Len(PromptOf(c, s, j)) = 2 + Cardinality(Latest(c, j, j))
<1>. DEFINE P == Latest(c, j, j)
            h == <<SystemPrompt, Instruction(Base(c, j))>>
<1>1. s \in Seq(Message) /\ a \in Nat /\ f \in Nat /\ Len(s) = a + f
  BY DEF Alternates
<1>2. P \in SUBSET (1 .. j + j) /\ IsFiniteSet(P)
  <2>1. j <= j + 1
    OBVIOUS
  <2>. QED  BY <2>1, LatestBounds
<1>3. h \in Seq(Talk) /\ Len(h) = 2
  <2>1. Instruction(Base(c, j)) \in Talk
    BY TalkTypes DEF Base
  <2>. QED  BY <2>1, TalkTypes
<1>. HIDE DEF P, h
<1>4. P \in SUBSET Int /\ \A i \in P : s[i] \in Message
  <2>1. \A i \in P : i \in 1 .. Len(s)
    BY <1>1, <1>2
  <2>. QED  BY <1>1, <1>2, <2>1
<1>5. At(s, P) \in Seq(Message) /\ Len(At(s, P)) = Cardinality(P)
  BY <1>2, <1>4, AtSeq
<1>6. At(s, P) \in Seq(Talk)
  BY <1>5, TalkTypes, SeqMonotonic
<1>7. h \o At(s, P) \in Seq(Talk) /\ Len(h \o At(s, P)) = 2 + Cardinality(P)
  <2>. DEFINE g == At(s, P)
  <2>1. g \in Seq(Talk) /\ Len(g) = Cardinality(P)
    BY <1>5, <1>6
  <2>. HIDE DEF g
  <2>2. h \o g \in Seq(Talk) /\ Len(h \o g) = Len(h) + Len(g)
    BY <1>3, <2>1, ConcatProperties
  <2>. QED  BY <1>3, <2>1, <2>2 DEF g
<1>. QED  BY <1>6, <1>7 DEF PromptOf, P, h

\* A step that leaves the dialogue alone.
LEMMA SameDialogue ==
  ASSUME Dialogue, UNCHANGED <<cfg, win, full, served>>
  PROVE  /\ Dialogue' /\ Answered' = Answered /\ Frames' = Frames
         /\ Fresh' <=> Fresh
         /\ Framed(win, cfg, full, Answered, Frames)' <=> Framed(win, cfg, full, Answered, Frames)
<1>1. Answered' = Answered /\ Frames' = Frames
  BY DEF Answered, Frames
<1>2. Fresh' <=> Fresh
  BY DEF Fresh
<1>3. Framed(win, cfg, full, Answered, Frames)' <=> Framed(win, cfg, full, Answered, Frames)
  BY <1>1
<1>4. Alternates(full, Answered, Frames)'
  BY <1>1 DEF Dialogue
<1>5. \A k \in 1 .. Answered' : served'[k] = PromptOf(cfg, full, k - 1)'
  BY <1>1 DEF Dialogue
<1>. QED  BY <1>1, <1>2, <1>3, <1>4, <1>5 DEF Dialogue

Quiet == UNCHANGED <<cfg, win, full, served>>

\* The steps that leave the dialogue alone keep the invariant.
LEMMA QuietStep ==
  ASSUME DialogueInv,
         \/ ConfigSaved \/ EnvReady \/ LastStep \/ Ask \/ NoAnswer \/ Stepped \/ SavePartial
         \/ SaveReward \/ SaveEpisode \/ SplitEpisode \/ Insert \/ Raises \/ Killed
         \/ UNCHANGED vars
  PROVE  DialogueInv'
<1>. DEFINE InFrame == Framed(win, cfg, full, Answered, Frames)
<1>1. Quiet
  BY DEF ConfigSaved, EnvReady, LastStep, Ask, NoAnswer, Stepped, SavePartial, SaveReward,
         SaveEpisode, SplitEpisode, Insert, Raises, Killed, vars, Quiet
<1>2. /\ Dialogue' /\ Answered' = Answered /\ Frames' = Frames
      /\ Fresh' <=> Fresh
      /\ InFrame' <=> InFrame
  BY <1>1, SameDialogue DEF DialogueInv, Quiet
<1>3. cfg' = cfg /\ cfg' \in Configs
  BY <1>1 DEF Quiet, DialogueInv
<1>4. Progress /\ Files /\ cfg.max_steps \in Nat /\ Answered \in Nat /\ Frames \in Int
  <2>1. cfg \in Config /\ Answered \in Nat /\ Frames \in Nat
    BY DEF DialogueInv, Dialogue, Alternates
  <2>. QED  BY <2>1 DEF DialogueInv, Config
<1>5. Files'
  <2>1. CASE SavePartial
    BY <1>3, <1>4, <2>1 DEF SavePartial, Files
  <2>2. CASE SaveReward
    BY <1>3, <1>4, <2>2 DEF SaveReward, Files
  <2>3. CASE SaveEpisode
    BY <1>3, <1>4, <2>3 DEF SaveEpisode, Files
  <2>4. CASE SplitEpisode
    BY <1>3, <1>4, <2>4 DEF SplitEpisode, Files
  <2>5. CASE Insert
    <3>1. cfg.model_pool \in BOOLEAN
      BY ConfigsAssumption DEF DialogueInv, Config
    <3>. QED  BY <1>3, <1>4, <2>5, <3>1 DEF Insert, Files
  <2>6. CASE UNCHANGED <<disk, row>>
    BY <1>3, <1>4, <2>6 DEF Files
  <2>. QED  BY <2>1, <2>2, <2>3, <2>4, <2>5, <2>6
       DEF ConfigSaved, EnvReady, LastStep, Ask, NoAnswer, Stepped, Raises, Killed, vars
<1>. DEFINE Known(p) == p \notin Early \cup {"returned", "killed"}
<1>6. Progress'
  <2>. HIDE DEF InFrame
  <2>0. /\ step \in Nat /\ step <= cfg.max_steps /\ Answered <= cfg.max_steps
        /\ Frames <= cfg.max_steps /\ done \in BOOLEAN /\ pc \in Places
        /\ pc \in Early => Fresh /\ step = 0 /\ done = FALSE
        /\ Known(pc) => InFrame
    BY <1>4 DEF Progress, InFrame
  <2>. DEFINE Steps ==
         /\ pc' \in Places /\ done' \in BOOLEAN /\ step' \in Nat /\ step' <= cfg.max_steps
         /\ pc' \in Early => Fresh /\ step' = 0 /\ done' = FALSE
         /\ Known(pc') => InFrame
         /\ pc' \in {"loop", "generate"} =>
              Answered = step' /\ Frames = step' /\ done' = FALSE /\ step' < cfg.max_steps
         /\ pc' \in {"step", "save_frame"} =>
              /\ Frames = step' /\ step' < cfg.max_steps
              /\ Answered = step' + 1 \/ (Answered = step' /\ done' = TRUE)
         /\ pc' = "save_partial_traj" =>
              /\ Frames = step' + 1 /\ step' < cfg.max_steps
              /\ Answered = step' + 1 \/ (Answered = step' /\ done' = TRUE)
         /\ pc' \in Late => Answered = Frames \/ Answered + 1 = Frames
  <2>1. Steps
    <3>. USE <2>0, <1>4 DEF Places, Calls, Early, Late
    <3>1. CASE ConfigSaved
      BY <3>1 DEF ConfigSaved
    <3>2. CASE EnvReady
      BY <3>2 DEF EnvReady
    <3>3. CASE LastStep
      BY <3>3 DEF LastStep, Progress
    <3>4. CASE Ask
      BY <3>4 DEF Ask, Progress
    <3>5. CASE NoAnswer
      BY <3>5 DEF NoAnswer, Progress
    <3>6. CASE Stepped
      BY <3>6 DEF Stepped, Progress
    <3>7. CASE SavePartial
      <4>1. /\ pc = "save_partial_traj" /\ Frames = step + 1 /\ step < cfg.max_steps
            /\ Answered = step + 1 \/ (Answered = step /\ done = TRUE)
            /\ InFrame /\ done' = done
        BY <3>7 DEF SavePartial, Progress
      <4>2. CASE cfg.max_steps = 1
        <5>1. pc' = "returned" /\ step' = step
          BY <3>7, <4>2 DEF SavePartial
        <5>. QED  BY <4>1, <5>1
      <4>3. CASE cfg.max_steps # 1
        <5>1. /\ step' = step + 1
              /\ pc' = IF ~done /\ step' < cfg.max_steps THEN "loop" ELSE "save_reward"
          BY <3>7, <4>3 DEF SavePartial
        <5>. QED  BY <4>1, <5>1
      <4>. QED  BY <4>2, <4>3
    <3>8. CASE SaveReward
      BY <3>8 DEF SaveReward, Progress
    <3>9. CASE SaveEpisode
      BY <3>9 DEF SaveEpisode, Progress
    <3>10. CASE SplitEpisode
      <4>1. /\ pc = "split_episode" /\ pc' \in {"insert", "returned"}
            /\ done' = done /\ step' = step
        BY <3>10 DEF SplitEpisode
      <4>. QED  BY <4>1 DEF Progress
    <3>11. CASE Insert
      BY <3>11 DEF Insert, Progress
    <3>12. CASE Raises
      BY <3>12 DEF Raises, Progress
    <3>13. CASE Killed
      BY <3>13 DEF Killed, Progress
    <3>14. CASE UNCHANGED vars
      BY <3>14 DEF vars, Progress
    <3>. QED  BY <3>1, <3>2, <3>3, <3>4, <3>5, <3>6, <3>7, <3>8, <3>9, <3>10, <3>11, <3>12,
                 <3>13, <3>14
  <2>2. (Known(pc') => InFrame) => (Known(pc') => InFrame')
    BY <1>2
  <2>. QED  BY <1>2, <1>3, <2>0, <2>1, <2>2 DEF Progress, InFrame
<1>. QED  BY <1>2, <1>3, <1>5, <1>6 DEF DialogueInv

LEMMA FirstFrameStep == DialogueInv /\ FirstFrame => DialogueInv'
<1>. SUFFICES ASSUME DialogueInv, FirstFrame PROVE DialogueInv'
  OBVIOUS
<1>1. /\ pc = "first_frame" /\ pc' = "loop" /\ win' = SetFirstFrame(win)
      /\ disk' = [disk EXCEPT !.frames = @ \cup {0}]
      /\ cfg' = cfg /\ step' = step /\ done' = done /\ full' = full /\ served' = served
      /\ row' = row
  BY DEF FirstFrame
<1>2. /\ cfg \in Configs /\ cfg \in Config /\ cfg.max_steps \in Nat \ {0}
      /\ Dialogue /\ Progress /\ Files
  BY DEF DialogueInv, Dialogue, Config
<1>3. Fresh /\ step = 0 /\ done = FALSE
  BY <1>1, <1>2 DEF Progress, Early
<1>4. /\ win = EmptyWindow /\ full = <<>> /\ served = <<>>
      /\ Answered = 0 /\ Frames = 0 /\ Answered' = 0 /\ Frames' = 0
  BY <1>1, <1>3 DEF Fresh, Answered, Frames
<1>5. Framed(win, cfg, full, Answered, Frames)'
  <2>1. Framed(SetFirstFrame(EmptyWindow), cfg, <<>>, 0, 0)
    BY <1>2, FirstFramed
  <2>2. /\ win' = SetFirstFrame(EmptyWindow) /\ cfg' = cfg /\ full' = <<>>
        /\ Answered' = 0 /\ Frames' = 0
    BY <1>1, <1>4
  <2>. QED  BY <2>1, <2>2
<1>6. Dialogue'
  <2>1. Alternates(full, Answered, Frames)'
    BY <1>1, <1>2, <1>4 DEF Dialogue
  <2>2. 1 .. Answered' = {}
    BY <1>4
  <2>3. cfg' \in Config /\ served' \in Seq(Seq(Talk))
    BY <1>1, <1>2 DEF Dialogue
  <2>. QED  BY <1>5, <2>1, <2>2, <2>3 DEF Dialogue
<1>7. Progress'
  <2>1. /\ pc' \in Places /\ pc' \notin Early /\ pc' \notin Late
        /\ pc' \notin {"step", "save_frame"} /\ pc' # "save_partial_traj"
    BY <1>1 DEF Places, Calls, Early, Late
  <2>2. /\ step' = 0 /\ done' = FALSE /\ step' < cfg'.max_steps /\ 0 <= cfg'.max_steps
    BY <1>1, <1>2, <1>3
  <2>. QED  BY <1>4, <1>5, <2>1, <2>2 DEF Progress
<1>8. Files'
  <2>1. 0 \in 0 .. cfg.max_steps
    BY <1>2
  <2>. QED  BY <1>1, <1>2, <2>1 DEF Files
<1>. QED  BY <1>1, <1>2, <1>6, <1>7, <1>8 DEF DialogueInv

LEMMA AnswersStep == DialogueInv /\ Answers => DialogueInv'
<1>. SUFFICES ASSUME DialogueInv, Answers PROVE DialogueInv'
  OBVIOUS
<1>. DEFINE a == Answered
<1>1. /\ pc = "generate" /\ pc' = "step" /\ win' = AddText(win, a + 1)
      /\ full' = Append(full, Answer(a + 1)) /\ served' = Append(served, Prompt)
      /\ done' \in BOOLEAN
      /\ cfg' = cfg /\ step' = step /\ disk' = disk /\ row' = row
  BY DEF Answers
<1>2. /\ cfg \in Configs /\ cfg \in Config /\ cfg.max_steps \in Nat \ {0}
      /\ Dialogue /\ Progress /\ Files /\ step \in Nat
  BY DEF DialogueInv, Dialogue, Config, Progress
<1>3. /\ a = step /\ Frames = a /\ step < cfg.max_steps
      /\ Framed(win, cfg, full, a, a)
  BY <1>1, <1>2 DEF Progress, Early
<1>4. Alternates(full, a, a) /\ a \in Nat /\ full \in Seq(Message) /\ served \in Seq(Seq(Talk))
  BY <1>2, <1>3 DEF Dialogue, Alternates
<1>5. Prompt = PromptOf(cfg, full, a)
  <2>1. Shows(win, full, Latest(cfg, a, a)) /\ win.base_images = Base(cfg, a)
    BY <1>3 DEF Framed
  <2>2. win.prompt_dialogue = At(full, Latest(cfg, a, a))
    BY <2>1 DEF Shows
  <2>. QED  BY <2>1, <2>2 DEF Prompt, PromptOf
<1>6. Prompt \in Seq(Talk)
  BY <1>4, <1>5, PromptTyped
<1>7. Answered' = a + 1 /\ Frames' = a
  <2>1. Len(served') = a + 1
    BY <1>1, <1>4, <1>6 DEF Answered
  <2>2. Len(full') = Len(full) + 1
    <3>1. Answer(a + 1) \in Message
      BY <1>4 DEF Message, Answer, NoText
    <3>. QED  BY <1>1, <1>4, <3>1
  <2>3. Len(full) = a + a
    BY <1>4 DEF Alternates
  <2>. QED  BY <1>4, <2>1, <2>2, <2>3 DEF Answered, Frames
<1>8. Framed(win, cfg, full, Answered, Frames)'
  <2>1. Framed(AddText(win, a + 1), cfg, Append(full, Answer(a + 1)), a + 1, a)
    BY <1>2, <1>3, <1>4, AddTextFramed
  <2>. QED  BY <1>1, <1>7, <2>1
<1>9. Dialogue'
  <2>1. Alternates(full, Answered, Frames)'
    <3>1. Alternates(Append(full, Answer(a + 1)), a + 1, a)
      BY <1>4, AlternatesText
    <3>. QED  BY <1>1, <1>7, <3>1
  <2>2. served' \in Seq(Seq(Talk))
    BY <1>1, <1>4, <1>6
  <2>3. ASSUME NEW k \in 1 .. a + 1
        PROVE  served'[k] = PromptOf(cfg', full', k - 1)
    <3>1. k - 1 \in Nat /\ k - 1 <= a
      BY <1>4
    <3>2. Answer(a + 1) \in Message
      BY <1>4 DEF Message, Answer, NoText
    <3>3. PromptOf(cfg, Append(full, Answer(a + 1)), k - 1) = PromptOf(cfg, full, k - 1)
      BY <1>2, <1>4, <3>1, <3>2, PromptKept
    <3>4. served'[k] = PromptOf(cfg, full, k - 1)
      <4>1. CASE k <= a
        <5>1. k \in 1 .. a /\ served'[k] = served[k]
          BY <1>1, <1>4, <1>6, <4>1 DEF Answered
        <5>. QED  BY <1>2, <5>1 DEF Dialogue
      <4>2. CASE k = a + 1
        <5>1. served'[k] = Prompt /\ k - 1 = a
          BY <1>1, <1>4, <1>6, <4>2 DEF Answered
        <5>. QED  BY <1>5, <5>1
      <4>. QED  BY <1>4, <4>1, <4>2
    <3>. QED  BY <1>1, <3>3, <3>4
  <2>. QED  BY <1>1, <1>2, <1>7, <1>8, <2>1, <2>2, <2>3 DEF Dialogue
<1>10. Progress'
  <2>1. /\ pc' \in Places /\ pc' \notin Early /\ pc' \notin Late
        /\ pc' \notin {"loop", "generate"} /\ pc' # "save_partial_traj"
    BY <1>1 DEF Places, Calls, Early, Late
  <2>2. /\ step' = a /\ step' < cfg'.max_steps /\ a + 1 <= cfg'.max_steps
        /\ step' <= cfg'.max_steps
    BY <1>1, <1>2, <1>3, <1>4
  <2>. HIDE DEF a
  <2>. QED  BY <1>1, <1>2, <1>4, <1>7, <1>8, <2>1, <2>2 DEF Progress
<1>11. Files'
  BY <1>1, <1>2 DEF Files
<1>. QED  BY <1>1, <1>2, <1>9, <1>10, <1>11 DEF DialogueInv

LEMMA SaveFrameStep == DialogueInv /\ SaveFrame => DialogueInv'
<1>. SUFFICES ASSUME DialogueInv, SaveFrame PROVE DialogueInv'
  OBVIOUS
<1>. DEFINE a == Answered
            f == Frames
<1>1. /\ pc = "save_frame" /\ pc' = "save_partial_traj" /\ win' = AddImage(win, step + 1)
      /\ disk' = [disk EXCEPT !.frames = @ \cup {step + 1}]
      /\ full' = Append(full, Image(step + 1))
      /\ cfg' = cfg /\ step' = step /\ done' = done /\ served' = served /\ row' = row
  BY DEF SaveFrame
<1>2. /\ cfg \in Configs /\ cfg \in Config /\ cfg.max_steps \in Nat \ {0}
      /\ Dialogue /\ Progress /\ Files /\ step \in Nat
  BY DEF DialogueInv, Dialogue, Config, Progress
<1>3. /\ f = step /\ step < cfg.max_steps /\ a <= cfg.max_steps
      /\ a = step + 1 \/ (a = step /\ done = TRUE)
      /\ Framed(win, cfg, full, a, f)
  BY <1>1, <1>2 DEF Progress, Early
<1>4. /\ Alternates(full, a, f) /\ a \in Nat /\ f \in Nat /\ full \in Seq(Message)
      /\ f <= a /\ a <= f + 1 /\ Len(full) = a + f
  <2>1. Alternates(full, a, f)
    BY <1>2 DEF Dialogue
  <2>2. a \in Nat /\ f \in Nat /\ full \in Seq(Message) /\ a <= f + 1 /\ Len(full) = a + f
    BY <2>1 DEF Alternates
  <2>. HIDE DEF a, f
  <2>. QED  BY <1>2, <1>3, <2>1, <2>2
<1>5. Image(step + 1) \in Message
  BY <1>2 DEF Message, Image, NoText
<1>6. Answered' = a /\ Frames' = f + 1
  <2>1. Len(full') = a + f + 1
    BY <1>1, <1>4, <1>5
  <2>. QED  BY <1>1, <1>4, <2>1 DEF Answered, Frames
<1>7. Framed(win, cfg, full, Answered, Frames)'
  <2>1. Framed(AddImage(win, f + 1), cfg, Append(full, Image(f + 1)), a, f + 1)
    BY <1>2, <1>3, <1>4, AddImageFramed
  <2>. QED  BY <1>1, <1>3, <1>6, <2>1
<1>8. Dialogue'
  <2>1. Alternates(full, Answered, Frames)'
    <3>1. Alternates(Append(full, Image(f + 1)), a, f + 1)
      BY <1>4, AlternatesImage
    <3>. QED  BY <1>1, <1>3, <1>6, <3>1
  <2>2. served' \in Seq(Seq(Talk)) /\ cfg' \in Config
    BY <1>1, <1>2 DEF Dialogue
  <2>3. ASSUME NEW k \in 1 .. a
        PROVE  served'[k] = PromptOf(cfg', full', k - 1)
    <3>1. k - 1 \in Nat /\ k - 1 <= a /\ k - 1 <= f
      BY <1>4
    <3>2. PromptOf(cfg, Append(full, Image(step + 1)), k - 1) = PromptOf(cfg, full, k - 1)
      BY <1>2, <1>4, <1>5, <3>1, PromptKept
    <3>. QED  BY <1>1, <1>2, <3>2 DEF Dialogue
  <2>. QED  BY <1>6, <1>7, <2>1, <2>2, <2>3 DEF Dialogue
<1>9. Progress'
  <2>1. /\ pc' \in Places /\ pc' \notin Early /\ pc' \notin Late
        /\ pc' \notin {"loop", "generate"} /\ pc' \notin {"step", "save_frame"}
    BY <1>1 DEF Places, Calls, Early, Late
  <2>2. /\ step' < cfg'.max_steps /\ f + 1 <= cfg'.max_steps /\ step' <= cfg'.max_steps
        /\ a <= cfg'.max_steps /\ f + 1 = step' + 1 /\ step' \in Nat
        /\ a = step' + 1 \/ (a = step' /\ done' = TRUE)
    <3>. HIDE DEF a, f
    <3>. QED  BY <1>1, <1>2, <1>3, <1>4
  <2>3. done' \in BOOLEAN
    BY <1>1, <1>2 DEF Progress
  <2>. HIDE DEF a, f
  <2>. QED  BY <1>1, <1>6, <1>7, <2>1, <2>2, <2>3 DEF Progress
<1>10. Files'
  <2>1. step + 1 \in 0 .. cfg.max_steps
    BY <1>2, <1>3
  <2>. QED  BY <1>1, <1>2, <2>1 DEF Files
<1>. QED  BY <1>1, <1>2, <1>8, <1>9, <1>10 DEF DialogueInv

LEMMA StepDialogue == DialogueInv /\ [Next]_vars => DialogueInv'
BY QuietStep, FirstFrameStep, AnswersStep, SaveFrameStep DEF Next

LEMMA AlwaysDialogue == Spec => []DialogueInv
<1>1. Init => DialogueInv
  BY InitDialogue
<1>2. DialogueInv /\ [Next]_vars => DialogueInv'
  BY StepDialogue
<1>. QED  BY <1>1, <1>2, PTL DEF Spec

(***************************************************************************)
(* Theorems about the window.                                              *)
(***************************************************************************)
\* The window is well formed, and its references name its images.
Points(w) ==
  /\ w \in Window
  /\ w.image_refs = BaseRefs(w.base_images) \o RefList(Images(w.prompt_dialogue))

LEMMA WindowPoints == DialogueInv => Points(win)
<1>. SUFFICES ASSUME DialogueInv PROVE Points(win)
  OBVIOUS
<1>1. CASE Fresh
  <2>1. win = [base_images |-> <<>>, prompt_dialogue |-> <<>>, save_dialogue |-> <<>>,
               image_refs |-> <<>>]
    BY <1>1 DEF Fresh, EmptyWindow
  <2>2. Images(<<>>) = {} /\ Cardinality({}) = 0
    BY FS_EmptySet DEF Images
  <2>3. RefList(Images(<<>>)) = <<>> /\ BaseRefs(<<>>) = <<>>
    BY <2>2 DEF RefList, BaseRefs
  <2>4. win \in Window
    BY <2>1 DEF Window
  <2>5. <<>> \o <<>> = <<>>
    OBVIOUS
  <2>. QED  BY <2>1, <2>3, <2>4, <2>5 DEF Points
<1>2. CASE Framed(win, cfg, full, Answered, Frames)
  BY <1>2 DEF Framed, Shows, Points
<1>. QED  BY <1>1, <1>2 DEF DialogueInv, Dialogue

LEMMA PointsRefs ==
  ASSUME Points(win)
  PROVE  /\ win.base_images \in {<<>>, <<0>>}
         /\ \A i \in DOMAIN win.image_refs :
              win.image_refs[i].msg_idx \in 0 .. Len(win.prompt_dialogue)
         /\ RefsPoint
<1>. DEFINE d == win.prompt_dialogue
            D == Images(d)
            b == win.base_images
            l == Len(BaseRefs(b))
            r == BaseRefs(b) \o RefList(D)
<1>1. /\ d \in Seq(Message) /\ b \in {<<>>, <<0>>} /\ win.image_refs = r
      /\ Len(d) \in Nat
  BY DEF Points, Window
<1>2. D \in SUBSET (1 .. Len(d)) /\ D \in SUBSET Nat /\ IsFiniteSet(D)
  BY <1>1, ImagesFinite
<1>3. RefsPoint
  BY <1>1 DEF RefsPoint, RefList, Images, BaseRefs
<1>4. ASSUME NEW i \in DOMAIN r
      PROVE  r[i].msg_idx \in 0 .. Len(d)
  <2>. HIDE DEF D, d, b
  <2>1. \/ r[i] = BaseRef
        \/ Nth(D, i - l) \in D /\ r[i] = DialogueRef(Nth(D, i - l))
    BY <1>2, RefsOfWindow
  <2>2. CASE r[i] = BaseRef
    BY <1>1, <2>2 DEF BaseRef
  <2>3. CASE Nth(D, i - l) \in D /\ r[i] = DialogueRef(Nth(D, i - l))
    <3>1. r[i].msg_idx \in D
      BY <2>3 DEF DialogueRef
    <3>. QED  BY <1>1, <1>2, <3>1
  <2>. QED  BY <2>1, <2>2, <2>3
<1>. QED  BY <1>1, <1>3, <1>4

\* Types, and the references of the window name exactly its images.
THEOREM EpisodeTypes == Spec => []TypeOK
<1>1. DialogueInv => TypeOK
  <2>. SUFFICES ASSUME DialogueInv PROVE TypeOK
    OBVIOUS
  <2>1. /\ cfg \in Configs /\ cfg \in Config /\ cfg.max_steps \in Nat /\ Progress /\ Files
        /\ Alternates(full, Answered, Frames)
    BY DEF DialogueInv, Dialogue, Config
  <2>2. /\ win.base_images \in {<<>>, <<0>>}
        /\ \A i \in DOMAIN win.image_refs :
             win.image_refs[i].msg_idx \in 0 .. Len(win.prompt_dialogue)
        /\ RefsPoint
    BY WindowPoints, PointsRefs
  <2>3. /\ pc \in Places /\ done \in BOOLEAN /\ step \in Nat
        /\ step <= cfg.max_steps /\ Answered <= cfg.max_steps /\ Frames <= cfg.max_steps
    BY <2>1 DEF Progress
  <2>4. step \in 0 .. cfg.max_steps
    BY <2>1, <2>3
  <2>5. Len(full) <= 2 * cfg.max_steps
    <3>1. Answered \in Nat /\ Frames \in Nat /\ Len(full) = Answered + Frames
      BY <2>1 DEF Alternates
    <3>. QED  BY <2>1, <2>3, <3>1
  <2>6. disk.frames \subseteq 0 .. cfg.max_steps /\ disk.reward \in BOOLEAN /\ row \in BOOLEAN
    BY <2>1 DEF Files
  <2>. QED  BY <2>1, <2>2, <2>3, <2>4, <2>5, <2>6 DEF TypeOK
<1>. QED  BY <1>1, AlwaysDialogue, PTL

LEMMA FramesCounted ==
  Dialogue => Cardinality(FramesTaken) = Frames + 1
<1>. SUFFICES ASSUME Dialogue PROVE Cardinality(FramesTaken) = Frames + 1
  OBVIOUS
<1>. DEFINE a == Answered
            f == Frames
<1>0. Alternates(full, a, f)
  BY DEF Dialogue
<1>. HIDE DEF a, f
<1>1. /\ full \in Seq(Message) /\ a \in Nat /\ f \in Nat /\ a <= f + 1 /\ f <= a + 1
      /\ Len(full) = a + f /\ DOMAIN full = 1 .. a + f
      /\ \A k \in 1 .. a : full[2 * k - 1] = Answer(k)
      /\ \A n \in 1 .. f : full[ImageAt(a, n)] = Image(n)
      /\ \A i \in 1 .. a + f : \/ \E k \in 1 .. a : i = 2 * k - 1
                               \/ \E n \in 1 .. f : i = ImageAt(a, n)
  BY <1>0 DEF Alternates
<1>2. \A n \in 1 .. f : ImageAt(a, n) \in DOMAIN full
  BY <1>1, ImagePlaces
<1>3. \A k : ~HasImage(Answer(k)) /\ HasImage(Image(k)) /\ Image(k).images[1] = k
  BY DEF HasImage, Answer, Image
<1>4. FramesTaken = {0} \cup (1 .. f)
  <2>1. ASSUME NEW i \in DOMAIN full, HasImage(full[i])
        PROVE  full[i].images[1] \in 1 .. f
    <3>1. \/ \E k \in 1 .. a : full[i] = Answer(k)
          \/ \E n \in 1 .. f : full[i] = Image(n)
      BY <1>1
    <3>. QED  BY <1>3, <2>1, <3>1
  <2>2. ASSUME NEW n \in 1 .. f
        PROVE  \E i \in DOMAIN full : HasImage(full[i]) /\ full[i].images[1] = n
    <3>1. full[ImageAt(a, n)] = Image(n) /\ ImageAt(a, n) \in DOMAIN full
      BY <1>1, <1>2
    <3>. QED  BY <1>3, <3>1
  <2>. QED  BY <2>1, <2>2 DEF FramesTaken
<1>5. FramesTaken = 0 .. f
  BY <1>1, <1>4
<1>6. Cardinality(0 .. f) = f + 1
  BY <1>1, FS_Interval
<1>. QED  BY <1>5, <1>6 DEF f

\* The window is the last max_images frames and the last max_texts answers of the whole
\* conversation.
THEOREM WindowLatest == Spec => []WindowIsLatest
<1>1. DialogueInv => WindowIsLatest
  <2>. SUFFICES ASSUME DialogueInv,
                       pc \in {"loop", "generate", "step", "save_frame", "save_partial_traj",
                               "save_reward"}
                PROVE  WindowIsLatest
    BY DEF WindowIsLatest
  <2>. DEFINE a == Answered
              f == Frames
              last == Cardinality(FramesTaken) - 1
              Recent(n) == n > last - cfg.max_images
              Shown(m) == IF IsAnswer(m) THEN m.text > Answered - cfg.max_texts
                                         ELSE Recent(m.images[1])
              P == Latest(cfg, a, f)
  <2>1. /\ cfg \in Config /\ cfg.max_texts \in Nat /\ cfg.max_images \in Nat
        /\ Alternates(full, a, f) /\ Framed(win, cfg, full, a, f)
    BY DEF DialogueInv, Dialogue, Progress, Early, Config
  <2>2. /\ full \in Seq(Message) /\ a \in Nat /\ f \in Nat
        /\ Len(full) = a + f /\ DOMAIN full = 1 .. a + f
        /\ \A k \in 1 .. a : full[2 * k - 1] = Answer(k)
        /\ \A n \in 1 .. f : full[ImageAt(a, n)] = Image(n)
        /\ \A i \in 1 .. a + f : \/ \E k \in 1 .. a : i = 2 * k - 1
                                 \/ \E n \in 1 .. f : i = ImageAt(a, n)
    BY <2>1 DEF Alternates
  <2>3. last = f
    <3>. HIDE DEF a, f
    <3>1. Dialogue
      BY DEF DialogueInv
    <3>2. Cardinality(FramesTaken) = f + 1
      BY <3>1, FramesCounted DEF f
    <3>. QED  BY <2>2, <3>2 DEF last
  <2>4. /\ P \in SUBSET (1 .. a + f)
        /\ {p \in P : HasImage(full[p])} = LatestImages(cfg, a, f)
        /\ {p \in P : IsAnswer(full[p])} = LatestTexts(cfg, a)
    BY <2>1, LatestPlaces
  <2>. HIDE DEF a, f, last
  <2>5. \A k \in 1 .. a : Shown(Answer(k)) <=> k > a - cfg.max_texts
    BY DEF Answer, IsAnswer, a
  <2>6. \A n \in 1 .. f : Shown(Image(n)) <=> n > f - cfg.max_images
    BY <2>3 DEF Image, IsAnswer
  <2>. HIDE DEF Shown, P
  <2>7. {i \in DOMAIN full : Shown(full[i])} = P
    <3>1. ASSUME NEW i \in 1 .. a + f, Shown(full[i]) PROVE i \in P
      <4>1. CASE \E k \in 1 .. a : i = 2 * k - 1
        <5>1. PICK k \in 1 .. a : i = 2 * k - 1
          BY <4>1
        <5>2. k > a - cfg.max_texts
          BY <2>2, <2>5, <3>1, <5>1
        <5>3. i \in LatestTexts(cfg, a)
          BY <5>1, <5>2, InLatestTexts
        <5>. QED  BY <5>3 DEF P, Latest
      <4>2. CASE \E n \in 1 .. f : i = ImageAt(a, n)
        <5>1. PICK n \in 1 .. f : i = ImageAt(a, n)
          BY <4>2
        <5>2. n > f - cfg.max_images
          BY <2>2, <2>6, <3>1, <5>1
        <5>3. i \in LatestImages(cfg, a, f)
          BY <5>1, <5>2, InLatestImages
        <5>. QED  BY <5>3 DEF P, Latest
      <4>. QED  BY <2>2, <4>1, <4>2
    <3>2. ASSUME NEW i \in P PROVE i \in 1 .. a + f /\ Shown(full[i])
      <4>1. i \in 1 .. a + f
        BY <2>4
      <4>2. CASE i \in LatestTexts(cfg, a)
        <5>1. PICK k \in 1 .. a : k > a - cfg.max_texts /\ i = 2 * k - 1
          BY <4>2, InLatestTexts
        <5>. QED  BY <2>2, <2>5, <4>1, <5>1
      <4>3. CASE i \in LatestImages(cfg, a, f)
        <5>1. PICK n \in 1 .. f : n > f - cfg.max_images /\ i = ImageAt(a, n)
          BY <4>3, InLatestImages
        <5>. QED  BY <2>2, <2>6, <4>1, <5>1
      <4>. QED  BY <4>2, <4>3 DEF P, Latest
    <3>. QED  BY <2>2, <3>1, <3>2
  <2>8. Only(full, Shown) = At(full, P)
    BY <2>7 DEF Only
  <2>9. /\ win.base_images = IF Recent(0) THEN <<0>> ELSE <<>>
        /\ win.prompt_dialogue = Only(full, Shown)
        /\ win.save_dialogue = win.prompt_dialogue
    <3>1. Shows(win, full, P) /\ win.base_images = Base(cfg, f)
      BY <2>1 DEF Framed, P
    <3>2. Recent(0) <=> f < cfg.max_images
      BY <2>1, <2>2, <2>3
    <3>. QED  BY <2>8, <3>1, <3>2 DEF Shows, Base
  <2>. QED  BY <2>9 DEF WindowIsLatest, Shown, last
<1>. QED  BY <1>1, AlwaysDialogue, PTL

(***************************************************************************)
(* Members at a set of positions taken from others, one set behind another, *)
(* and positions moved by a head.                                          *)
(***************************************************************************)
LEMMA TalkAssociative ==
  ASSUME NEW x \in Seq(Talk), NEW y \in Seq(Talk), NEW z \in Seq(Talk)
  PROVE  (x \o y) \o z = x \o (y \o z)
BY ConcatAssociative

\* At is the sequence of the members at the positions, in the conversation with its head.
LEMMA AtTalk ==
  ASSUME NEW P \in SUBSET Int, IsFiniteSet(P), NEW s, \A i \in P : s[i] \in Talk
  PROVE  /\ At(s, P) \in Seq(Talk) /\ Len(At(s, P)) = Cardinality(P)
         /\ \A n \in 1 .. Cardinality(P) : At(s, P)[n] = s[Nth(P, n)] /\ Nth(P, n) \in P
<1>1. Cardinality(P) \in Nat /\ \A n \in 1 .. Cardinality(P) : Nth(P, n) \in P
  BY NthFacts
<1>2. \A n \in 1 .. Cardinality(P) : s[Nth(P, n)] \in Talk
  BY <1>1
<1>3. [n \in 1 .. Cardinality(P) |-> s[Nth(P, n)]] \in Seq(Talk)
  BY <1>1, <1>2, IsASeq
<1>. QED  BY <1>1, <1>3 DEF At

\* g maps the positions P of s to the positions Q of t, in order, where t has the same.
Carries(g, s, P, t, Q) ==
  /\ g \in [P -> Q]
  /\ \A i, j \in P : i < j => g[i] < g[j]
  /\ \A q \in Q : \E i \in P : g[i] = q
  /\ \A i \in P : t[g[i]] = s[i]

LEMMA AtCarried ==
  ASSUME NEW P \in SUBSET Int, IsFiniteSet(P), NEW Q \in SUBSET Int, NEW s, NEW t,
         NEW g, Carries(g, s, P, t, Q)
  PROVE  IsFiniteSet(Q) /\ At(t, Q) = At(s, P)
<1>1. /\ g \in [P -> Q]
      /\ \A i, j \in P : i < j => g[i] < g[j]
      /\ \A q \in Q : \E i \in P : g[i] = q
      /\ \A i \in P : t[g[i]] = s[i]
  BY DEF Carries
<1>2. /\ IsFiniteSet(Q) /\ Cardinality(Q) = Cardinality(P)
      /\ \A n \in 1 .. Cardinality(P) : Nth(Q, n) = g[Nth(P, n)]
  BY <1>1, NthMapped
<1>3. \A n \in 1 .. Cardinality(P) : Nth(P, n) \in P
  BY NthFacts
<1>4. \A n \in 1 .. Cardinality(P) : t[Nth(Q, n)] = s[Nth(P, n)]
  <2>. SUFFICES ASSUME NEW n \in 1 .. Cardinality(P) PROVE t[Nth(Q, n)] = s[Nth(P, n)]
    OBVIOUS
  <2>1. Nth(P, n) \in P /\ Nth(Q, n) = g[Nth(P, n)]
    BY <1>2, <1>3
  <2>. QED  BY <1>1, <2>1
<1>. QED  BY <1>2, <1>4 DEF At

\* The members at a set of positions can be taken from those at a greater set.
LEMMA AtOfAt ==
  ASSUME NEW P \in SUBSET Int, IsFiniteSet(P), NEW s, NEW R \in SUBSET P
  PROVE  LET D == {n \in 1 .. Cardinality(P) : Nth(P, n) \in R}
         IN  At(At(s, P), D) = At(s, R)
<1>. DEFINE k == Cardinality(P)
            D == {n \in 1 .. k : Nth(P, n) \in R}
            g == [n \in D |-> Nth(P, n)]
            d == At(s, P)
<1>1. /\ k \in Nat
      /\ \A n \in 1 .. k : Nth(P, n) \in P
      /\ \A l, n \in 1 .. k : l < n => Nth(P, l) < Nth(P, n)
      /\ \A i \in P : \E n \in 1 .. k : Nth(P, n) = i
  BY NthFacts
<1>2. IsFiniteSet(D)
  BY PlacesCount
<1>3. \A n \in 1 .. k : d[n] = s[Nth(P, n)]
  BY DEF At
<1>. HIDE DEF k, d
<1>4. Carries(g, d, D, s, R)
  <2>1. g \in [D -> R]
    OBVIOUS
  <2>2. \A i, j \in D : i < j => g[i] < g[j]
    BY <1>1
  <2>3. \A q \in R : \E i \in D : g[i] = q
    BY <1>1
  <2>4. \A i \in D : s[g[i]] = d[i]
    BY <1>3
  <2>. HIDE DEF g, D
  <2>. QED  BY <2>1, <2>2, <2>3, <2>4 DEF Carries
<1>5. D \in SUBSET Int /\ R \in SUBSET Int
  OBVIOUS
<1>. HIDE DEF g, D
<1>6. At(s, R) = At(d, D)
  BY <1>2, <1>4, <1>5, AtCarried
<1>. QED  BY <1>6 DEF d, D, k

\* The members from m to n, in order, are the subsequence.
LEMMA AtInterval ==
  ASSUME NEW s, NEW m \in Int, NEW n \in Int, \A i \in m .. n : s[i] \in Talk
  PROVE  IsFiniteSet(m .. n) /\ At(s, m .. n) = SubSeq(s, m, n)
<1>. DEFINE k == IF m <= n THEN n - m + 1 ELSE 0
            e == [x \in 1 .. k |-> m + x - 1]
<1>1. k \in Nat /\ m .. n \in SUBSET Int
  OBVIOUS
<1>2. Lists(e, k, m .. n)
  <2>1. e \in [1 .. k -> m .. n]
    OBVIOUS
  <2>2. \A x, y \in 1 .. k : x < y => e[x] < e[y]
    OBVIOUS
  <2>3. ASSUME NEW i \in m .. n PROVE \E x \in 1 .. k : e[x] = i
    <3>1. i - m + 1 \in 1 .. k /\ m + (i - m + 1) - 1 = i
      OBVIOUS
    <3>. QED  BY <3>1
  <2>. HIDE DEF e
  <2>. QED  BY <1>1, <2>1, <2>2, <2>3 DEF Lists
<1>3. \A x \in 1 .. k : e[x] = m + x - 1
  OBVIOUS
<1>. HIDE DEF e
<1>4. /\ IsFiniteSet(m .. n) /\ Cardinality(m .. n) = k
      /\ \A x \in 1 .. k : Nth(m .. n, x) = m + x - 1
  BY <1>1, <1>2, <1>3, ListNth
<1>5. /\ At(s, m .. n) \in Seq(Talk) /\ Len(At(s, m .. n)) = k
      /\ \A x \in 1 .. k : At(s, m .. n)[x] = s[m + x - 1]
  <2>. DEFINE I == m .. n
  <2>. HIDE DEF k
  <2>1. I \in SUBSET Int /\ IsFiniteSet(I) /\ Cardinality(I) = k /\ \A i \in I : s[i] \in Talk
    BY <1>4
  <2>2. \A x \in 1 .. k : Nth(I, x) = m + x - 1
    BY <1>4
  <2>. HIDE DEF I
  <2>3. /\ At(s, I) \in Seq(Talk) /\ Len(At(s, I)) = Cardinality(I)
        /\ \A x \in 1 .. Cardinality(I) : At(s, I)[x] = s[Nth(I, x)]
    BY <2>1, AtTalk
  <2>. QED  BY <2>1, <2>2, <2>3 DEF I
<1>6. /\ SubSeq(s, m, n) \in Seq(Talk) /\ Len(SubSeq(s, m, n)) = k
      /\ \A x \in 1 .. k : SubSeq(s, m, n)[x] = s[m + x - 1]
  <2>1. /\ SubSeq(s, m, n) \in Seq(Talk)
        /\ Len(SubSeq(s, m, n)) = IF m <= n THEN n - m + 1 ELSE 0
        /\ \A x \in 1 .. n - m + 1 : SubSeq(s, m, n)[x] = s[m + x - 1]
    BY SubSeqProperties
  <2>2. \A x \in 1 .. k : x \in 1 .. n - m + 1
    OBVIOUS
  <2>. QED  BY <2>1, <2>2
<1>. HIDE DEF k
<1>7. At(s, m .. n) = SubSeq(s, m, n)
  BY <1>5, <1>6, SeqEqual
<1>. QED  BY <1>4, <1>7

\* Positions before others: what stands there comes before.
LEMMA AtJoined ==
  ASSUME NEW P \in SUBSET Int, IsFiniteSet(P), NEW Q \in SUBSET Int, IsFiniteSet(Q),
         \A i \in P : \A j \in Q : i < j,
         NEW s, \A i \in P \cup Q : s[i] \in Talk
  PROVE  IsFiniteSet(P \cup Q) /\ At(s, P \cup Q) = At(s, P) \o At(s, Q)
<1>. DEFINE k == Cardinality(P)
            l == Cardinality(Q)
            R == P \cup Q
            e == [n \in 1 .. k + l |-> IF n <= k THEN Nth(P, n) ELSE Nth(Q, n - k)]
<1>1. /\ k \in Nat
      /\ \A n \in 1 .. k : Nth(P, n) \in P
      /\ \A m, n \in 1 .. k : m < n => Nth(P, m) < Nth(P, n)
      /\ \A i \in P : \E n \in 1 .. k : Nth(P, n) = i
  BY NthFacts
<1>2. /\ l \in Nat
      /\ \A n \in 1 .. l : Nth(Q, n) \in Q
      /\ \A m, n \in 1 .. l : m < n => Nth(Q, m) < Nth(Q, n)
      /\ \A i \in Q : \E n \in 1 .. l : Nth(Q, n) = i
  BY NthFacts
<1>3. R \in SUBSET Int /\ k + l \in Nat
  BY <1>1, <1>2
<1>. HIDE DEF k, l
<1>4. \A n \in 1 .. k + l : e[n] = IF n <= k THEN Nth(P, n) ELSE Nth(Q, n - k)
  OBVIOUS
<1>5. \A n \in 1 .. k + l : n \in 1 .. k \/ (~(n <= k) /\ n - k \in 1 .. l)
  BY <1>1, <1>2
<1>6. Lists(e, k + l, R)
  <2>1. e \in [1 .. k + l -> R]
    <3>1. \A n \in 1 .. k + l : (IF n <= k THEN Nth(P, n) ELSE Nth(Q, n - k)) \in R
      BY <1>1, <1>2, <1>5
    <3>. QED  BY <3>1
  <2>. HIDE DEF e, R
  <2>2. ASSUME NEW m \in 1 .. k + l, NEW n \in 1 .. k + l, m < n PROVE e[m] < e[n]
    <3>0. m \in Int /\ n \in Int /\ k \in Int
      BY <1>1, <1>3
    <3>1. CASE n <= k
      <4>1. m \in 1 .. k /\ n \in 1 .. k /\ m <= k
        BY <2>2, <3>0, <3>1
      <4>. QED  BY <1>1, <1>4, <2>2, <3>1, <4>1
    <3>2. CASE m <= k /\ ~(n <= k)
      <4>1. m \in 1 .. k /\ n - k \in 1 .. l
        BY <1>5, <3>0, <3>2
      <4>2. Nth(P, m) \in P /\ Nth(Q, n - k) \in Q
        BY <1>1, <1>2, <4>1
      <4>. QED  BY <1>4, <3>2, <4>2
    <3>3. CASE ~(m <= k)
      <4>1. /\ m - k \in 1 .. l /\ n - k \in 1 .. l /\ m - k < n - k
            /\ ~(n <= k)
        BY <1>5, <2>2, <3>0, <3>3
      <4>. QED  BY <1>2, <1>4, <3>3, <4>1
    <3>. QED  BY <3>1, <3>2, <3>3
  <2>3. ASSUME NEW i \in R PROVE \E n \in 1 .. k + l : e[n] = i
    <3>1. CASE i \in P
      <4>1. PICK n \in 1 .. k : Nth(P, n) = i
        BY <1>1, <3>1
      <4>2. n \in 1 .. k + l /\ n <= k
        BY <1>1, <1>2
      <4>. QED  BY <1>4, <4>1, <4>2
    <3>2. CASE i \in Q
      <4>1. PICK n \in 1 .. l : Nth(Q, n) = i
        BY <1>2, <3>2
      <4>0. n + k \in 1 .. k + l /\ ~(n + k <= k) /\ n + k - k = n
        BY <1>1, <1>2
      <4>2. PICK x \in 1 .. k + l : ~(x <= k) /\ x - k = n
        BY <1>1, <1>2, <4>0
      <4>3. e[x] = Nth(Q, n)
        BY <1>4, <4>2
      <4>. QED  BY <4>1, <4>2, <4>3
    <3>. QED  BY <3>1, <3>2 DEF R
  <2>. QED  BY <1>3, <2>1, <2>2, <2>3 DEF Lists
<1>. HIDE DEF e
<1>7. IsFiniteSet(R) /\ Cardinality(R) = k + l /\ \A n \in 1 .. k + l : Nth(R, n) = e[n]
  <2>. HIDE DEF R
  <2>. QED  BY <1>3, <1>6, ListNth
<1>8. /\ At(s, P) \in Seq(Talk) /\ Len(At(s, P)) = k
      /\ \A n \in 1 .. k : At(s, P)[n] = s[Nth(P, n)]
  <2>1. \A i \in P : s[i] \in Talk
    OBVIOUS
  <2>. QED  BY <2>1, AtTalk DEF k
<1>9. /\ At(s, Q) \in Seq(Talk) /\ Len(At(s, Q)) = l
      /\ \A n \in 1 .. l : At(s, Q)[n] = s[Nth(Q, n)]
  <2>1. \A i \in Q : s[i] \in Talk
    OBVIOUS
  <2>. QED  BY <2>1, AtTalk DEF l
<1>10. /\ At(s, R) \in Seq(Talk) /\ Len(At(s, R)) = k + l
       /\ \A n \in 1 .. k + l : At(s, R)[n] = s[e[n]]
  <2>1. \A i \in R : s[i] \in Talk
    OBVIOUS
  <2>. HIDE DEF R
  <2>2. /\ At(s, R) \in Seq(Talk) /\ Len(At(s, R)) = Cardinality(R)
        /\ \A n \in 1 .. Cardinality(R) : At(s, R)[n] = s[Nth(R, n)]
    BY <1>3, <1>7, <2>1, AtTalk
  <2>. QED  BY <1>7, <2>2
<1>. DEFINE u == At(s, P)
            v == At(s, Q)
            w == At(s, R)
<1>11. /\ u \o v \in Seq(Talk) /\ Len(u \o v) = k + l
       /\ \A n \in 1 .. k + l : (u \o v)[n] = IF n <= k THEN u[n] ELSE v[n - k]
  <2>. HIDE DEF u, v
  <2>1. u \in Seq(Talk) /\ v \in Seq(Talk) /\ Len(u) = k /\ Len(v) = l
    BY <1>8, <1>9 DEF u, v
  <2>. QED  BY <2>1, ConcatProperties
<1>12. \A n \in 1 .. k + l : w[n] = (u \o v)[n]
  <2>. SUFFICES ASSUME NEW n \in 1 .. k + l PROVE w[n] = (u \o v)[n]
    OBVIOUS
  <2>1. CASE n \in 1 .. k /\ n <= k
    <3>1. e[n] = Nth(P, n) /\ u[n] = s[Nth(P, n)]
      BY <1>4, <1>8, <2>1
    <3>2. w[n] = s[e[n]] /\ (u \o v)[n] = u[n]
      BY <1>10, <1>11, <2>1
    <3>. QED  BY <3>1, <3>2
  <2>2. CASE ~(n <= k) /\ n - k \in 1 .. l
    <3>1. e[n] = Nth(Q, n - k) /\ v[n - k] = s[Nth(Q, n - k)]
      BY <1>4, <1>9, <2>2
    <3>2. w[n] = s[e[n]] /\ (u \o v)[n] = v[n - k]
      BY <1>10, <1>11, <2>2
    <3>. QED  BY <3>1, <3>2
  <2>3. n \in 1 .. k => n <= k
    BY <1>1
  <2>. QED  BY <1>5, <2>1, <2>2, <2>3
<1>13. w = u \o v
  <2>. HIDE DEF u, v, w
  <2>1. w \in Seq(Talk) /\ Len(w) = k + l
    BY <1>10 DEF w
  <2>. QED  BY <1>11, <1>12, <2>1, SeqEqual
<1>. QED  BY <1>7, <1>13

Shift(P, d) == {p + d : p \in P}

LEMMA InShift ==
  ASSUME NEW P \in SUBSET Int, NEW d \in Int, NEW i \in Int
  PROVE  i \in Shift(P, d) <=> i - d \in P
<1>1. ASSUME i \in Shift(P, d) PROVE i - d \in P
  <2>1. PICK p \in P : i = p + d
    BY <1>1 DEF Shift
  <2>2. p \in Int /\ i - d = p
    BY <2>1
  <2>. QED  BY <2>2
<1>2. ASSUME i - d \in P PROVE i \in Shift(P, d)
  <2>1. (i - d) + d = i
    OBVIOUS
  <2>. QED  BY <1>2, <2>1 DEF Shift
<1>. QED  BY <1>1, <1>2

\* t has d places further on what s has at P.
Further(s, P, t, d) == \A p \in P : t[p + d] = s[p]

LEMMA AtShifted ==
  ASSUME NEW P \in SUBSET Int, IsFiniteSet(P), NEW d \in Int, NEW s, NEW t,
         Further(s, P, t, d)
  PROVE  /\ Shift(P, d) \in SUBSET Int /\ IsFiniteSet(Shift(P, d))
         /\ At(t, Shift(P, d)) = At(s, P)
<1>. DEFINE Q == Shift(P, d)
            g == [p \in P |-> p + d]
<1>1. Q \in SUBSET Int
  BY DEF Shift
<1>2. Carries(g, s, P, t, Q)
  <2>1. g \in [P -> Q] /\ \A q \in Q : \E i \in P : g[i] = q
    BY DEF Shift
  <2>2. \A i, j \in P : i < j => g[i] < g[j]
    OBVIOUS
  <2>3. \A i \in P : t[g[i]] = s[i]
    BY DEF Further
  <2>. HIDE DEF g, Q
  <2>. QED  BY <2>1, <2>2, <2>3 DEF Carries
<1>. HIDE DEF g, Q
<1>3. IsFiniteSet(Q) /\ At(t, Q) = At(s, P)
  BY <1>1, <1>2, AtCarried
<1>. QED  BY <1>1, <1>3 DEF Q

\* A head before a sequence.
LEMMA AtBehindHead ==
  ASSUME NEW h \in Seq(Talk), NEW s \in Seq(Talk), NEW P \in SUBSET (1 .. Len(s))
  PROVE  /\ IsFiniteSet((1 .. Len(h)) \cup Shift(P, Len(h)))
         /\ At(h \o s, (1 .. Len(h)) \cup Shift(P, Len(h))) = h \o At(s, P)
<1>. DEFINE l == Len(h)
            t == h \o s
            A == 1 .. l
            B == Shift(P, l)
<1>1. l \in Nat /\ Len(s) \in Nat
  BY LenProperties
<1>2. /\ t \in Seq(Talk) /\ Len(t) = l + Len(s)
      /\ \A i \in 1 .. l + Len(s) : t[i] = IF i <= l THEN h[i] ELSE s[i - l]
  BY ConcatProperties
<1>3. P \in SUBSET Int /\ IsFiniteSet(P)
  <2>1. IsFiniteSet(1 .. Len(s))
    BY <1>1, FS_Interval
  <2>2. IsFiniteSet(P)
    BY <2>1, FS_Subset
  <2>. QED  BY <2>2
<1>. HIDE DEF l, t
<1>4. \A p \in P : t[p + l] = s[p]
  <2>. SUFFICES ASSUME NEW p \in P PROVE t[p + l] = s[p]
    OBVIOUS
  <2>1. p + l \in 1 .. l + Len(s) /\ ~(p + l <= l) /\ (p + l) - l = p
    BY <1>1
  <2>. QED  BY <1>2, <2>1
<1>5. B \in SUBSET Int /\ IsFiniteSet(B) /\ At(t, B) = At(s, P)
  <2>1. l \in Int
    BY <1>1
  <2>2. Further(s, P, t, l)
    BY <1>4 DEF Further
  <2>. QED  BY <1>3, <2>1, <2>2, AtShifted
<1>6. A \in SUBSET Int /\ IsFiniteSet(A) /\ \A i \in A : t[i] = h[i]
  <2>1. \A i \in A : i \in 1 .. l + Len(s) /\ i <= l
    BY <1>1
  <2>2. \A i \in A : t[i] = h[i]
    BY <1>2, <2>1
  <2>3. IsFiniteSet(A)
    BY <1>1, FS_Interval
  <2>. QED  BY <2>2, <2>3
<1>7. At(t, A) = h
  <2>1. At(h, A) = h
    BY AtAll DEF l
  <2>. HIDE DEF A
  <2>2. At(t, A) = At(h, A)
    BY <1>6, AtSame
  <2>. QED  BY <2>1, <2>2
<1>8. \A i \in A : \A j \in B : i < j
  <2>. SUFFICES ASSUME NEW i \in A, NEW p \in P PROVE i < p + l
    BY DEF Shift
  <2>1. i \in Int /\ i <= l /\ p \in Int /\ 1 <= p
    BY <1>1
  <2>. QED  BY <1>1, <2>1
<1>9. \A i \in A \cup B : t[i] \in Talk
  <2>1. \A i \in A \cup B : i \in 1 .. Len(t)
    <3>1. \A i \in A : i \in 1 .. Len(t)
      BY <1>1, <1>2
    <3>2. \A p \in P : p + l \in 1 .. Len(t)
      BY <1>1, <1>2
    <3>. QED  BY <3>1, <3>2 DEF Shift
  <2>. QED  BY <1>2, <2>1, ElementOfSeq
<1>. HIDE DEF A, B
<1>10. IsFiniteSet(A \cup B) /\ At(t, A \cup B) = At(t, A) \o At(t, B)
  BY <1>5, <1>6, <1>8, <1>9, AtJoined
<1>. QED  BY <1>5, <1>7, <1>10 DEF A, B, l, t

(***************************************************************************)
(* A piece of a stored conversation: texts at the odd places, images at the *)
(* even ones.  What stays when the images are limited.                     *)
(***************************************************************************)
\* A part of a conversation that begins and ends with a text: texts at the odd places,
\* images at the K even ones.
Zipped(s, K) ==
  /\ K \in Nat /\ s \in Seq(Talk) /\ Len(s) = 2 * K + 1
  /\ \A x \in 1 .. K : HasImage(s[2 * x])
  /\ \A x \in 1 .. K + 1 : s[2 * x - 1].images = <<>> /\ s[2 * x - 1].text # NoText

\* An odd or an even place.
LEMMA Places2 ==
  ASSUME NEW K \in Nat, NEW i \in 1 .. 2 * K + 1
  PROVE  \/ \E x \in 1 .. K : i = 2 * x
         \/ \E x \in 1 .. K + 1 : i = 2 * x - 1
<1>1. CASE i % 2 = 0
  <2>1. i = 2 * (i \div 2) /\ i \div 2 \in 1 .. K
    BY <1>1
  <2>. QED  BY <2>1
<1>2. CASE i % 2 = 1
  <2>1. i = 2 * (i \div 2 + 1) - 1 /\ i \div 2 + 1 \in 1 .. K + 1
    BY <1>2
  <2>. QED  BY <2>1
<1>. QED  BY <1>1, <1>2

LEMMA ImagesBehind ==
  ASSUME NEW s, NEW K, Zipped(s, K), NEW x \in 1 .. K
  PROVE  ImagesFrom(s, 2 * x) = K - x + 1
<1>. DEFINE P == {j \in 2 * x .. Len(s) : HasImage(s[j])}
            k == K - x + 1
            e == [n \in 1 .. k |-> 2 * (x + n - 1)]
<1>1. /\ K \in Nat /\ Len(s) = 2 * K + 1
      /\ \A y \in 1 .. K : HasImage(s[2 * y])
      /\ \A y \in 1 .. K + 1 : ~HasImage(s[2 * y - 1])
  BY DEF Zipped, HasImage
<1>2. k \in Nat /\ P \in SUBSET Int
  BY <1>1
<1>3. \A j \in P : \E y \in x .. K : j = 2 * y
  <2>. SUFFICES ASSUME NEW j \in 2 * x .. 2 * K + 1, HasImage(s[j])
                PROVE  \E y \in x .. K : j = 2 * y
    BY <1>1
  <2>1. j \in 1 .. 2 * K + 1
    BY <1>1
  <2>2. ~\E y \in 1 .. K + 1 : j = 2 * y - 1
    BY <1>1
  <2>3. PICK y \in 1 .. K : j = 2 * y
    BY <1>1, <2>1, <2>2, Places2
  <2>4. y \in x .. K
    BY <2>3
  <2>. QED  BY <2>3, <2>4
<1>4. \A y \in x .. K : 2 * y \in P
  <2>. SUFFICES ASSUME NEW y \in x .. K PROVE 2 * y \in P
    OBVIOUS
  <2>1. y \in 1 .. K /\ 2 * y \in 2 * x .. 2 * K + 1
    BY <1>1
  <2>. QED  BY <1>1, <2>1
<1>5. Lists(e, k, P)
  <2>. HIDE DEF P
  <2>1. e \in [1 .. k -> P]
    <3>1. \A n \in 1 .. k : x + n - 1 \in x .. K
      BY <1>1
    <3>. QED  BY <1>4, <3>1
  <2>2. \A m, n \in 1 .. k : m < n => e[m] < e[n]
    OBVIOUS
  <2>3. ASSUME NEW j \in P PROVE \E n \in 1 .. k : e[n] = j
    <3>1. PICK y \in x .. K : j = 2 * y
      BY <1>3
    <3>2. y - x + 1 \in 1 .. k /\ x + (y - x + 1) - 1 = y
      BY <1>1
    <3>3. e[y - x + 1] = 2 * y
      BY <3>2
    <3>. QED  BY <3>1, <3>2, <3>3
  <2>. HIDE DEF e
  <2>. QED  BY <1>2, <2>1, <2>2, <2>3 DEF Lists
<1>. HIDE DEF e, P
<1>6. Cardinality(P) = k
  BY <1>2, <1>5, ListNth
<1>. QED  BY <1>6 DEF ImagesFrom, P

\* What limit_images_in_messages leaves of it: its last images, and every text.
Bare(m) == [m EXCEPT !.images = <<>>]
Stripped(s, K, limit) ==
  [i \in 1 .. 2 * K + 1 |-> IF \E x \in 1 .. K : i = 2 * x /\ x <= K - limit
                            THEN Bare(s[i]) ELSE s[i]]
Kept(s, K, limit) ==
  {2 * x - 1 : x \in 1 .. K + 1}
    \cup {2 * x : x \in {y \in 1 .. K : y > K - limit \/ s[2 * y].text # NoText}}

LEMMA LimitZipped ==
  ASSUME NEW s, NEW K, Zipped(s, K), NEW limit \in Nat
  PROVE  LimitImages(s, limit) = At(Stripped(s, K, limit), Kept(s, K, limit))
<1>. DEFINE t == [i \in DOMAIN s |-> IF ImagesFrom(s, i) > limit
                                     THEN [s[i] EXCEPT !.images = <<>>] ELSE s[i]]
            u == Stripped(s, K, limit)
            N(i) == HasImage(t[i]) \/ t[i].text # NoText
<1>1. /\ K \in Nat /\ DOMAIN s = 1 .. 2 * K + 1 /\ s \in Seq(Talk) /\ Len(s) = 2 * K + 1
      /\ \A x \in 1 .. K : HasImage(s[2 * x])
      /\ \A x \in 1 .. K + 1 : s[2 * x - 1].images = <<>> /\ s[2 * x - 1].text # NoText
  BY DEF Zipped
<1>2. \A x \in 1 .. K + 1 : 2 * x - 1 \in 1 .. 2 * K + 1
  BY <1>1
<1>3. \A x \in 1 .. K : 2 * x \in 1 .. 2 * K + 1
  BY <1>1
<1>4. \A i \in 1 .. 2 * K + 1 : s[i] \in Talk
  BY <1>1
<1>5. \A x \in 1 .. K + 1 : t[2 * x - 1] = s[2 * x - 1] /\ u[2 * x - 1] = s[2 * x - 1]
  <2>. SUFFICES ASSUME NEW x \in 1 .. K + 1
                PROVE  t[2 * x - 1] = s[2 * x - 1] /\ u[2 * x - 1] = s[2 * x - 1]
    OBVIOUS
  <2>1. ~\E y \in 1 .. K : 2 * x - 1 = 2 * y
    <3>1. x \in Int
      BY <1>1
    <3>2. \A y \in Int : 2 * x - 1 # 2 * y
      BY <3>1
    <3>. QED  BY <3>2
  <2>2. u[2 * x - 1] = s[2 * x - 1]
    BY <1>2, <2>1 DEF Stripped
  <2>3. s[2 * x - 1] \in Talk /\ s[2 * x - 1].images = <<>>
    BY <1>1, <1>2, <1>4
  <2>4. [s[2 * x - 1] EXCEPT !.images = <<>>] = s[2 * x - 1]
    BY <2>3 DEF Talk
  <2>. QED  BY <1>1, <1>2, <2>2, <2>4
<1>6. \A x \in 1 .. K :
        LET v == IF x <= K - limit THEN Bare(s[2 * x]) ELSE s[2 * x]
        IN  t[2 * x] = v /\ u[2 * x] = v
  <2>. SUFFICES ASSUME NEW x \in 1 .. K
                PROVE  LET v == IF x <= K - limit THEN Bare(s[2 * x]) ELSE s[2 * x]
                       IN  t[2 * x] = v /\ u[2 * x] = v
    OBVIOUS
  <2>1. ImagesFrom(s, 2 * x) = K - x + 1
    BY ImagesBehind
  <2>2. ImagesFrom(s, 2 * x) > limit <=> x <= K - limit
    BY <1>1, <2>1
  <2>3. (\E y \in 1 .. K : 2 * x = 2 * y /\ y <= K - limit) <=> x <= K - limit
    <3>1. K \in Int /\ x \in Int
      BY <1>1
    <3>2. \A y \in 1 .. K : 2 * x = 2 * y => x = y
      BY <3>1
    <3>. QED  BY <3>2
  <2>4. 2 * x \in 1 .. 2 * K + 1
    BY <1>3
  <2>5. t[2 * x] = IF x <= K - limit THEN Bare(s[2 * x]) ELSE s[2 * x]
    BY <1>1, <2>2, <2>4 DEF Bare
  <2>6. u[2 * x] = IF x <= K - limit THEN Bare(s[2 * x]) ELSE s[2 * x]
    BY <2>3, <2>4 DEF Stripped
  <2>. QED  BY <2>5, <2>6
<1>7. DOMAIN t = 1 .. 2 * K + 1 /\ DOMAIN u = 1 .. 2 * K + 1
  BY <1>1 DEF Stripped
<1>. HIDE DEF t, u
<1>8. \A x \in 1 .. K + 1 : N(2 * x - 1)
  BY <1>1, <1>5
<1>9. \A x \in 1 .. K : N(2 * x) <=> x > K - limit \/ s[2 * x].text # NoText
  <2>. SUFFICES ASSUME NEW x \in 1 .. K
                PROVE  N(2 * x) <=> x > K - limit \/ s[2 * x].text # NoText
    OBVIOUS
  <2>1. s[2 * x] \in Talk /\ HasImage(s[2 * x])
    BY <1>1, <1>3, <1>4
  <2>2. CASE x <= K - limit
    <3>1. t[2 * x] = Bare(s[2 * x])
      BY <1>6, <2>2
    <3>2. ~HasImage(Bare(s[2 * x])) /\ Bare(s[2 * x]).text = s[2 * x].text
      BY <2>1 DEF Bare, HasImage, Talk
    <3>. QED  BY <1>1, <2>2, <3>1, <3>2
  <2>3. CASE ~(x <= K - limit)
    BY <1>1, <1>6, <2>1, <2>3
  <2>. QED  BY <2>2, <2>3
<1>10. {i \in DOMAIN t : N(i)} = Kept(s, K, limit)
  <2>. HIDE DEF N
  <2>1. ASSUME NEW i \in 1 .. 2 * K + 1, N(i) PROVE i \in Kept(s, K, limit)
    <3>1. CASE \E x \in 1 .. K : i = 2 * x
      <4>1. PICK x \in 1 .. K : i = 2 * x
        BY <3>1
      <4>2. x > K - limit \/ s[2 * x].text # NoText
        BY <1>9, <2>1, <4>1
      <4>. QED  BY <4>1, <4>2 DEF Kept
    <3>2. CASE \E x \in 1 .. K + 1 : i = 2 * x - 1
      BY <3>2 DEF Kept
    <3>. QED  BY <1>1, <3>1, <3>2, Places2
  <2>2. ASSUME NEW i \in Kept(s, K, limit) PROVE i \in 1 .. 2 * K + 1 /\ N(i)
    <3>1. CASE \E x \in 1 .. K + 1 : i = 2 * x - 1
      <4>1. PICK x \in 1 .. K + 1 : i = 2 * x - 1
        BY <3>1
      <4>. QED  BY <1>2, <1>8, <4>1
    <3>2. CASE \E x \in 1 .. K : i = 2 * x /\ (x > K - limit \/ s[2 * x].text # NoText)
      <4>1. PICK x \in 1 .. K : i = 2 * x /\ (x > K - limit \/ s[2 * x].text # NoText)
        BY <3>2
      <4>. QED  BY <1>3, <1>9, <4>1
    <3>. QED  BY <3>1, <3>2 DEF Kept
  <2>. QED  BY <1>7, <2>1, <2>2
<1>11. LimitImages(s, limit) = At(t, {i \in DOMAIN t : N(i)})
  BY DEF LimitImages, Only, t, N
<1>12. \A i \in 1 .. 2 * K + 1 : t[i] = u[i]
  <2>. SUFFICES ASSUME NEW i \in 1 .. 2 * K + 1 PROVE t[i] = u[i]
    OBVIOUS
  <2>1. CASE \E x \in 1 .. K : i = 2 * x
    BY <1>6, <2>1
  <2>2. CASE \E x \in 1 .. K + 1 : i = 2 * x - 1
    BY <1>5, <2>2
  <2>. QED  BY <1>1, <2>1, <2>2, Places2
<1>13. t = u
  <2>1. t = [i \in 1 .. 2 * K + 1 |-> t[i]] /\ u = [i \in 1 .. 2 * K + 1 |-> u[i]]
    BY <1>1 DEF t, u, Stripped
  <2>. QED  BY <1>12, <2>1
<1>. QED  BY <1>10, <1>11, <1>13 DEF u

(***************************************************************************)
(* Stored conversations and the trainer's rows: the row of an answer is the *)
(* prompt it was given to.                                                 *)
(***************************************************************************)
\* A conversation as it is stored: every answer but the last step's is followed by an image,
\* and only that step may have an image and no answer.
Told(s) == <<SystemPrompt, Instruction(<<0>>)>> \o s
Finished(s, a, f) == Alternates(s, a, f) /\ (f = a \/ f = a + 1)

LEMMA ToldFacts ==
  ASSUME NEW s, NEW a, NEW f, Finished(s, a, f)
  PROVE  /\ a \in Nat /\ f \in Nat /\ s \in Seq(Message) /\ s \in Seq(Talk) /\ Len(s) = a + f
         /\ Told(s) \in Seq(Talk) /\ Len(Told(s)) = a + f + 2
         /\ Told(s)[1] = SystemPrompt /\ Told(s)[2] = Instruction(<<0>>)
         /\ \A i \in 1 .. a + f : Told(s)[i + 2] = s[i]
         /\ \A k \in 1 .. a : s[2 * k - 1] = Answer(k) /\ Told(s)[2 * k + 1] = Answer(k)
         /\ \A n \in 1 .. a : s[2 * n] = Image(n) /\ Told(s)[2 * n + 2] = Image(n)
         /\ f = a + 1 => Told(s)[2 * a + 3] = Image(a + 1)
<1>. DEFINE h == <<SystemPrompt, Instruction(<<0>>)>>
            t == h \o s
<1>1. /\ s \in Seq(Message) /\ a \in Nat /\ f \in Nat /\ Len(s) = a + f
      /\ f = a \/ f = a + 1
      /\ \A k \in 1 .. a : s[2 * k - 1] = Answer(k)
      /\ \A n \in 1 .. f : s[ImageAt(a, n)] = Image(n)
  BY DEF Finished, Alternates
<1>2. s \in Seq(Talk)
  BY <1>1, TalkTypes, SeqMonotonic
<1>3. h \in Seq(Talk) /\ Len(h) = 2 /\ h[1] = SystemPrompt /\ h[2] = Instruction(<<0>>)
  BY TalkTypes
<1>. HIDE DEF h
<1>4. /\ t \in Seq(Talk) /\ Len(t) = 2 + (a + f)
      /\ \A i \in 1 .. 2 + (a + f) : t[i] = IF i <= 2 THEN h[i] ELSE s[i - 2]
  <2>1. /\ t \in Seq(Talk) /\ Len(t) = Len(h) + Len(s)
        /\ \A i \in 1 .. Len(h) + Len(s) : t[i] = IF i <= Len(h) THEN h[i] ELSE s[i - Len(h)]
    BY <1>2, <1>3, ConcatProperties
  <2>. QED  BY <1>1, <1>3, <2>1
<1>. HIDE DEF t
<1>5. t[1] = SystemPrompt /\ t[2] = Instruction(<<0>>)
  BY <1>1, <1>3, <1>4
<1>6. \A i \in 1 .. a + f : t[i + 2] = s[i]
  <2>. SUFFICES ASSUME NEW i \in 1 .. a + f PROVE t[i + 2] = s[i]
    OBVIOUS
  <2>1. i + 2 \in 1 .. 2 + (a + f) /\ ~(i + 2 <= 2) /\ (i + 2) - 2 = i
    BY <1>1
  <2>. QED  BY <1>4, <2>1
<1>7. \A k \in 1 .. a : s[2 * k - 1] = Answer(k) /\ t[2 * k + 1] = Answer(k)
  <2>. SUFFICES ASSUME NEW k \in 1 .. a
                PROVE  s[2 * k - 1] = Answer(k) /\ t[2 * k + 1] = Answer(k)
    OBVIOUS
  <2>1. 2 * k - 1 \in 1 .. a + f /\ (2 * k - 1) + 2 = 2 * k + 1
    BY <1>1
  <2>. QED  BY <1>1, <1>6, <2>1
<1>8. \A n \in 1 .. a : s[2 * n] = Image(n) /\ t[2 * n + 2] = Image(n)
  <2>. SUFFICES ASSUME NEW n \in 1 .. a
                PROVE  s[2 * n] = Image(n) /\ t[2 * n + 2] = Image(n)
    OBVIOUS
  <2>1. 2 * n \in 1 .. a + f /\ n \in 1 .. f /\ n <= a
    BY <1>1
  <2>2. ImageAt(a, n) = 2 * n
    BY <2>1 DEF ImageAt
  <2>. QED  BY <1>1, <1>6, <2>1, <2>2
<1>9. ASSUME f = a + 1 PROVE t[2 * a + 3] = Image(a + 1)
  <2>1. /\ a + 1 \in 1 .. f /\ ~(a + 1 <= a) /\ 2 * (a + 1) - 1 = 2 * a + 1
        /\ 2 * a + 1 \in 1 .. a + f /\ (2 * a + 1) + 2 = 2 * a + 3
    BY <1>1, <1>9
  <2>2. ImageAt(a, a + 1) = 2 * a + 1
    BY <2>1 DEF ImageAt
  <2>3. s[2 * a + 1] = Image(a + 1)
    BY <1>1, <2>1, <2>2
  <2>. QED  BY <1>6, <2>1, <2>3
<1>10. Len(t) = a + f + 2
  BY <1>1, <1>4
<1>. QED  BY <1>1, <1>2, <1>4, <1>5, <1>6, <1>7, <1>8, <1>9, <1>10 DEF Told, t, h

LEMMA ToldShift ==
  ASSUME NEW s, NEW a, NEW f, Finished(s, a, f)
  PROVE  \A i \in 1 .. a + f : Told(s)[i + 2] = s[i]
<1>. DEFINE T == Told(s)
<1>1. /\ T[2] = Instruction(<<0>>)
      /\ \A i \in 1 .. a + f : T[i + 2] = s[i]
  BY ToldFacts
<1>. HIDE DEF T
<1>2. \A i \in 1 .. a + f : T[i + 2] = s[i]
  BY <1>1
<1>. QED  BY <1>2 DEF T

\* Where the prompt of the k-th answer, and the answer, are in the conversation.
RowPlaces(c, k) == Latest(c, k - 1, k - 1) \cup {2 * k - 1}

LEMMA InRowPlaces ==
  ASSUME NEW c \in Config, NEW k \in Nat \ {0}, NEW p
  PROVE  p \in RowPlaces(c, k) <=>
           \/ \E x \in 1 .. k : x >= k - c.max_texts /\ p = 2 * x - 1
           \/ \E x \in 1 .. k - 1 : x >= k - c.max_images /\ p = 2 * x
<1>. DEFINE j == k - 1
            T == LatestTexts(c, j)
            R == LatestImages(c, j, j)
            U == \E x \in 1 .. k : x >= k - c.max_texts /\ p = 2 * x - 1
            V == \E x \in 1 .. k - 1 : x >= k - c.max_images /\ p = 2 * x
<1>1. c.max_texts \in Nat /\ c.max_images \in Nat /\ j \in Nat
  BY DEF Config
<1>2. p \in T <=> \E x \in 1 .. j : x > j - c.max_texts /\ p = 2 * x - 1
  BY InLatestTexts
<1>3. p \in R <=> \E x \in 1 .. j : x > j - c.max_images /\ p = ImageAt(j, x)
  BY InLatestImages
<1>. HIDE DEF T, R
<1>4. p \in T \/ p = 2 * k - 1 <=> U
  <2>1. ASSUME p \in T PROVE U
    <3>1. PICK x \in 1 .. j : x > j - c.max_texts /\ p = 2 * x - 1
      BY <1>2, <2>1
    <3>2. x \in 1 .. k /\ x >= k - c.max_texts
      BY <1>1, <3>1
    <3>. QED  BY <3>1, <3>2
  <2>2. ASSUME p = 2 * k - 1 PROVE U
    <3>1. k \in 1 .. k /\ k >= k - c.max_texts
      BY <1>1
    <3>. QED  BY <2>2, <3>1
  <2>3. ASSUME U, p # 2 * k - 1 PROVE p \in T
    <3>1. PICK x \in 1 .. k : x >= k - c.max_texts /\ p = 2 * x - 1
      BY <2>3
    <3>2. x # k
      BY <2>3, <3>1
    <3>3. x \in 1 .. j /\ x > j - c.max_texts
      BY <1>1, <3>1, <3>2
    <3>. QED  BY <1>2, <3>1, <3>3
  <2>. QED  BY <2>1, <2>2, <2>3
<1>5. p \in R <=> V
  <2>1. \A x \in 1 .. j : ImageAt(j, x) = 2 * x
    BY DEF ImageAt
  <2>2. \A x \in 1 .. j : x > j - c.max_images <=> x >= k - c.max_images
    BY <1>1
  <2>. QED  BY <1>3, <2>1, <2>2
<1>. QED  BY <1>4, <1>5 DEF RowPlaces, Latest, T, R

LEMMA RowPlacesIn ==
  ASSUME NEW c \in Config, NEW a \in Nat, NEW k \in 1 .. a
  PROVE  /\ RowPlaces(c, k) \in SUBSET (1 .. 2 * a) /\ IsFiniteSet(RowPlaces(c, k))
         /\ RowPlaces(c, k) \in SUBSET Int
<1>. DEFINE j == k - 1
<1>1. j \in Nat /\ j <= j + 1 /\ 2 * k - 1 \in 1 .. 2 * a /\ 2 * k - 1 \in Int
  OBVIOUS
<1>2. Latest(c, j, j) \in SUBSET (1 .. j + j)
  BY <1>1, LatestBounds
<1>3. \A i \in 1 .. j + j : i \in 1 .. 2 * a
  OBVIOUS
<1>4. RowPlaces(c, k) \in SUBSET (1 .. 2 * a)
  BY <1>1, <1>2, <1>3 DEF RowPlaces
<1>5. IsFiniteSet(1 .. 2 * a)
  BY FS_Interval
<1>6. RowPlaces(c, k) \in SUBSET Int
  BY <1>4
<1>. QED  BY <1>4, <1>5, <1>6, FS_Subset

\* The prompt of an answer and the answer.
LEMMA PromptAnswered ==
  ASSUME NEW c \in Config, NEW s, NEW a, NEW f, Finished(s, a, f), NEW k \in 1 .. a
  PROVE  Append(PromptOf(c, s, k - 1), Answer(k))
           = <<SystemPrompt, Instruction(Base(c, k - 1))>> \o At(s, RowPlaces(c, k))
<1>. DEFINE j == k - 1
            P == Latest(c, j, j)
            q == 2 * k - 1
            h == <<SystemPrompt, Instruction(Base(c, j))>>
<1>1. /\ a \in Nat /\ f \in Nat /\ s \in Seq(Message) /\ Len(s) = a + f /\ s[q] = Answer(k)
      /\ f = a \/ f = a + 1
  BY ToldFacts DEF Finished
<1>2. /\ j \in Nat /\ j <= j + 1 /\ q \in Int /\ q \in 1 .. Len(s) /\ j <= a /\ j <= f
      /\ \A i \in 1 .. j + j : i < q /\ i \in 1 .. Len(s)
  BY <1>1
<1>3. P \in SUBSET (1 .. j + j) /\ IsFiniteSet(P)
  BY <1>2, LatestBounds
<1>4. P \in SUBSET Int /\ (\A i \in P : i < q) /\ \A i \in P \cup {q} : s[i] \in Message
  <2>1. \A i \in P : i < q /\ i \in 1 .. Len(s)
    BY <1>2, <1>3
  <2>2. \A i \in 1 .. Len(s) : s[i] \in Message
    BY <1>1
  <2>. HIDE DEF q, P
  <2>. QED  BY <1>2, <1>3, <2>1, <2>2
<1>. HIDE DEF P, q
<1>5. At(s, P \cup {q}) = Append(At(s, P), s[q])
  BY <1>2, <1>3, <1>4, AtAdded
<1>6. At(s, P) \in Seq(Talk)
  <2>1. Alternates(s, a, f)
    BY DEF Finished
  <2>. QED  BY <1>2, <2>1, PromptTyped DEF P
<1>7. h \in Seq(Talk)
  BY TalkTypes DEF Base
<1>8. Answer(k) \in Talk
  BY DEF Answer, Talk
<1>. DEFINE u == At(s, P)
            e == Answer(k)
<1>9. Append(h \o u, e) = h \o Append(u, e)
  <2>. HIDE DEF h, u, e
  <2>1. h \in Seq(Talk) /\ u \in Seq(Talk) /\ e \in Talk
    BY <1>6, <1>7, <1>8 DEF h, u, e
  <2>2. /\ <<e>> \in Seq(Talk) /\ Append(u, e) = u \o <<e>>
        /\ h \o u \in Seq(Talk) /\ Append(h \o u, e) = (h \o u) \o <<e>>
    BY <2>1, AppendIsConcat, ConcatProperties
  <2>3. (h \o u) \o <<e>> = h \o (u \o <<e>>)
    BY <2>1, <2>2, TalkAssociative
  <2>. QED  BY <2>2, <2>3
<1>. QED  BY <1>1, <1>5, <1>9 DEF PromptOf, RowPlaces, P, q

LEMMA InKept ==
  ASSUME NEW z, NEW K, NEW limit, NEW i
  PROVE  i \in Kept(z, K, limit) <=>
           \/ \E y \in 1 .. K + 1 : i = 2 * y - 1
           \/ \E y \in 1 .. K : (y > K - limit \/ z[2 * y].text # NoText) /\ i = 2 * y
BY DEF Kept

LEMMA InStripped ==
  ASSUME NEW z, NEW K \in Nat, NEW limit \in Nat
  PROVE  /\ \A y \in 1 .. K + 1 : Stripped(z, K, limit)[2 * y - 1] = z[2 * y - 1]
         /\ \A y \in 1 .. K : Stripped(z, K, limit)[2 * y] =
                                IF y > K - limit THEN z[2 * y] ELSE Bare(z[2 * y])
<1>1. ASSUME NEW y \in 1 .. K + 1
      PROVE  Stripped(z, K, limit)[2 * y - 1] = z[2 * y - 1]
  <2>1. \A x \in Int : 2 * y - 1 # 2 * x
    OBVIOUS
  <2>2. ~\E x \in 1 .. K : 2 * y - 1 = 2 * x /\ x <= K - limit
    BY <2>1
  <2>3. 2 * y - 1 \in 1 .. 2 * K + 1
    OBVIOUS
  <2>. QED  BY <2>2, <2>3 DEF Stripped
<1>2. ASSUME NEW y \in 1 .. K
      PROVE  Stripped(z, K, limit)[2 * y] = IF y > K - limit THEN z[2 * y] ELSE Bare(z[2 * y])
  <2>1. \A x \in 1 .. K : 2 * y = 2 * x => x = y
    OBVIOUS
  <2>2. (\E x \in 1 .. K : 2 * y = 2 * x /\ x <= K - limit) <=> ~(y > K - limit)
    BY <2>1
  <2>3. 2 * y \in 1 .. 2 * K + 1
    OBVIOUS
  <2>. QED  BY <2>2, <2>3 DEF Stripped
<1>. QED  BY <1>1, <1>2

\* The messages a row is made of before the images are limited.
LEMMA SliceTold ==
  ASSUME NEW s, NEW a, NEW f, Finished(s, a, f), NEW k \in 1 .. a, NEW b \in 0 .. k
  PROVE  LET z == Slice(Told(s), 2 * b, 2 * k + 1)
             K == k - b
         IN  /\ z \in Seq(Talk) /\ Len(z) = 2 * K + 1 /\ K \in Nat
             /\ \A i \in 1 .. 2 * K + 1 : z[i] = Told(s)[2 * b + i]
<1>. DEFINE D == Told(s)
            z == SubSeq(D, 2 * b + 1, 2 * k + 1)
            K == k - b
<1>1. /\ a \in Nat /\ f \in Nat /\ D \in Seq(Talk) /\ Len(D) = a + f + 2
      /\ f = a \/ f = a + 1
  BY ToldFacts DEF Finished
<1>2. K \in Nat /\ 2 * k + 1 <= Len(D) /\ 2 * b + 1 <= 2 * k + 1
      /\ 2 * b + 1 \in Int /\ 2 * k + 1 \in Int /\ (2 * k + 1) - (2 * b + 1) + 1 = 2 * K + 1
  BY <1>1
<1>3. Slice(D, 2 * b, 2 * k + 1) = z
  BY <1>2 DEF Slice
<1>4. \A i \in 2 * b + 1 .. 2 * k + 1 : D[i] \in Talk
  <2>1. \A i \in 2 * b + 1 .. 2 * k + 1 : i \in 1 .. Len(D)
    BY <1>1, <1>2
  <2>. QED  BY <1>1, <2>1, ElementOfSeq
<1>. HIDE DEF D
<1>5. /\ z \in Seq(Talk) /\ Len(z) = 2 * K + 1
      /\ \A i \in 1 .. 2 * K + 1 : z[i] = D[(2 * b + 1) + i - 1]
  BY <1>2, <1>4, SubSeqProperties
<1>6. \A i \in 1 .. 2 * K + 1 : (2 * b + 1) + i - 1 = 2 * b + i
  BY <1>2
<1>. QED  BY <1>2, <1>3, <1>5, <1>6 DEF D

LEMMA SliceZipped ==
  ASSUME NEW s, NEW a, NEW f, Finished(s, a, f), NEW k \in 1 .. a, NEW b \in 0 .. k
  PROVE  LET z == Slice(Told(s), 2 * b, 2 * k + 1)
         IN  /\ Zipped(z, k - b)
             /\ \A x \in 1 .. (k - b) + 1 : x + b > 1 => z[2 * x - 1] = Answer(x + b - 1)
             /\ \A x \in 1 .. k - b : x + b > 1 => z[2 * x] = Image(x + b - 1)
             /\ b = 0 => z[1] = SystemPrompt /\ z[2] = Instruction(<<0>>)
<1>. DEFINE D == Told(s)
            z == Slice(D, 2 * b, 2 * k + 1)
            K == k - b
<1>1. /\ a \in Nat /\ D[1] = SystemPrompt /\ D[2] = Instruction(<<0>>)
      /\ \A n \in 1 .. a : D[2 * n + 1] = Answer(n)
      /\ \A n \in 1 .. a : D[2 * n + 2] = Image(n)
  BY ToldFacts
<1>2. /\ z \in Seq(Talk) /\ Len(z) = 2 * K + 1 /\ K \in Nat
      /\ \A i \in 1 .. 2 * K + 1 : z[i] = D[2 * b + i]
  <2>1. /\ Slice(Told(s), 2 * b, 2 * k + 1) \in Seq(Talk)
        /\ Len(Slice(Told(s), 2 * b, 2 * k + 1)) = 2 * (k - b) + 1
        /\ k - b \in Nat
        /\ \A i \in 1 .. 2 * (k - b) + 1 :
             Slice(Told(s), 2 * b, 2 * k + 1)[i] = Told(s)[2 * b + i]
    BY SliceTold
  <2>. QED  BY <2>1
<1>. HIDE DEF z, D
<1>3. \A x \in 1 .. K + 1 : x + b > 1 => z[2 * x - 1] = Answer(x + b - 1)
  <2>. SUFFICES ASSUME NEW x \in 1 .. K + 1, x + b > 1
                PROVE  z[2 * x - 1] = Answer(x + b - 1)
    OBVIOUS
  <2>1. /\ 2 * x - 1 \in 1 .. 2 * K + 1 /\ x + b - 1 \in 1 .. a
        /\ 2 * b + (2 * x - 1) = 2 * (x + b - 1) + 1
    BY <1>1, <1>2
  <2>2. D[2 * (x + b - 1) + 1] = Answer(x + b - 1)
    BY <1>1, <2>1
  <2>. QED  BY <1>2, <2>1, <2>2
<1>4. \A x \in 1 .. K : x + b > 1 => z[2 * x] = Image(x + b - 1)
  <2>. SUFFICES ASSUME NEW x \in 1 .. K, x + b > 1
                PROVE  z[2 * x] = Image(x + b - 1)
    OBVIOUS
  <2>1. /\ 2 * x \in 1 .. 2 * K + 1 /\ x + b - 1 \in 1 .. a
        /\ 2 * b + 2 * x = 2 * (x + b - 1) + 2
    BY <1>1, <1>2
  <2>2. D[2 * (x + b - 1) + 2] = Image(x + b - 1)
    BY <1>1, <2>1
  <2>. QED  BY <1>2, <2>1, <2>2
<1>5. ASSUME b = 0 PROVE z[1] = SystemPrompt /\ z[2] = Instruction(<<0>>)
  <2>1. /\ 1 \in 1 .. 2 * K + 1 /\ 2 \in 1 .. 2 * K + 1 /\ 2 * b + 1 = 1 /\ 2 * b + 2 = 2
    BY <1>5
  <2>. QED  BY <1>1, <1>2, <2>1
<1>6. \A n : /\ HasImage(Image(n)) /\ Answer(n).images = <<>>
             /\ n \in Nat => Answer(n).text # NoText
  BY DEF HasImage, Image, Answer, NoText
<1>7. /\ HasImage(Instruction(<<0>>)) /\ SystemPrompt.images = <<>>
      /\ SystemPrompt.text # NoText
  BY DEF HasImage, Instruction, SystemPrompt, NoText
<1>8. ASSUME NEW x \in 1 .. K PROVE HasImage(z[2 * x])
  <2>1. CASE x + b > 1
    BY <1>4, <1>6, <2>1
  <2>2. CASE ~(x + b > 1)
    <3>1. b = 0 /\ 2 * x = 2
      BY <2>2
    <3>2. z[2 * x] = Instruction(<<0>>)
      BY <1>5, <3>1
    <3>. QED  BY <1>7, <3>2
  <2>. QED  BY <2>1, <2>2
<1>9. ASSUME NEW x \in 1 .. K + 1
      PROVE  z[2 * x - 1].images = <<>> /\ z[2 * x - 1].text # NoText
  <2>1. CASE x + b > 1
    <3>1. x + b - 1 \in Nat /\ z[2 * x - 1] = Answer(x + b - 1)
      BY <1>3, <2>1
    <3>. QED  BY <1>6, <3>1
  <2>2. CASE ~(x + b > 1)
    <3>1. b = 0 /\ 2 * x - 1 = 1
      BY <2>2
    <3>2. z[2 * x - 1] = SystemPrompt
      BY <1>5, <3>1
    <3>. QED  BY <1>7, <3>2
  <2>. QED  BY <2>1, <2>2
<1>10. Zipped(z, K)
  BY <1>2, <1>8, <1>9 DEF Zipped
<1>. QED  BY <1>3, <1>4, <1>5, <1>10 DEF z, D

\* A row that begins behind the instruction.
LEMMA RowCut ==
  ASSUME NEW c \in Config, c.max_images <= c.max_texts,
         NEW s, NEW a, NEW f, Finished(s, a, f), NEW k \in 1 .. a, k > c.max_texts
  PROVE  LimitImages(Slice(Told(s), 2 * (k - c.max_texts), 2 * k + 1), c.max_images)
           = At(s, RowPlaces(c, k))
<1>. DEFINE M == c.max_texts
            I == c.max_images
            b == k - M
            z == Slice(Told(s), 2 * b, 2 * k + 1)
            t == Stripped(z, M, I)
            d == 2 * (1 - b)
            P == RowPlaces(c, k)
            Q == Kept(z, M, I)
<1>1. /\ M \in Nat /\ I \in Nat /\ I # 0 /\ I <= M /\ k \in Nat \ {0} /\ a \in Nat
      /\ b \in 0 .. k /\ b >= 1 /\ k - b = M /\ d \in Int /\ b \in Int
  <2>1. M \in Nat /\ I \in Nat /\ I # 0 /\ I <= M /\ a \in Nat
    BY ToldFacts DEF Config
  <2>. QED  BY <2>1
<1>. HIDE DEF M, I, b, d
<1>2. /\ Zipped(z, M)
      /\ \A x \in 1 .. M + 1 : z[2 * x - 1] = Answer(x + b - 1)
      /\ \A x \in 1 .. M : z[2 * x] = Image(x + b - 1)
  <2>1. /\ Zipped(z, k - b)
        /\ \A x \in 1 .. (k - b) + 1 : x + b > 1 => z[2 * x - 1] = Answer(x + b - 1)
        /\ \A x \in 1 .. k - b : x + b > 1 => z[2 * x] = Image(x + b - 1)
    <3>1. b \in 0 .. k
      BY <1>1
    <3>. QED  BY <3>1, SliceZipped
  <2>2. \A x \in Nat \ {0} : x + b > 1
    BY <1>1
  <2>. QED  BY <1>1, <2>1, <2>2
<1>3. /\ \A x \in 1 .. a : s[2 * x - 1] = Answer(x)
      /\ \A x \in 1 .. a : s[2 * x] = Image(x)
  BY ToldFacts
<1>. HIDE DEF z
<1>4. /\ \A y \in 1 .. M + 1 : t[2 * y - 1] = z[2 * y - 1]
      /\ \A y \in 1 .. M : t[2 * y] = IF y > M - I THEN z[2 * y] ELSE Bare(z[2 * y])
  <2>1. M \in Nat /\ I \in Nat
    BY <1>1
  <2>. QED  BY <2>1, InStripped
<1>5. P \in SUBSET Int /\ IsFiniteSet(P)
  BY <1>1, RowPlacesIn
<1>6. LimitImages(z, I) = At(t, Q)
  BY <1>1, <1>2, LimitZipped
<1>. HIDE DEF t
<1>7. \A p : p \in P <=> \/ \E x \in 1 .. k : x >= b /\ p = 2 * x - 1
                         \/ \E x \in 1 .. k - 1 : x >= k - I /\ p = 2 * x
  BY <1>1, InRowPlaces DEF b, M, I
<1>8. \A n : n \in Nat => Image(n).text = NoText
  BY DEF Image
<1>9. \A i : i \in Q <=> \/ \E y \in 1 .. M + 1 : i = 2 * y - 1
                         \/ \E y \in 1 .. M : y > M - I /\ i = 2 * y
  <2>1. \A y \in 1 .. M : z[2 * y].text = NoText
    <3>. SUFFICES ASSUME NEW y \in 1 .. M PROVE z[2 * y].text = NoText
      OBVIOUS
    <3>1. y + b - 1 \in Nat
      BY <1>1
    <3>. QED  BY <1>2, <1>8, <3>1
  <2>. QED  BY <2>1, InKept
<1>. HIDE DEF P, Q
<1>10. ASSUME NEW p \in P PROVE p + d \in Q /\ t[p + d] = s[p]
  <2>1. CASE \E x \in 1 .. k : x >= b /\ p = 2 * x - 1
    <3>1. PICK x \in 1 .. k : x >= b /\ p = 2 * x - 1
      BY <2>1
    <3>2. PICK y \in 1 .. M + 1 : y = x - b + 1
      BY <1>1, <3>1
    <3>3. p + d = 2 * y - 1 /\ x = y + b - 1 /\ x \in 1 .. a
      BY <1>1, <3>1, <3>2 DEF d
    <3>4. t[2 * y - 1] = Answer(x)
      BY <1>2, <1>4, <3>2, <3>3
    <3>. QED  BY <1>3, <1>9, <3>1, <3>2, <3>3, <3>4
  <2>2. CASE \E x \in 1 .. k - 1 : x >= k - I /\ p = 2 * x
    <3>1. PICK x \in 1 .. k - 1 : x >= k - I /\ p = 2 * x
      BY <2>2
    <3>2. x - b + 1 \in 1 .. M /\ x - b + 1 > M - I
      BY <1>1, <3>1
    <3>3. PICK y \in 1 .. M : y = x - b + 1 /\ y > M - I
      BY <3>2
    <3>4. p + d = 2 * y /\ x = y + b - 1 /\ x \in 1 .. a
      BY <1>1, <3>1, <3>3 DEF d
    <3>5. t[2 * y] = Image(x)
      BY <1>2, <1>4, <3>3, <3>4
    <3>. QED  BY <1>3, <1>9, <3>1, <3>3, <3>4, <3>5
  <2>. QED  BY <1>7, <2>1, <2>2
<1>11. ASSUME NEW i \in Q PROVE i \in Int /\ i - d \in P
  <2>1. CASE \E y \in 1 .. M + 1 : i = 2 * y - 1
    <3>1. PICK y \in 1 .. M + 1 : i = 2 * y - 1
      BY <2>1
    <3>2. PICK x \in 1 .. k : x = y + b - 1 /\ x >= b
      BY <1>1, <3>1
    <3>3. i - d = 2 * x - 1 /\ i \in Int
      BY <1>1, <3>1, <3>2 DEF d
    <3>. QED  BY <1>7, <3>2, <3>3
  <2>2. CASE \E y \in 1 .. M : y > M - I /\ i = 2 * y
    <3>1. PICK y \in 1 .. M : y > M - I /\ i = 2 * y
      BY <2>2
    <3>2. y + b - 1 \in 1 .. k - 1 /\ y + b - 1 >= k - I
      BY <1>1, <3>1
    <3>3. PICK x \in 1 .. k - 1 : x = y + b - 1 /\ x >= k - I
      BY <3>2
    <3>4. i - d = 2 * x /\ i \in Int
      BY <1>1, <3>1, <3>3 DEF d
    <3>. QED  BY <1>7, <3>3, <3>4
  <2>. QED  BY <1>9, <2>1, <2>2
<1>12. Q = Shift(P, d)
  <2>1. \A i \in Q : i \in Shift(P, d)
    BY <1>1, <1>5, <1>11, InShift
  <2>2. \A i \in Shift(P, d) : i \in Q
    BY <1>10 DEF Shift
  <2>. QED  BY <2>1, <2>2
<1>13. Further(s, P, t, d)
  BY <1>10 DEF Further
<1>14. At(t, Shift(P, d)) = At(s, P)
  BY <1>1, <1>5, <1>13, AtShifted
<1>. QED  BY <1>6, <1>12, <1>14 DEF P, z, b, M, I

\* A row that begins with the system prompt and the instruction.
LEMMA RowWhole ==
  ASSUME NEW c \in Config, c.max_images <= c.max_texts,
         NEW s, NEW a, NEW f, Finished(s, a, f), NEW k \in 1 .. a, k <= c.max_texts
  PROVE  LimitImages(Slice(Told(s), 0, 2 * k + 1), c.max_images)
           = <<SystemPrompt, Instruction(Base(c, k - 1))>> \o At(s, RowPlaces(c, k))
<1>. DEFINE I == c.max_images
            z == Slice(Told(s), 2 * 0, 2 * k + 1)
            t == Stripped(z, k, I)
            h == <<SystemPrompt, Instruction(Base(c, k - 1))>>
            u == h \o s
            P == RowPlaces(c, k)
            Q == Kept(z, k, I)
            R == (1 .. 2) \cup Shift(P, 2)
<1>1. /\ I \in Nat /\ I # 0 /\ k \in Nat \ {0} /\ a \in Nat /\ s \in Seq(Talk)
      /\ c.max_texts \in Nat /\ 0 \in 0 .. k /\ k - 0 = k /\ Len(s) \in Nat /\ 2 * a <= Len(s)
  <2>1. /\ I \in Nat /\ I # 0 /\ a \in Nat /\ s \in Seq(Talk) /\ c.max_texts \in Nat
        /\ Len(s) = a + f /\ f \in Nat
        /\ f = a \/ f = a + 1
    BY ToldFacts DEF Config, Finished
  <2>. QED  BY <2>1
<1>2. /\ Zipped(z, k)
      /\ \A x \in 1 .. k + 1 : x > 1 => z[2 * x - 1] = Answer(x - 1)
      /\ \A x \in 1 .. k : x > 1 => z[2 * x] = Image(x - 1)
      /\ z[1] = SystemPrompt /\ z[2] = Instruction(<<0>>)
  <2>1. /\ Zipped(z, k - 0)
        /\ \A x \in 1 .. (k - 0) + 1 : x + 0 > 1 => z[2 * x - 1] = Answer(x + 0 - 1)
        /\ \A x \in 1 .. k - 0 : x + 0 > 1 => z[2 * x] = Image(x + 0 - 1)
        /\ z[1] = SystemPrompt /\ z[2] = Instruction(<<0>>)
    <3>1. 0 \in 0 .. k
      BY <1>1
    <3>. QED  BY <3>1, SliceZipped
  <2>2. k - 0 = k /\ \A x \in Int : x + 0 = x
    BY <1>1
  <2>. QED  BY <2>1, <2>2
<1>3. /\ \A x \in 1 .. a : s[2 * x - 1] = Answer(x)
      /\ \A x \in 1 .. a : s[2 * x] = Image(x)
  BY ToldFacts
<1>. HIDE DEF z
<1>4. /\ \A y \in 1 .. k + 1 : t[2 * y - 1] = z[2 * y - 1]
      /\ \A y \in 1 .. k : t[2 * y] = IF y > k - I THEN z[2 * y] ELSE Bare(z[2 * y])
  <2>. HIDE DEF I
  <2>. QED  BY <1>1, InStripped
<1>5. P \in SUBSET Int /\ IsFiniteSet(P) /\ P \in SUBSET (1 .. Len(s))
  <2>1. P \in SUBSET (1 .. 2 * a) /\ P \in SUBSET Int /\ IsFiniteSet(P)
    BY <1>1, RowPlacesIn
  <2>2. \A i \in 1 .. 2 * a : i \in 1 .. Len(s)
    BY <1>1
  <2>. QED  BY <2>1, <2>2
<1>6. LimitImages(z, I) = At(t, Q)
  BY <1>1, <1>2, LimitZipped
<1>. HIDE DEF t
<1>7. \A p : p \in P <=> \/ \E x \in 1 .. k : p = 2 * x - 1
                         \/ \E x \in 1 .. k - 1 : x >= k - I /\ p = 2 * x
  <2>1. \A p : p \in P <=> \/ \E x \in 1 .. k : x >= k - c.max_texts /\ p = 2 * x - 1
                           \/ \E x \in 1 .. k - 1 : x >= k - I /\ p = 2 * x
    BY <1>1, InRowPlaces
  <2>2. \A x \in 1 .. k : x >= k - c.max_texts
    BY <1>1
  <2>. QED  BY <2>1, <2>2
<1>8. \A i : i \in Q <=> \/ \E y \in 1 .. k + 1 : i = 2 * y - 1
                         \/ \E y \in 1 .. k : (y > k - I \/ y = 1) /\ i = 2 * y
  <2>1. z[2 * 1].text # NoText
    BY <1>2 DEF Instruction, NoText
  <2>2. ASSUME NEW y \in 1 .. k, y # 1 PROVE z[2 * y].text = NoText
    <3>1. y > 1
      BY <2>2
    <3>2. z[2 * y] = Image(y - 1)
      BY <1>2, <3>1
    <3>. QED  BY <3>2 DEF Image
  <2>. HIDE DEF Q, I
  <2>3. \A y \in 1 .. k : z[2 * y].text # NoText <=> y = 1
    BY <1>1, <2>1, <2>2
  <2>. SUFFICES ASSUME NEW i
                PROVE  i \in Q <=> \/ \E y \in 1 .. k + 1 : i = 2 * y - 1
                                  \/ \E y \in 1 .. k : (y > k - I \/ y = 1) /\ i = 2 * y
    OBVIOUS
  <2>4. i \in Q <=> \/ \E y \in 1 .. k + 1 : i = 2 * y - 1
                    \/ \E y \in 1 .. k : (y > k - I \/ z[2 * y].text # NoText) /\ i = 2 * y
    <3>1. i \in Kept(z, k, I) <=>
            \/ \E y \in 1 .. k + 1 : i = 2 * y - 1
            \/ \E y \in 1 .. k : (y > k - I \/ z[2 * y].text # NoText) /\ i = 2 * y
      BY DEF Kept
    <3>. QED  BY <3>1 DEF Q
  <2>. QED  BY <2>3, <2>4
<1>. DEFINE v == Instruction(Base(c, k - 1))
<1>9. t[1] = SystemPrompt /\ t[2] = v
  <2>1. 1 \in 1 .. k + 1 /\ 1 \in 1 .. k /\ 2 * 1 - 1 = 1 /\ 2 * 1 = 2
    BY <1>1
  <2>2. t[1] = SystemPrompt
    BY <1>2, <1>4, <2>1
  <2>3. t[2] = IF 1 > k - I THEN Instruction(<<0>>) ELSE Bare(Instruction(<<0>>))
    BY <1>2, <1>4, <2>1
  <2>4. 1 > k - I <=> k - 1 < I
    BY <1>1
  <2>5. Bare(Instruction(<<0>>)) = Instruction(<<>>)
    BY DEF Bare, Instruction
  <2>. QED  BY <2>2, <2>3, <2>4, <2>5 DEF Base
<1>. HIDE DEF P, Q, I
<1>10. h \in Seq(Talk) /\ Len(h) = 2 /\ h[1] = SystemPrompt /\ h[2] = v
  BY TalkTypes DEF Base
<1>. HIDE DEF h, v
<1>11. /\ Len(u) = 2 + Len(s)
       /\ \A i \in 1 .. 2 + Len(s) : u[i] = IF i <= 2 THEN h[i] ELSE s[i - 2]
  <2>1. /\ Len(u) = Len(h) + Len(s)
        /\ \A i \in 1 .. Len(h) + Len(s) : u[i] = IF i <= Len(h) THEN h[i] ELSE s[i - Len(h)]
    BY <1>1, <1>10, ConcatProperties
  <2>. QED  BY <1>10, <2>1
<1>12. u[1] = t[1] /\ u[2] = t[2]
  <2>1. 1 \in 1 .. 2 + Len(s) /\ 2 \in 1 .. 2 + Len(s)
    BY <1>1
  <2>. QED  BY <1>9, <1>10, <1>11, <2>1
<1>13. ASSUME NEW p \in P PROVE p + 2 \in Q /\ u[p + 2] = t[p + 2]
  <2>0. u[p + 2] = s[p]
    <3>1. p + 2 \in 1 .. 2 + Len(s) /\ ~(p + 2 <= 2) /\ (p + 2) - 2 = p
      BY <1>1, <1>5
    <3>. QED  BY <1>11, <3>1
  <2>1. CASE \E x \in 1 .. k : p = 2 * x - 1
    <3>1. PICK x \in 1 .. k : p = 2 * x - 1
      BY <2>1
    <3>2. PICK y \in 1 .. k + 1 : y = x + 1 /\ y > 1
      BY <1>1
    <3>3. p + 2 = 2 * y - 1 /\ x = y - 1 /\ x \in 1 .. a
      BY <1>1, <3>1, <3>2
    <3>4. t[2 * y - 1] = Answer(x)
      BY <1>2, <1>4, <3>2, <3>3
    <3>. QED  BY <1>3, <1>8, <2>0, <3>1, <3>2, <3>3, <3>4
  <2>2. CASE \E x \in 1 .. k - 1 : x >= k - I /\ p = 2 * x
    <3>1. PICK x \in 1 .. k - 1 : x >= k - I /\ p = 2 * x
      BY <2>2
    <3>2. PICK y \in 1 .. k : y = x + 1 /\ y > 1 /\ y > k - I
      BY <1>1, <3>1
    <3>3. p + 2 = 2 * y /\ x = y - 1 /\ x \in 1 .. a
      BY <1>1, <3>1, <3>2
    <3>4. t[2 * y] = Image(x)
      BY <1>2, <1>4, <3>2, <3>3
    <3>. QED  BY <1>3, <1>8, <2>0, <3>1, <3>2, <3>3, <3>4
  <2>. QED  BY <1>7, <2>1, <2>2
<1>14. ASSUME NEW i \in Q, i # 1, i # 2 PROVE i \in Int /\ i - 2 \in P
  <2>1. CASE \E y \in 1 .. k + 1 : i = 2 * y - 1
    <3>1. PICK y \in 1 .. k + 1 : i = 2 * y - 1
      BY <2>1
    <3>2. PICK x \in 1 .. k : x = y - 1
      BY <1>1, <1>14, <3>1
    <3>3. i - 2 = 2 * x - 1 /\ i \in Int
      BY <3>1, <3>2
    <3>. QED  BY <1>7, <3>2, <3>3
  <2>2. CASE \E y \in 1 .. k : (y > k - I \/ y = 1) /\ i = 2 * y
    <3>1. PICK y \in 1 .. k : (y > k - I \/ y = 1) /\ i = 2 * y
      BY <2>2
    <3>2. PICK x \in 1 .. k - 1 : x = y - 1 /\ x >= k - I
      BY <1>1, <1>14, <3>1
    <3>3. i - 2 = 2 * x /\ i \in Int
      BY <3>1, <3>2
    <3>. QED  BY <1>7, <3>2, <3>3
  <2>. QED  BY <1>8, <2>1, <2>2
<1>15. 1 \in Q /\ 2 \in Q
  <2>1. 1 \in 1 .. k + 1 /\ 1 \in 1 .. k /\ 2 * 1 - 1 = 1 /\ 2 * 1 = 2
    BY <1>1
  <2>. QED  BY <1>8, <2>1
<1>16. Q = R
  <2>1. \A i \in Q : i \in R
    <3>. SUFFICES ASSUME NEW i \in Q PROVE i \in R
      OBVIOUS
    <3>1. CASE i = 1 \/ i = 2
      BY <3>1
    <3>2. CASE i # 1 /\ i # 2
      BY <1>5, <1>14, <3>2, InShift
    <3>. QED  BY <3>1, <3>2
  <2>2. \A i \in R : i \in Q
    <3>1. \A i \in 1 .. 2 : i \in Q
      BY <1>15
    <3>. QED  BY <1>13, <3>1 DEF Shift
  <2>. QED  BY <2>1, <2>2
<1>17. IsFiniteSet(R) /\ At(u, R) = h \o At(s, P)
  <2>1. /\ IsFiniteSet((1 .. Len(h)) \cup Shift(P, Len(h)))
        /\ At(h \o s, (1 .. Len(h)) \cup Shift(P, Len(h))) = h \o At(s, P)
    BY <1>1, <1>5, <1>10, AtBehindHead
  <2>. QED  BY <1>10, <2>1
<1>18. R \in SUBSET Int /\ \A i \in R : u[i] = t[i]
  <2>. HIDE DEF u
  <2>1. \A i \in Shift(P, 2) : i \in Int /\ u[i] = t[i]
    BY <1>5, <1>13 DEF Shift
  <2>2. \A i \in 1 .. 2 : i \in Int /\ u[i] = t[i]
    <3>1. \A i \in 1 .. 2 : i \in Int /\ (i = 1 \/ i = 2)
      OBVIOUS
    <3>. QED  BY <1>12, <3>1
  <2>. QED  BY <2>1, <2>2
<1>. HIDE DEF R, u
<1>19. At(u, R) = At(t, R)
  BY <1>17, <1>18, AtSame
<1>20. Slice(Told(s), 0, 2 * k + 1) = z
  <2>1. 2 * 0 = 0
    OBVIOUS
  <2>. QED  BY <2>1 DEF z
<1>. QED  BY <1>6, <1>16, <1>17, <1>19, <1>20 DEF P, h, v, I

\* The row that ends with the k-th answer is the prompt the answer was given to, and it.
LEMMA RowIsPrompt ==
  ASSUME NEW c \in Config, c.max_images <= c.max_texts,
         NEW s, NEW a, NEW f, Finished(s, a, f), NEW k \in 1 .. a
  PROVE  RowUpTo(Told(s), 2 * k + 1, c.max_images, c.max_texts)
           = Append(PromptOf(c, s, k - 1), Answer(k))
<1>. DEFINE M == c.max_texts
            I == c.max_images
            D == Told(s)
            row0 == RowUpTo(D, 2 * k + 1, I, M)
            P == RowPlaces(c, k)
            h == <<SystemPrompt, Instruction(Base(c, k - 1))>>
<1>1. /\ M \in Nat /\ I \in Nat /\ I <= M /\ k \in Nat \ {0} /\ a \in Nat /\ f \in Nat
      /\ s \in Seq(Message) /\ Len(s) = a + f
      /\ D[1] = SystemPrompt
  BY ToldFacts DEF Config
<1>2. Append(PromptOf(c, s, k - 1), Answer(k)) = h \o At(s, P)
  BY PromptAnswered
<1>3. CASE k <= M
  <2>1. PreStart(2 * k + 1, M) = 0
    BY <1>1, <1>3 DEF PreStart, AtLeast
  <2>2. row0 = <<>> \o LimitImages(Slice(D, 0, 2 * k + 1), I)
    <3>1. ~(0 > 0)
      OBVIOUS
    <3>. QED  BY <2>1, <3>1 DEF RowUpTo
  <2>3. LimitImages(Slice(D, 0, 2 * k + 1), I) = h \o At(s, P)
    BY <1>3, RowWhole
  <2>4. h \o At(s, P) \in Seq(Talk)
    <3>1. h \in Seq(Talk)
      BY TalkTypes DEF Base
    <3>2. P \in SUBSET (1 .. 2 * a) /\ IsFiniteSet(P) /\ P \in SUBSET Int
      BY <1>1, RowPlacesIn
    <3>3. \A i \in P : s[i] \in Talk
      <4>1. \A i \in 1 .. 2 * a : i \in 1 .. Len(s)
        BY <1>1 DEF Finished
      <4>2. \A i \in 1 .. Len(s) : s[i] \in Talk
        BY <1>1, TalkTypes
      <4>. QED  BY <3>2, <4>1, <4>2
    <3>4. At(s, P) \in Seq(Talk)
      <4>. HIDE DEF P
      <4>. QED  BY <3>2, <3>3, AtTalk
    <3>. HIDE DEF h, P
    <3>. QED  BY <3>1, <3>4, ConcatProperties
  <2>5. <<>> \o (h \o At(s, P)) = h \o At(s, P)
    <3>. DEFINE w == h \o At(s, P)
    <3>1. w \in Seq(Talk)
      BY <2>4
    <3>. HIDE DEF w
    <3>2. <<>> \o w = w
      BY <3>1, ConcatEmptySeq
    <3>. QED  BY <3>2 DEF w
  <2>. QED  BY <1>2, <2>2, <2>3, <2>5
<1>4. CASE k > M
  <2>1. PreStart(2 * k + 1, M) = 2 * (k - M) /\ 2 * (k - M) > 0
    BY <1>1, <1>4 DEF PreStart, AtLeast
  <2>2. row0 = <<D[1], Instruction(<<>>)>>
                 \o LimitImages(Slice(D, 2 * (k - M), 2 * k + 1), I)
    BY <2>1 DEF RowUpTo
  <2>3. LimitImages(Slice(D, 2 * (k - M), 2 * k + 1), I) = At(s, P)
    BY <1>4, RowCut
  <2>4. Base(c, k - 1) = <<>>
    <3>1. ~(k - 1 < c.max_images)
      BY <1>1, <1>4
    <3>. QED  BY <3>1 DEF Base
  <2>. QED  BY <1>1, <1>2, <2>2, <2>3, <2>4
<1>. QED  BY <1>1, <1>3, <1>4

\* The ends of the rows behind the first `skip' answers.
LEMMA EndsOfRows ==
  ASSUME NEW a \in Nat, NEW f \in Nat, f = a \/ f = a + 1, NEW skip \in 0 .. a, NEW usable
  PROVE  RowEnds(a + f + 2, 2 * skip + 1) = {2 * k + 1 : k \in skip + 1 .. a}
<1>. DEFINE n == a + f + 2
            u == 2 * skip + 1
<1>1. ASSUME NEW e \in u + 2 .. n - 1, (e - u) % 2 = 0
      PROVE  \E k \in skip + 1 .. a : e = 2 * k + 1
  <2>1. PICK q \in Int : e - u = 2 * q
    <3>1. e - u \in Int
      OBVIOUS
    <3>2. e - u = 2 * ((e - u) \div 2) /\ (e - u) \div 2 \in Int
      BY <1>1, <3>1
    <3>. QED  BY <3>2
  <2>2. q + skip \in skip + 1 .. a /\ e = 2 * (q + skip) + 1
    BY <2>1
  <2>. QED  BY <2>2
<1>2. ASSUME NEW k \in skip + 1 .. a
      PROVE  2 * k + 1 \in u + 2 .. n - 1 /\ ((2 * k + 1) - u) % 2 = 0
  <2>1. 2 * k + 1 \in u + 2 .. n - 1
    OBVIOUS
  <2>2. (2 * k + 1) - u = 2 * (k - skip) /\ k - skip \in Int
    OBVIOUS
  <2>3. \A q \in Int : (2 * q) % 2 = 0
    OBVIOUS
  <2>. QED  BY <2>1, <2>2, <2>3
<1>3. \A e : e \in RowEnds(n, u) <=> e \in u + 2 .. n - 1 /\ (e - u) % 2 = 0
  BY DEF RowEnds
<1>. HIDE DEF n, u
<1>4. \A e \in RowEnds(n, u) : \E k \in skip + 1 .. a : e = 2 * k + 1
  BY <1>1, <1>3
<1>5. \A k \in skip + 1 .. a : 2 * k + 1 \in RowEnds(n, u)
  BY <1>2, <1>3
<1>. QED  BY <1>4, <1>5 DEF n, u

LEMMA RowsArePrompts ==
  ASSUME NEW c \in Config, c.max_images <= c.max_texts,
         NEW s, NEW a, NEW f, Finished(s, a, f)
  PROVE  Rows(Told(s), c.max_images, c.max_texts)
           = {Append(PromptOf(c, s, k - 1), Answer(k)) : k \in 1 .. a}
<1>. DEFINE R(e) == RowUpTo(Told(s), e, c.max_images, c.max_texts)
            S(k) == Append(PromptOf(c, s, k - 1), Answer(k))
<1>1. a \in Nat /\ f \in Nat /\ Len(Told(s)) = a + f + 2
  BY ToldFacts
<1>2. RowEnds(a + f + 2, 1) = {2 * k + 1 : k \in 1 .. a}
  <2>1. 0 \in 0 .. a /\ 2 * 0 + 1 = 1 /\ 0 + 1 = 1
    BY <1>1
  <2>2. f = a \/ f = a + 1
    BY DEF Finished
  <2>3. RowEnds(a + f + 2, 2 * 0 + 1) = {2 * k + 1 : k \in 0 + 1 .. a}
    BY <1>1, <2>1, <2>2, EndsOfRows
  <2>. QED  BY <2>1, <2>3
<1>3. \A k \in 1 .. a : R(2 * k + 1) = S(k)
  BY RowIsPrompt
<1>4. Rows(Told(s), c.max_images, c.max_texts) = {R(e) : e \in {2 * k + 1 : k \in 1 .. a}}
  BY <1>1, <1>2 DEF Rows
<1>. HIDE DEF R, S
<1>5. {R(e) : e \in {2 * k + 1 : k \in 1 .. a}} = {S(k) : k \in 1 .. a}
  BY <1>3
<1>. QED  BY <1>4, <1>5 DEF S

(***************************************************************************)
(* The files: the conversation is stored when it is over, and not changed  *)
(* afterwards.  Theorems about the rows.                                   *)
(***************************************************************************)
Ended == {"split_episode", "insert", "returned", "killed"}

\* The files of the whole conversation are written when it is over.
FinalInv ==
  /\ disk.final # <<>> \/ disk.chunks # <<>> =>
       pc \in Ended /\ Finished(full, Answered, Frames)
  /\ disk.final # <<>> => disk.final = Told(full)
  /\ disk.chunks # <<>> =>
       \E n \in 0 .. Len(TheChunks) : disk.chunks = SubSeq(TheChunks, 1, n)

LEMMA InitFinal == Init => FinalInv
<1>. SUFFICES ASSUME Init PROVE FinalInv
  OBVIOUS
<1>1. disk.final = <<>> /\ disk.chunks = <<>>
  BY DEF Init
<1>. QED  BY <1>1 DEF FinalInv

LEMMA StepFinal == DialogueInv /\ FinalInv /\ [Next]_vars => FinalInv'
<1>. SUFFICES ASSUME DialogueInv, FinalInv, [Next]_vars PROVE FinalInv'
  OBVIOUS
<1>1. /\ Dialogue /\ Progress
      /\ disk = [frames |-> disk.frames, partials |-> disk.partials, reward |-> disk.reward,
                 final |-> disk.final, chunks |-> disk.chunks]
  BY DEF DialogueInv, Files
<1>2. pc \in Late => Finished(full, Answered, Frames)
  <2>. SUFFICES ASSUME pc \in Late PROVE Finished(full, Answered, Frames)
    OBVIOUS
  <2>1. Alternates(full, Answered, Frames) /\ Answered \in Nat /\ Frames \in Nat
    BY <1>1 DEF Dialogue, Alternates
  <2>2. Frames = Answered \/ Frames = Answered + 1
    BY <1>1, <2>1 DEF Progress
  <2>. QED  BY <2>1, <2>2 DEF Finished
<1>3. CASE pc \notin Ended /\ UNCHANGED <<disk.final, disk.chunks>>
  BY <1>3 DEF FinalInv
<1>4. ASSUME UNCHANGED <<cfg, full, served>>
      PROVE  /\ Finished(full, Answered, Frames)' <=> Finished(full, Answered, Frames)
             /\ Told(full)' = Told(full) /\ TheChunks' = TheChunks
  <2>1. Answered' = Answered /\ Frames' = Frames
    BY <1>4 DEF Answered, Frames
  <2>. QED  BY <1>4, <2>1 DEF TheChunks, Conversation
<1>5. CASE pc \in Ended /\ pc' \in Ended /\ UNCHANGED <<cfg, full, served, disk.final, disk.chunks>>
  BY <1>4, <1>5 DEF FinalInv
<1>6. CASE SaveEpisode
  <2>1. /\ pc = "save_episode" /\ pc' = "split_episode" /\ UNCHANGED <<cfg, full, served>>
        /\ disk' = [disk EXCEPT !.final = Conversation]
    BY <1>6 DEF SaveEpisode
  <2>2. disk'.final = Told(full) /\ disk'.chunks = disk.chunks
    BY <1>1, <2>1 DEF Told, Conversation
  <2>3. disk.chunks = <<>> /\ pc' \in Ended /\ Finished(full, Answered, Frames)
    BY <1>2, <2>1 DEF FinalInv, Ended, Late
  <2>. QED  BY <1>4, <2>1, <2>2, <2>3 DEF FinalInv
<1>7. CASE SplitEpisode
  <2>1. PICK n \in 0 .. Len(TheChunks) : disk' = [disk EXCEPT !.chunks = SubSeq(TheChunks, 1, n)]
    BY <1>7 DEF SplitEpisode
  <2>2. /\ pc = "split_episode" /\ pc' \in Ended /\ UNCHANGED <<cfg, full, served>>
    BY <1>7 DEF SplitEpisode, Ended
  <2>3. disk'.final = disk.final /\ disk'.chunks = SubSeq(TheChunks, 1, n)
    BY <1>1, <2>1
  <2>4. Finished(full, Answered, Frames)
    BY <1>2, <2>2 DEF Late
  <2>. QED  BY <1>4, <2>2, <2>3, <2>4 DEF FinalInv
<1>8. CASE ConfigSaved \/ EnvReady \/ FirstFrame \/ LastStep \/ Ask \/ Answers \/ NoAnswer
           \/ Stepped \/ SaveFrame \/ SavePartial \/ SaveReward
  <2>1. pc \notin Ended
    BY <1>8 DEF ConfigSaved, EnvReady, FirstFrame, LastStep, Ask, Answers, NoAnswer, Stepped,
                SaveFrame, SavePartial, SaveReward, Ended
  <2>2. UNCHANGED <<disk.final, disk.chunks>>
    BY <1>1, <1>8 DEF ConfigSaved, EnvReady, FirstFrame, LastStep, Ask, Answers, NoAnswer, Stepped,
                SaveFrame, SavePartial, SaveReward
  <2>. QED  BY <1>3, <2>1, <2>2
<1>9. CASE Insert \/ Raises \/ Killed
  <2>1. pc' \in Ended /\ UNCHANGED <<cfg, full, served, disk>>
    BY <1>9 DEF Insert, Raises, Killed, Ended
  <2>2. CASE pc \in Ended
    BY <1>5, <2>1, <2>2
  <2>3. CASE pc \notin Ended
    BY <1>3, <2>1, <2>3
  <2>. QED  BY <2>2, <2>3
<1>10. CASE UNCHANGED vars
  <2>1. UNCHANGED <<pc, cfg, full, served, disk>>
    BY <1>10 DEF vars
  <2>. QED  BY <1>4, <2>1 DEF FinalInv
<1>. QED  BY <1>6, <1>7, <1>8, <1>9, <1>10 DEF Next

LEMMA AlwaysFinal == Spec => [](DialogueInv /\ FinalInv)
<1>1. Init => FinalInv
  BY InitFinal
<1>2. DialogueInv /\ FinalInv /\ [Next]_vars => FinalInv'
  BY StepFinal
<1>. QED  BY <1>1, <1>2, AlwaysDialogue, PTL DEF Spec

\* What was served, of a stored conversation.
LEMMA StoredServed ==
  ASSUME DialogueInv, FinalInv, disk.final # <<>>
  PROVE  /\ cfg \in Configs /\ cfg \in Config
         /\ Finished(full, Answered, Frames) /\ disk.final = Told(full)
         /\ \A k \in 1 .. Answered : served[k] = PromptOf(cfg, full, k - 1)
BY DEF DialogueInv, Dialogue, FinalInv

\* The trainer's rows are the prompts the model was given, followed by its answers, if the
\* limits of the window keep at least as many texts as images.
THEOREM PromptsTrainedOn ==
  ASSUME \A c \in Configs : c.max_images <= c.max_texts
  PROVE  Spec => []TrainedOnPrompt
<1>1. DialogueInv /\ FinalInv => TrainedOnPrompt
  <2>. SUFFICES ASSUME DialogueInv, FinalInv, disk.final # <<>>
                PROVE  Rows(disk.final, cfg.max_images, cfg.max_texts) =
                         {Append(served[k], Answer(k)) : k \in 1 .. Answered}
    BY DEF TrainedOnPrompt
  <2>1. /\ cfg \in Config /\ cfg.max_images <= cfg.max_texts
        /\ Finished(full, Answered, Frames) /\ disk.final = Told(full)
        /\ \A k \in 1 .. Answered : served[k] = PromptOf(cfg, full, k - 1)
    BY StoredServed
  <2>2. Rows(disk.final, cfg.max_images, cfg.max_texts)
          = {Append(PromptOf(cfg, full, k - 1), Answer(k)) : k \in 1 .. Answered}
    BY <2>1, RowsArePrompts
  <2>. QED  BY <2>1, <2>2
<1>. QED  BY <1>1, AlwaysFinal, PTL

Evens(a) == {2 * k : k \in 1 .. a}

LEMMA EvensListed ==
  ASSUME NEW a \in Nat
  PROVE  /\ Evens(a) \in SUBSET Int /\ Cardinality(Evens(a)) = a
         /\ \A n \in 1 .. a : Nth(Evens(a), n) = 2 * n
<1>. DEFINE e == [n \in 1 .. a |-> 2 * n]
<1>1. Evens(a) \in SUBSET Int
  BY DEF Evens
<1>2. \A n \in 1 .. a : e[n] = 2 * n /\ e[n] \in Evens(a)
  BY DEF Evens
<1>3. e \in [1 .. a -> Evens(a)]
  BY <1>2
<1>4. \A m, n \in 1 .. a : m < n => e[m] < e[n]
  BY <1>2
<1>5. \A i \in Evens(a) : \E m \in 1 .. a : e[m] = i
  BY <1>2 DEF Evens
<1>. HIDE DEF e
<1>6. Lists(e, a, Evens(a))
  BY <1>3, <1>4, <1>5 DEF Lists
<1>. QED  BY <1>1, <1>2, <1>6, ListNth

LEMMA AnswersTold ==
  ASSUME NEW s, NEW a, NEW f, Finished(s, a, f)
  PROVE  AnswerPositions(Told(s)) = Evens(a)
<1>. DEFINE D == Told(s)
<1>1. /\ a \in Nat /\ f \in Nat /\ Len(D) = a + f + 2
      /\ f = a \/ f = a + 1
      /\ D[1] = SystemPrompt /\ D[2] = Instruction(<<0>>)
      /\ \A k \in 1 .. a : D[2 * k + 1] = Answer(k)
      /\ \A n \in 1 .. a : D[2 * n + 2] = Image(n)
      /\ f = a + 1 => D[2 * a + 3] = Image(a + 1)
  BY ToldFacts DEF Finished
<1>2. /\ ~IsAnswer(SystemPrompt) /\ ~IsAnswer(Instruction(<<0>>))
      /\ \A n : IsAnswer(Answer(n)) /\ ~IsAnswer(Image(n))
  BY DEF IsAnswer, SystemPrompt, Instruction, Answer, Image
<1>. HIDE DEF D
<1>3. ASSUME NEW k \in 1 .. a PROVE 2 * k \in 0 .. Len(D) - 1 /\ IsAnswer(D[2 * k + 1])
  <2>1. D[2 * k + 1] = Answer(k)
    BY <1>1
  <2>2. 2 * k \in 0 .. Len(D) - 1
    BY <1>1
  <2>. QED  BY <1>2, <2>1, <2>2
<1>4. ASSUME NEW i \in 0 .. Len(D) - 1, IsAnswer(D[i + 1])
      PROVE  \E k \in 1 .. a : i = 2 * k
  <2>1. \/ i = 0
        \/ i = 1
        \/ \E k \in 1 .. a : i = 2 * k
        \/ \E n \in 1 .. a : i = 2 * n + 1
        \/ f = a + 1 /\ i = 2 * a + 2
    <3>0. i \in Nat /\ i <= a + f + 1
      BY <1>1
    <3>1. PICK q \in Nat : i = 2 * q \/ i = 2 * q + 1
      <4>1. i = 2 * (i \div 2) + (i % 2) /\ i % 2 \in 0 .. 1 /\ i \div 2 \in Nat
        BY <3>0
      <4>. QED  BY <4>1
    <3>2. q = 0 \/ q \in 1 .. a \/ (f = a + 1 /\ i = 2 * a + 2)
      BY <1>1, <3>0, <3>1
    <3>. QED  BY <3>1, <3>2
  <2>2. CASE i = 0
    BY <1>1, <1>2, <1>4, <2>2
  <2>3. CASE i = 1
    <3>1. i + 1 = 2
      BY <2>3
    <3>. QED  BY <1>1, <1>2, <1>4, <3>1
  <2>4. CASE \E n \in 1 .. a : i = 2 * n + 1
    <3>1. PICK n \in 1 .. a : i = 2 * n + 1
      BY <2>4
    <3>2. i + 1 = 2 * n + 2
      BY <3>1
    <3>. QED  BY <1>1, <1>2, <1>4, <3>2
  <2>5. CASE f = a + 1 /\ i = 2 * a + 2
    <3>1. i + 1 = 2 * a + 3
      BY <1>1, <2>5
    <3>. QED  BY <1>1, <1>2, <1>4, <2>5, <3>1
  <2>. QED  BY <2>1, <2>2, <2>3, <2>4, <2>5
<1>5. \A i : i \in AnswerPositions(D) <=> i \in 0 .. Len(D) - 1 /\ IsAnswer(D[i + 1])
  BY DEF AnswerPositions
<1>6. \A i : i \in Evens(a) <=> \E k \in 1 .. a : i = 2 * k
  BY DEF Evens
<1>7. \A i \in AnswerPositions(D) : i \in Evens(a)
  BY <1>4, <1>5, <1>6
<1>8. \A i \in Evens(a) : i \in AnswerPositions(D)
  BY <1>3, <1>5, <1>6
<1>. QED  BY <1>7, <1>8 DEF D

\* The last answer of a row, and its number among the answers.
LEMMA LastOfRow ==
  ASSUME NEW a \in Nat, NEW k \in 1 .. a, NEW M \in Nat
  PROVE  LET LastIn == {i \in Evens(a) : PreStart(2 * k + 1, M) <= i /\ i < 2 * k + 1}
         IN  /\ LastIn # {}
             /\ (CHOOSE i \in LastIn : \A j \in LastIn : j <= i) = 2 * k
             /\ Cardinality({j \in Evens(a) : j < 2 * k}) = k - 1
<1>. DEFINE LastIn == {i \in Evens(a) : PreStart(2 * k + 1, M) <= i /\ i < 2 * k + 1}
<1>1. PreStart(2 * k + 1, M) <= 2 * k
  BY DEF PreStart, AtLeast
<1>2. 2 * k \in LastIn
  BY <1>1 DEF Evens
<1>3. \A j \in LastIn : j \in Int /\ j <= 2 * k
  BY DEF Evens
<1>4. (CHOOSE i \in LastIn : \A j \in LastIn : j <= i) = 2 * k
  <2>. HIDE DEF LastIn
  <2>. QED  BY <1>2, <1>3
<1>5. {j \in Evens(a) : j < 2 * k} = Evens(k - 1)
  BY DEF Evens
<1>6. Cardinality(Evens(k - 1)) = k - 1
  <2>1. k - 1 \in Nat
    OBVIOUS
  <2>. QED  BY <2>1, EvensListed
<1>. QED  BY <1>2, <1>4, <1>5, <1>6

\* The rows of an episode whose first answers, and those that are not usable, are left out.
RowsOfUsable(c, s, a, skip, usable) ==
  {[row |-> Append(PromptOf(c, s, k - 1), Answer(k)), logp |-> k - 1]
     : k \in {j \in skip + 1 .. a : j - 1 \in usable}}

LEMMA LogProbRows ==
  ASSUME NEW c \in Config, c.max_images <= c.max_texts,
         NEW s, NEW a, NEW f, Finished(s, a, f), NEW skip \in 0 .. a, NEW usable
  PROVE  RowsWithLogProbs(Told(s), c.max_images, c.max_texts, skip, usable)
           = RowsOfUsable(c, s, a, skip, usable)
<1>. DEFINE M == c.max_texts
            LastIn(e) == {i \in Evens(a) : PreStart(e, M) <= i /\ i < e}
            Index(i) == Cardinality({j \in Evens(a) : j < i})
            start == IF skip = 0 THEN 1 ELSE Nth(Evens(a), skip) + 1
            Logp(e) == Index(CHOOSE i \in LastIn(e) : \A j \in LastIn(e) : j <= i)
            Row(e) == [row |-> RowUpTo(Told(s), e, c.max_images, M), logp |-> Logp(e)]
            Usable(e) == LastIn(e) # {} /\ Logp(e) \in usable
            K == {j \in skip + 1 .. a : j - 1 \in usable}
            Want(k) == [row |-> Append(PromptOf(c, s, k - 1), Answer(k)), logp |-> k - 1]
            E == RowEnds(Len(Told(s)), start)
<1>1. /\ a \in Nat /\ f \in Nat /\ M \in Nat /\ Len(Told(s)) = a + f + 2 /\ skip \in Nat
      /\ f = a \/ f = a + 1
  BY ToldFacts DEF Finished, Config
<1>2. AnswerPositions(Told(s)) = Evens(a) /\ Cardinality(Evens(a)) = a
  BY <1>1, AnswersTold, EvensListed
<1>3. RowsWithLogProbs(Told(s), c.max_images, M, skip, usable)
        = IF skip > 0 /\ a <= skip THEN {} ELSE {Row(e) : e \in {x \in E : Usable(x)}}
  BY <1>2 DEF RowsWithLogProbs
<1>4. start = 2 * skip + 1
  <2>1. CASE skip = 0
    BY <2>1
  <2>2. CASE skip # 0
    <3>1. skip \in 1 .. a
      BY <1>1, <2>2
    <3>2. Nth(Evens(a), skip) = 2 * skip
      BY <1>1, <3>1, EvensListed
    <3>. QED  BY <2>2, <3>2
  <2>. QED  BY <2>1, <2>2
<1>5. E = {2 * k + 1 : k \in skip + 1 .. a}
  <2>. HIDE DEF start
  <2>. QED  BY <1>1, <1>4, EndsOfRows
<1>6. ASSUME NEW k \in skip + 1 .. a
      PROVE  (Usable(2 * k + 1) <=> k \in K) /\ Row(2 * k + 1) = Want(k)
  <2>0. k \in 1 .. a
    BY <1>1
  <2>1. /\ LastIn(2 * k + 1) # {}
        /\ (CHOOSE i \in LastIn(2 * k + 1) : \A j \in LastIn(2 * k + 1) : j <= i) = 2 * k
        /\ Index(2 * k) = k - 1
    BY <1>1, <2>0, LastOfRow
  <2>2. RowUpTo(Told(s), 2 * k + 1, c.max_images, M) = Append(PromptOf(c, s, k - 1), Answer(k))
    BY <2>0, RowIsPrompt
  <2>. QED  BY <2>1, <2>2
<1>. HIDE DEF Row, Usable, E, Want
<1>7. {Row(e) : e \in {x \in E : Usable(x)}} = {Want(k) : k \in K}
  BY <1>5, <1>6
<1>8. RowsOfUsable(c, s, a, skip, usable) = {Want(k) : k \in K}
  BY DEF RowsOfUsable, Want
<1>9. skip > 0 /\ a <= skip => K = {}
  BY <1>1
<1>. HIDE DEF K
<1>10. skip > 0 /\ a <= skip => {Want(k) : k \in K} = {}
  BY <1>9
<1>. QED  BY <1>3, <1>7, <1>8, <1>10

\* A row is trained with the log-probabilities of its own answer, also behind answers that
\* are left out.
THEOREM LogProbsMatched ==
  ASSUME \A c \in Configs : c.max_images <= c.max_texts
  PROVE  Spec => []LogProbsOfAnswer
<1>1. DialogueInv /\ FinalInv => LogProbsOfAnswer
  <2>. SUFFICES ASSUME DialogueInv, FinalInv, disk.final # <<>>, NEW skip \in 0 .. Answered,
                       NEW usable \in SUBSET (0 .. Answered - 1)
                PROVE  RowsWithLogProbs(disk.final, cfg.max_images, cfg.max_texts, skip, usable) =
                         {[row |-> Append(served[k], Answer(k)), logp |-> k - 1]
                            : k \in {j \in skip + 1 .. Answered : j - 1 \in usable}}
    BY DEF LogProbsOfAnswer
  <2>1. /\ cfg \in Config /\ cfg.max_images <= cfg.max_texts
        /\ Finished(full, Answered, Frames) /\ disk.final = Told(full)
        /\ \A k \in 1 .. Answered : served[k] = PromptOf(cfg, full, k - 1)
    BY StoredServed
  <2>2. RowsWithLogProbs(disk.final, cfg.max_images, cfg.max_texts, skip, usable)
          = RowsOfUsable(cfg, full, Answered, skip, usable)
    BY <2>1, LogProbRows
  <2>3. \A k \in skip + 1 .. Answered : k \in 1 .. Answered
    BY <2>1, ToldFacts
  <2>. QED  BY <2>1, <2>2, <2>3 DEF RowsOfUsable
<1>. QED  BY <1>1, AlwaysFinal, PTL

(***************************************************************************)
(* Chunks: the window of a chunk and the answers before it are the prompt of *)
(* the answer it ends with, within a limit of one text fewer.              *)
(***************************************************************************)
\* The limits with one text fewer.
Fewer(c) == [c EXCEPT !.max_texts = c.max_texts - 1]

\* What a chunk that ends with the k-th answer leaves in a prompt.
Young(m, k, texts) == ~(IsAnswer(m) /\ m.text <= k - texts)

LEMMA FewerFacts ==
  ASSUME NEW c \in Config, c.max_images <= c.max_texts
  PROVE  /\ Fewer(c) \in Config /\ Fewer(c).max_texts = c.max_texts - 1
         /\ Fewer(c).max_images = c.max_images /\ \A j : Base(Fewer(c), j) = Base(c, j)
<1>1. c.max_images \in Nat /\ c.max_images # 0 /\ c.max_texts \in Nat
  BY DEF Config
<1>2. c.max_texts - 1 \in Nat
  BY <1>1
<1>3. Fewer(c) \in Config /\ Fewer(c).max_texts = c.max_texts - 1
      /\ Fewer(c).max_images = c.max_images
  BY <1>2 DEF Fewer, Config
<1>. QED  BY <1>3 DEF Base

\* The positions of a prompt without the oldest text of a full window.
LEMMA YoungPlaces ==
  ASSUME NEW c \in Config, c.max_images <= c.max_texts,
         NEW s, NEW a, NEW f, Finished(s, a, f), NEW k \in 1 .. a
  PROVE  Latest(Fewer(c), k - 1, k - 1)
           = {p \in Latest(c, k - 1, k - 1) : Young(s[p], k, c.max_texts)}
<1>. DEFINE j == k - 1
            d == Fewer(c)
            M == c.max_texts
<1>1. /\ j \in Nat /\ k \in Int /\ M \in Nat /\ d.max_texts = M - 1
      /\ d.max_images = c.max_images
  BY FewerFacts DEF Config
<1>2. \A x \in 1 .. j : s[2 * x - 1] = Answer(x) /\ s[2 * x] = Image(x) /\ ImageAt(j, x) = 2 * x
  <2>1. \A x \in 1 .. j : x \in 1 .. a /\ x <= j
    <3>1. a \in Nat
      BY ToldFacts
    <3>. QED  BY <1>1, <3>1
  <2>. QED  BY <2>1, ToldFacts DEF ImageAt
<1>3. /\ \A x \in 1 .. j : Young(s[2 * x - 1], k, M) <=> x > k - M
      /\ \A x \in 1 .. j : Young(s[2 * x], k, M)
  <2>1. \A x \in 1 .. j : x \in Int /\ k - M \in Int
    BY <1>1
  <2>2. \A x \in 1 .. j : /\ Young(Answer(x), k, M) <=> x > k - M
                          /\ Young(Image(x), k, M)
    BY <2>1 DEF Young, Answer, Image, IsAnswer
  <2>. QED  BY <1>2, <2>2
<1>4. \A p : p \in Latest(c, j, j) <=> \/ \E x \in 1 .. j : x > j - M /\ p = 2 * x - 1
                                       \/ \E x \in 1 .. j : x > j - c.max_images /\ p = 2 * x
  <2>1. \A p : p \in LatestImages(c, j, j)
                 <=> \E x \in 1 .. j : x > j - c.max_images /\ p = 2 * x
    BY <1>2, InLatestImages
  <2>. QED  BY <2>1, InLatestTexts DEF Latest
<1>5. \A p : p \in Latest(d, j, j) <=> \/ \E x \in 1 .. j : x > k - M /\ p = 2 * x - 1
                                       \/ \E x \in 1 .. j : x > j - c.max_images /\ p = 2 * x
  <2>1. \A p : p \in LatestImages(d, j, j)
                 <=> \E x \in 1 .. j : x > j - c.max_images /\ p = 2 * x
    BY <1>1, <1>2, InLatestImages
  <2>2. \A p : p \in LatestTexts(d, j)
                 <=> \E x \in 1 .. j : x > k - M /\ p = 2 * x - 1
    <3>1. j - d.max_texts = k - M
      BY <1>1
    <3>. QED  BY <3>1, InLatestTexts
  <2>. QED  BY <2>1, <2>2 DEF Latest
<1>6. \A x \in 1 .. j : x > k - M => x > j - M
  BY <1>1
<1>7. ASSUME NEW p \in Latest(d, j, j) PROVE p \in Latest(c, j, j) /\ Young(s[p], k, M)
  <2>1. CASE \E x \in 1 .. j : x > k - M /\ p = 2 * x - 1
    BY <1>3, <1>4, <1>6, <2>1
  <2>2. CASE \E x \in 1 .. j : x > j - c.max_images /\ p = 2 * x
    BY <1>3, <1>4, <2>2
  <2>. QED  BY <1>5, <2>1, <2>2
<1>8. ASSUME NEW p \in Latest(c, j, j), Young(s[p], k, M) PROVE p \in Latest(d, j, j)
  <2>1. CASE \E x \in 1 .. j : x > j - M /\ p = 2 * x - 1
    <3>1. PICK x \in 1 .. j : p = 2 * x - 1
      BY <2>1
    <3>2. x > k - M
      BY <1>3, <1>8, <3>1
    <3>. QED  BY <1>5, <3>1, <3>2
  <2>2. CASE \E x \in 1 .. j : x > j - c.max_images /\ p = 2 * x
    BY <1>5, <2>2
  <2>. QED  BY <1>4, <2>1, <2>2
<1>. QED  BY <1>7, <1>8

\* A prompt without its oldest text is the prompt within the limit of one text fewer.
LEMMA PromptWithout ==
  ASSUME NEW c \in Config, c.max_images <= c.max_texts,
         NEW s, NEW a, NEW f, Finished(s, a, f), NEW k \in 1 .. a
  PROVE  LET g == PromptOf(c, s, k - 1)
         IN  At(g, {i \in DOMAIN g : Young(g[i], k, c.max_texts)}) = PromptOf(Fewer(c), s, k - 1)
<1>. DEFINE j == k - 1
            P == Latest(c, j, j)
            T == Latest(Fewer(c), j, j)
            h == <<SystemPrompt, Instruction(Base(c, j))>>
            u == h \o s
            R == (1 .. 2) \cup Shift(P, 2)
            S == (1 .. 2) \cup Shift(T, 2)
            g == PromptOf(c, s, j)
            Y(m) == Young(m, k, c.max_texts)
<1>1. /\ a \in Nat /\ f \in Nat /\ s \in Seq(Talk) /\ Len(s) = a + f /\ j \in Nat
      /\ f = a \/ f = a + 1
  BY ToldFacts DEF Finished
<1>2. P \in SUBSET (1 .. j + j) /\ T = {p \in P : Y(s[p])}
  <2>1. j <= j + 1
    BY <1>1
  <2>2. P \in SUBSET (1 .. j + j)
    BY <1>1, <2>1, LatestBounds
  <2>. QED  BY <2>2, YoungPlaces
<1>3. P \in SUBSET (1 .. Len(s)) /\ T \in SUBSET (1 .. Len(s))
  <2>1. \A i \in 1 .. j + j : i \in 1 .. Len(s)
    BY <1>1
  <2>. HIDE DEF P, T, Y
  <2>. QED  BY <1>2, <2>1
<1>4. h \in Seq(Talk) /\ Len(h) = 2 /\ h[1] = SystemPrompt /\ h[2] = Instruction(Base(c, j))
  BY TalkTypes DEF Base
<1>5. g = h \o At(s, P) /\ PromptOf(Fewer(c), s, j) = h \o At(s, T)
  BY FewerFacts DEF PromptOf
<1>. HIDE DEF h, P, T, g
<1>6. IsFiniteSet(R) /\ At(u, R) = g /\ At(u, S) = h \o At(s, T)
  <2>1. /\ IsFiniteSet((1 .. Len(h)) \cup Shift(P, Len(h)))
        /\ At(h \o s, (1 .. Len(h)) \cup Shift(P, Len(h))) = h \o At(s, P)
        /\ At(h \o s, (1 .. Len(h)) \cup Shift(T, Len(h))) = h \o At(s, T)
    BY <1>1, <1>3, <1>4, AtBehindHead
  <2>. QED  BY <1>4, <1>5, <2>1
<1>7. \A i \in 1 .. 2 + Len(s) : u[i] = IF i <= 2 THEN h[i] ELSE s[i - 2]
  <2>1. \A i \in 1 .. Len(h) + Len(s) : u[i] = IF i <= Len(h) THEN h[i] ELSE s[i - Len(h)]
    BY <1>1, <1>4, ConcatProperties
  <2>. QED  BY <1>4, <2>1
<1>8. /\ \A i \in 1 .. 2 : Y(u[i])
      /\ \A p \in P : u[p + 2] = s[p]
  <2>1. \A i \in 1 .. 2 : (i = 1 \/ i = 2) /\ i \in 1 .. 2 + Len(s) /\ i <= 2
    BY <1>1
  <2>2. Y(h[1]) /\ Y(h[2])
    BY <1>4 DEF Young, IsAnswer, SystemPrompt, Instruction
  <2>3. \A p \in 1 .. Len(s) : p + 2 \in 1 .. 2 + Len(s) /\ ~(p + 2 <= 2) /\ (p + 2) - 2 = p
    BY <1>1
  <2>4. \A i \in 1 .. 2 : Y(u[i])
    <3>. HIDE DEF Y, u
    <3>. QED  BY <1>7, <2>1, <2>2
  <2>5. \A p \in P : u[p + 2] = s[p]
    <3>. HIDE DEF u
    <3>. QED  BY <1>3, <1>7, <2>3
  <2>. QED  BY <2>4, <2>5
<1>9. P \in SUBSET Int /\ R \in SUBSET Int
  <2>1. P \in SUBSET Int
    BY <1>3
  <2>. QED  BY <2>1 DEF Shift
<1>. HIDE DEF u, Y
<1>10. S = {i \in R : Y(u[i])} /\ S \in SUBSET R
  <2>1. ASSUME NEW i \in S PROVE i \in R /\ Y(u[i])
    <3>1. CASE i \in 1 .. 2
      BY <1>8, <3>1
    <3>2. CASE i \in Shift(T, 2)
      <4>1. PICK p \in T : i = p + 2
        BY <3>2 DEF Shift
      <4>2. p \in P /\ Y(s[p]) /\ u[p + 2] = s[p]
        BY <1>2, <1>8
      <4>. QED  BY <4>1, <4>2 DEF Shift
    <3>. QED  BY <3>1, <3>2
  <2>2. ASSUME NEW i \in R, Y(u[i]) PROVE i \in S
    <3>1. CASE i \in 1 .. 2
      BY <3>1
    <3>2. CASE i \in Shift(P, 2)
      <4>1. PICK p \in P : i = p + 2
        BY <3>2 DEF Shift
      <4>2. Y(s[p])
        BY <1>8, <2>2, <4>1
      <4>3. p \in T
        BY <1>2, <4>2
      <4>. QED  BY <4>1, <4>3 DEF Shift
    <3>. QED  BY <2>2, <3>1, <3>2
  <2>. HIDE DEF R, S
  <2>. QED  BY <2>1, <2>2
<1>. HIDE DEF R, S
<1>11. \A n \in 1 .. Cardinality(R) : Nth(R, n) \in R /\ g[n] = u[Nth(R, n)]
  <2>1. \A n \in 1 .. Cardinality(R) : Nth(R, n) \in R
    BY <1>6, <1>9, NthFacts
  <2>2. \A n \in 1 .. Cardinality(R) : At(u, R)[n] = u[Nth(R, n)]
    BY DEF At
  <2>. QED  BY <1>6, <2>1, <2>2
<1>12. DOMAIN g = 1 .. Cardinality(R)
  <2>1. DOMAIN At(u, R) = 1 .. Cardinality(R)
    BY DEF At
  <2>. QED  BY <1>6, <2>1
<1>13. {i \in DOMAIN g : Y(g[i])} = {n \in 1 .. Cardinality(R) : Nth(R, n) \in S}
  BY <1>10, <1>11, <1>12
<1>14. At(At(u, R), {n \in 1 .. Cardinality(R) : Nth(R, n) \in S}) = At(u, S)
  BY <1>6, <1>9, <1>10, AtOfAt
<1>. QED  BY <1>5, <1>6, <1>13, <1>14 DEF Y, g

\* The places of a window of a chunk: from the image before its first answer, if that is not
\* the frame of the instruction, to its last answer.
LEMMA WindowPlaces ==
  ASSUME NEW r \in Nat, NEW k \in Nat, k > r, NEW q
  PROVE  q \in WindowStart(2 * r + 1) + 1 .. 2 * k + 1
           <=> \/ \E x \in r + 1 .. k : q = 2 * x + 1
               \/ \E x \in 1 .. k - 1 : x >= r /\ q = 2 * x + 2
<1>. DEFINE W == WindowStart(2 * r + 1)
<1>1. /\ r = 0 => W = 2
      /\ r # 0 => W = 2 * r + 1
  BY DEF WindowStart
<1>2. W \in Nat
  BY <1>1
<1>. HIDE DEF W
<1>3. ASSUME NEW x \in r + 1 .. k PROVE 2 * x + 1 \in W + 1 .. 2 * k + 1
  BY <1>1, <1>2
<1>4. ASSUME NEW x \in 1 .. k - 1, x >= r PROVE 2 * x + 2 \in W + 1 .. 2 * k + 1
  BY <1>1, <1>2, <1>4
<1>5. ASSUME NEW i \in W + 1 .. 2 * k + 1
      PROVE  \/ \E x \in r + 1 .. k : i = 2 * x + 1
             \/ \E x \in 1 .. k - 1 : x >= r /\ i = 2 * x + 2
  <2>1. i \in Nat /\ W + 1 <= i /\ i <= 2 * k + 1
    BY <1>2
  <2>2. PICK x \in Nat : i = 2 * x + 1 \/ i = 2 * x + 2
    <3>1. i - 1 \in Nat
      BY <1>2, <2>1
    <3>2. i - 1 = 2 * ((i - 1) \div 2) + ((i - 1) % 2) /\ (i - 1) % 2 \in 0 .. 1
          /\ (i - 1) \div 2 \in Nat
      BY <3>1
    <3>. QED  BY <2>1, <3>2
  <2>3. CASE i = 2 * x + 1
    <3>1. x \in r + 1 .. k
      BY <1>1, <1>2, <2>1, <2>3
    <3>. QED  BY <2>3, <3>1
  <2>4. CASE i = 2 * x + 2
    <3>1. x \in 1 .. k - 1 /\ x >= r
      BY <1>1, <1>2, <2>1, <2>4
    <3>. QED  BY <2>4, <3>1
  <2>. QED  BY <2>2, <2>3, <2>4
<1>. QED  BY <1>3, <1>4, <1>5 DEF W

\* The answers before a window.
LEMMA AnswersBefore ==
  ASSUME NEW s, NEW a, NEW f, Finished(s, a, f), NEW r \in 0 .. a, NEW t \in Nat
  PROVE  LET z == Slice(Told(s), AtLeast(2 * r + 1 - t * 2, 0), 2 * r + 1)
         IN  At(z, {i \in DOMAIN z : IsAnswer(z[i])})
               = At(Told(s), {2 * x + 1 : x \in {y \in 1 .. r : y > r - t}})
<1>. DEFINE D == Told(s)
            L == AtLeast(2 * r + 1 - t * 2, 0)
            l == 2 * r + 1 - L
            z == SubSeq(D, L + 1, 2 * r + 1)
            A == {i \in 1 .. l : IsAnswer(z[i])}
            B == {2 * x + 1 : x \in {y \in 1 .. r : y > r - t}}
<1>1. /\ a \in Nat /\ f \in Nat /\ D \in Seq(Talk) /\ Len(D) = a + f + 2
      /\ f = a \/ f = a + 1
  BY ToldFacts DEF Finished
<1>2. /\ L \in Nat /\ 2 * r + 1 <= Len(D) /\ L <= 2 * r + 1 /\ l \in Nat
      /\ \A x \in Int : 2 * x >= L <=> x > r - t /\ x >= 0
  BY <1>1 DEF AtLeast
<1>3. Slice(D, L, 2 * r + 1) = z
  BY <1>2 DEF Slice
<1>. HIDE DEF L
<1>4. /\ DOMAIN z = 1 .. l
      /\ \A i \in 1 .. l : z[i] = D[L + i]
  <2>1. \A i \in L + 1 .. 2 * r + 1 : D[i] \in Talk
    <3>1. \A i \in L + 1 .. 2 * r + 1 : i \in 1 .. Len(D)
      BY <1>1, <1>2
    <3>. QED  BY <1>1, <3>1, ElementOfSeq
  <2>2. L + 1 \in Int /\ 2 * r + 1 \in Int /\ L + 1 <= 2 * r + 2
    BY <1>2
  <2>. HIDE DEF D
  <2>3. /\ z \in Seq(Talk)
        /\ Len(z) = IF L + 1 <= 2 * r + 1 THEN (2 * r + 1) - (L + 1) + 1 ELSE 0
        /\ \A i \in 1 .. (2 * r + 1) - (L + 1) + 1 : z[i] = D[(L + 1) + i - 1]
    BY <2>1, <2>2, SubSeqProperties
  <2>4. (2 * r + 1) - (L + 1) + 1 = l /\ \A i \in Int : (L + 1) + i - 1 = L + i
    BY <1>2
  <2>5. Len(z) = l
    BY <1>2, <2>3, <2>4
  <2>6. \A i \in 1 .. l : z[i] = D[L + i]
    <3>1. \A i \in 1 .. l : i \in Int /\ z[i] = D[(L + 1) + i - 1]
      BY <2>3, <2>4
    <3>. HIDE DEF z, l
    <3>. QED  BY <2>4, <3>1
  <2>7. DOMAIN z = 1 .. l
    <3>. HIDE DEF z, l
    <3>. QED  BY <2>3, <2>5
  <2>. QED  BY <2>6, <2>7
<1>5. \A i \in 0 .. a + f + 1 : IsAnswer(D[i + 1]) <=> \E x \in 1 .. a : i = 2 * x
  <2>1. \A i : i \in AnswerPositions(D) <=> i \in 0 .. Len(D) - 1 /\ IsAnswer(D[i + 1])
    BY DEF AnswerPositions
  <2>2. \A i : i \in AnswerPositions(D) <=> \E x \in 1 .. a : i = 2 * x
    BY AnswersTold DEF Evens
  <2>3. Len(D) - 1 = a + f + 1
    BY <1>1
  <2>. QED  BY <2>1, <2>2, <2>3
<1>. HIDE DEF D
<1>6. \A i \in 1 .. l : IsAnswer(z[i]) <=> \E x \in 1 .. a : L + i = 2 * x + 1
  <2>. SUFFICES ASSUME NEW i \in 1 .. l
                PROVE  IsAnswer(z[i]) <=> \E x \in 1 .. a : L + i = 2 * x + 1
    OBVIOUS
  <2>1. z[i] = D[L + i] /\ L + i - 1 \in 0 .. a + f + 1 /\ (L + i - 1) + 1 = L + i
    BY <1>1, <1>2, <1>4
  <2>2. IsAnswer(D[L + i]) <=> \E x \in 1 .. a : L + i - 1 = 2 * x
    BY <1>5, <2>1
  <2>3. \A x \in 1 .. a : L + i - 1 = 2 * x <=> L + i = 2 * x + 1
    BY <1>1, <1>2
  <2>. QED  BY <2>1, <2>2, <2>3
<1>7. A \in SUBSET Int /\ IsFiniteSet(A)
  <2>1. IsFiniteSet(1 .. l)
    BY <1>2, FS_Interval
  <2>. HIDE DEF l
  <2>2. A \in SUBSET (1 .. l)
    OBVIOUS
  <2>3. IsFiniteSet(A)
    BY <2>1, <2>2, FS_Subset
  <2>4. A \in SUBSET Int
    OBVIOUS
  <2>. QED  BY <2>3, <2>4
<1>. HIDE DEF z
<1>8. Shift(A, L) = B
  <2>1. ASSUME NEW i \in A PROVE i + L \in B
    <3>1. PICK x \in 1 .. a : L + i = 2 * x + 1
      BY <1>6
    <3>2. i \in 1 .. l
      OBVIOUS
    <3>3. x \in Int /\ x <= r /\ 2 * x >= L
      BY <1>1, <1>2, <3>1, <3>2
    <3>4. x \in 1 .. r /\ x > r - t
      BY <1>2, <3>3
    <3>5. i + L = 2 * x + 1
      BY <1>2, <3>1, <3>2
    <3>. QED  BY <3>4, <3>5
  <2>2. ASSUME NEW x \in 1 .. r, x > r - t PROVE 2 * x + 1 \in Shift(A, L)
    <3>0. x \in Int /\ x >= 0 /\ x \in 1 .. a
      BY <1>1
    <3>1. 2 * x >= L /\ x \in 1 .. a
      BY <1>2, <2>2, <3>0
    <3>2. PICK i \in 1 .. l : i = 2 * x + 1 - L
      BY <1>2, <3>1
    <3>3. L + i = 2 * x + 1 /\ i + L = 2 * x + 1
      BY <1>2, <3>2
    <3>4. i \in A
      BY <1>6, <3>1, <3>3
    <3>. HIDE DEF A
    <3>. QED  BY <3>3, <3>4 DEF Shift
  <2>. HIDE DEF A
  <2>3. \A q \in Shift(A, L) : q \in B
    BY <2>1 DEF Shift
  <2>4. \A q \in B : q \in Shift(A, L)
    BY <2>2
  <2>. HIDE DEF B
  <2>. QED  BY <2>3, <2>4
<1>9. At(D, Shift(A, L)) = At(z, A)
  <2>1. Further(z, A, D, L)
    <3>1. \A i \in A : i \in 1 .. l /\ i + L = L + i
      BY <1>2
    <3>. QED  BY <1>4, <3>1 DEF Further
  <2>2. L \in Int
    BY <1>2
  <2>. HIDE DEF A
  <2>. QED  BY <1>7, <2>1, <2>2, AtShifted
<1>10. At(z, {i \in DOMAIN z : IsAnswer(z[i])}) = At(z, A)
  BY <1>4
<1>. QED  BY <1>3, <1>8, <1>9, <1>10 DEF L, D

LEMMA ChunkNumbers ==
  ASSUME NEW I \in Nat, I # 0, NEW M \in Nat, I <= M, NEW a \in Nat,
         NEW r \in Nat, NEW k \in 1 .. a, k = r + I
  PROVE  /\ k \in Nat \ {0} /\ k > r /\ r \in 0 .. a /\ M - I \in Nat
         /\ 2 * r + 1 + 2 * I = 2 * k + 1 /\ 2 * k + 1 <= 2 * a + 1
         /\ 2 * r + 1 = 1 <=> k - 1 < I
         /\ \A x \in 1 .. k : x >= k - (M - 1) <=> x \in r + 1 .. k
                                                   \/ (x \in 1 .. r /\ x > r - (M - I))
         /\ \A x \in r + 1 .. k : x \in 1 .. k
         /\ \A x \in 1 .. r : x \in 1 .. k
         /\ \A x \in 1 .. k - 1 : x >= k - I <=> x >= r
OBVIOUS

\* A chunk whose window ends with the k-th answer is the prompt of the answer, within the
\* limit of one text fewer, and the answer.
LEMMA ChunkTold ==
  ASSUME NEW c \in Config, c.max_images <= c.max_texts,
         NEW s, NEW a, NEW f, Finished(s, a, f),
         NEW r \in Nat, NEW k \in 1 .. a, k = r + c.max_images
  PROVE  Chunk(Told(s), 2 * r + 1, 2 * r + 1 + 2 * c.max_images, c.max_texts - c.max_images)
           = Append(PromptOf(Fewer(c), s, k - 1), Answer(k))
<1>. DEFINE I == c.max_images
            M == c.max_texts
            t == M - I
            u == 2 * r + 1
            D == Told(s)
            P == RowPlaces(Fewer(c), k)
            B == {2 * x + 1 : x \in {y \in 1 .. r : y > r - t}}
            W == WindowStart(u)
            J == W + 1 .. 2 * k + 1
            h == <<SystemPrompt, Instruction(Base(c, k - 1))>>
<1>0. /\ I \in Nat /\ I # 0 /\ M \in Nat /\ I <= M /\ a \in Nat /\ f \in Nat
      /\ f = a \/ f = a + 1
  BY ToldFacts DEF Config, Finished
<1>1. /\ D \in Seq(Talk) /\ Len(D) = a + f + 2
      /\ D[1] = SystemPrompt /\ D[2] = Instruction(<<0>>)
      /\ s \in Seq(Talk) /\ Len(s) = a + f
  BY ToldFacts
<1>18. \A i \in 1 .. a + f : D[i + 2] = s[i]
  BY ToldShift
<1>. HIDE DEF I, M, D
<1>2. /\ k \in Nat \ {0} /\ k > r /\ r \in 0 .. a /\ t \in Nat
      /\ u + 2 * I = 2 * k + 1 /\ 2 * k + 1 <= 2 * a + 1
      /\ u = 1 <=> k - 1 < I
      /\ \A x \in 1 .. k : x >= k - (M - 1) <=> x \in r + 1 .. k \/ (x \in 1 .. r /\ x > r - t)
      /\ \A x \in r + 1 .. k : x \in 1 .. k
      /\ \A x \in 1 .. r : x \in 1 .. k
      /\ \A x \in 1 .. k - 1 : x >= k - I <=> x >= r
  <2>1. k = r + I
    BY DEF I
  <2>. QED  BY <1>0, <2>1, ChunkNumbers
<1>. HIDE DEF t
<1>17. u \in Nat /\ u <= Len(D) /\ 2 * k + 1 <= Len(D) /\ u \in Int /\ 2 * k + 1 \in Int
  <2>1. 2 * a + 1 <= Len(D) /\ Len(D) \in Nat
    BY <1>0, <1>1
  <2>2. u \in Nat /\ u <= 2 * a + 1 /\ 2 * k + 1 \in Int
    BY <1>0, <1>2
  <2>3. 2 * k + 1 <= 2 * a + 1 /\ 2 * a + 1 \in Int
    BY <1>0, <1>2
  <2>. DEFINE e == 2 * a + 1
              g == 2 * k + 1
              l == Len(D)
  <2>4. e <= l /\ l \in Int /\ e \in Int /\ u <= e /\ u \in Nat /\ g \in Int /\ g <= e
    BY <2>1, <2>2, <2>3
  <2>. HIDE DEF e, g, l, u
  <2>5. u \in Nat /\ u <= l /\ g <= l /\ u \in Int /\ g \in Int
    BY <2>4
  <2>. QED  BY <2>5 DEF g, l
<1>3. (IF u = 1 THEN D[2] ELSE Instruction(<<>>)) = Instruction(Base(c, k - 1))
  <2>. HIDE DEF u
  <2>. QED  BY <1>1, <1>2 DEF Base, I
<1>4. Only(Slice(D, AtLeast(u - t * 2, 0), u), IsAnswer) = At(D, B)
  <2>. DEFINE z == Slice(D, AtLeast(u - t * 2, 0), u)
  <2>1. At(z, {i \in DOMAIN z : IsAnswer(z[i])}) = At(D, B)
    BY <1>2, AnswersBefore DEF D
  <2>. HIDE DEF z, B
  <2>2. Only(z, IsAnswer) = At(D, B)
    BY <2>1 DEF Only
  <2>. QED  BY <2>2 DEF z
<1>5. W \in Nat /\ W >= 2 /\ W >= u
  BY <1>2 DEF WindowStart
<1>. HIDE DEF W
<1>6. B \in SUBSET Int /\ IsFiniteSet(B) /\ B \in SUBSET (1 .. Len(D))
      /\ \A i \in B : i <= u
  <2>1. B \in SUBSET (1 .. Len(D)) /\ \A i \in B : i <= u
    <3>1. \A x \in 1 .. r : 2 * x + 1 <= u /\ 2 * x + 1 \in Nat \ {0}
      OBVIOUS
    <3>. HIDE DEF u
    <3>2. \A x \in 1 .. r : 2 * x + 1 \in 1 .. Len(D) /\ 2 * x + 1 <= u
      BY <1>1, <1>17, <3>1
    <3>. QED  BY <3>2
  <2>2. IsFiniteSet(1 .. Len(D)) /\ \A i \in 1 .. Len(D) : i \in Int
    BY <1>1, FS_Interval
  <2>. HIDE DEF B
  <2>3. IsFiniteSet(B)
    BY <2>1, <2>2, FS_Subset
  <2>. QED  BY <2>1, <2>2, <2>3
<1>7. J \in SUBSET Int /\ IsFiniteSet(J) /\ J \in SUBSET (1 .. Len(D))
      /\ \A j \in J : u < j
  <2>1. J \in SUBSET (1 .. Len(D)) /\ J \in SUBSET Int /\ \A j \in J : u < j
    <3>. HIDE DEF u
    <3>. QED  BY <1>17, <1>5
  <2>2. IsFiniteSet(J)
    <3>1. W + 1 \in Int /\ 2 * k + 1 \in Int
      BY <1>5, <1>17
    <3>. QED  BY <3>1, FS_Interval
  <2>. QED  BY <2>1, <2>2
<1>8. \A i \in 1 .. Len(D) : D[i] \in Talk
  BY <1>1, ElementOfSeq
<1>9. Slice(D, W, u + 2 * I) = At(D, J)
  <2>1. \A i \in J : D[i] \in Talk
    BY <1>7, <1>8
  <2>2. W + 1 \in Int /\ 2 * k + 1 \in Int
    BY <1>5, <1>17
  <2>3. At(D, W + 1 .. 2 * k + 1) = SubSeq(D, W + 1, 2 * k + 1)
    BY <2>1, <2>2, AtInterval
  <2>. QED  BY <1>2, <1>17, <2>3 DEF Slice
<1>10. At(D, B \cup J) = At(D, B) \o At(D, J)
  <2>1. \A i \in B : \A j \in J : i < j
    <3>. HIDE DEF B, J
    <3>1. \A i \in B : i \in Int /\ i <= u
      BY <1>6
    <3>2. \A j \in J : j \in Int /\ u < j
      BY <1>7
    <3>3. u \in Int
      BY <1>17
    <3>. QED  BY <3>1, <3>2, <3>3
  <2>2. \A i \in B \cup J : D[i] \in Talk
    <3>. HIDE DEF B, J
    <3>. QED  BY <1>6, <1>7, <1>8
  <2>. HIDE DEF B, J
  <2>. QED  BY <1>6, <1>7, <2>1, <2>2, AtJoined
<1>11. Shift(P, 2) = B \cup J
  <2>0. /\ Fewer(c) \in Config /\ Fewer(c).max_texts = M - 1 /\ Fewer(c).max_images = I
        /\ k \in Nat \ {0}
    BY <1>2, FewerFacts DEF M, I
  <2>1. \A p : p \in P <=> \/ \E x \in 1 .. k : x >= k - (M - 1) /\ p = 2 * x - 1
                           \/ \E x \in 1 .. k - 1 : x >= k - I /\ p = 2 * x
    <3>1. \A p : p \in P <=> \/ \E x \in 1 .. k : x >= k - Fewer(c).max_texts /\ p = 2 * x - 1
                             \/ \E x \in 1 .. k - 1 : x >= k - Fewer(c).max_images /\ p = 2 * x
      BY <2>0, InRowPlaces
    <3>. QED  BY <2>0, <3>1
  <2>2. \A q : q \in J <=> \/ \E x \in r + 1 .. k : q = 2 * x + 1
                           \/ \E x \in 1 .. k - 1 : x >= r /\ q = 2 * x + 2
    BY <1>2, WindowPlaces DEF W
  <2>3. \A q : q \in B <=> \E x \in 1 .. r : x > r - t /\ q = 2 * x + 1
    OBVIOUS
  <2>. HIDE DEF P, J, B
  <2>4. ASSUME NEW p \in P PROVE p + 2 \in B \cup J
    <3>1. CASE \E x \in 1 .. k : x >= k - (M - 1) /\ p = 2 * x - 1
      <4>1. PICK x \in 1 .. k : x >= k - (M - 1) /\ p = 2 * x - 1
        BY <3>1
      <4>2. p + 2 = 2 * x + 1
        BY <4>1
      <4>3. CASE x \in r + 1 .. k
        BY <2>2, <4>2, <4>3
      <4>4. CASE x \notin r + 1 .. k
        <5>1. x \in 1 .. r /\ x > r - t
          BY <1>2, <4>1, <4>4
        <5>. QED  BY <2>3, <4>2, <5>1
      <4>. QED  BY <4>3, <4>4
    <3>2. CASE \E x \in 1 .. k - 1 : x >= k - I /\ p = 2 * x
      <4>1. PICK x \in 1 .. k - 1 : x >= k - I /\ p = 2 * x
        BY <3>2
      <4>2. p + 2 = 2 * x + 2
        BY <4>1
      <4>3. x >= r
        BY <1>2, <4>1
      <4>. QED  BY <2>2, <4>2, <4>3
    <3>. QED  BY <2>1, <3>1, <3>2
  <2>5. ASSUME NEW x \in 1 .. k, x >= k - (M - 1) PROVE 2 * x + 1 \in Shift(P, 2)
    <3>1. 2 * x - 1 + 2 = 2 * x + 1
      OBVIOUS
    <3>2. 2 * x - 1 \in P
      BY <2>1, <2>5
    <3>. QED  BY <3>1, <3>2 DEF Shift
  <2>6. ASSUME NEW x \in 1 .. k - 1, x >= r PROVE 2 * x + 2 \in Shift(P, 2)
    <3>1. x >= k - I
      BY <1>2, <2>6
    <3>2. 2 * x \in P
      BY <2>1, <3>1
    <3>. QED  BY <3>2 DEF Shift
  <2>7. /\ \A x \in r + 1 .. k : x \in 1 .. k /\ x >= k - (M - 1)
        /\ \A x \in 1 .. r : x > r - t => x \in 1 .. k /\ x >= k - (M - 1)
    BY <1>2
  <2>8. \A q \in B : q \in Shift(P, 2)
    BY <2>3, <2>5, <2>7
  <2>9. \A q \in J : q \in Shift(P, 2)
    BY <2>2, <2>5, <2>6, <2>7
  <2>10. \A q \in Shift(P, 2) : q \in B \cup J
    BY <2>4 DEF Shift
  <2>. QED  BY <2>8, <2>9, <2>10
<1>12. At(D, Shift(P, 2)) = At(s, P)
  <2>1. Fewer(c) \in Config
    BY FewerFacts
  <2>2. P \in SUBSET (1 .. 2 * a) /\ IsFiniteSet(P) /\ P \in SUBSET Int
    BY <1>0, <1>2, <1>17, <2>1, RowPlacesIn
  <2>3. Further(s, P, D, 2)
    <3>2. \A i \in 1 .. 2 * a : i \in 1 .. a + f
      BY <1>0, <1>2, <1>17
    <3>. HIDE DEF P, D
    <3>. QED  BY <2>2, <1>18, <3>2 DEF Further
  <2>. HIDE DEF P, D
  <2>. QED  BY <2>2, <2>3, AtShifted
<1>13. Append(PromptOf(Fewer(c), s, k - 1), Answer(k)) = h \o At(s, P)
  <2>1. Fewer(c) \in Config /\ Base(Fewer(c), k - 1) = Base(c, k - 1)
    BY FewerFacts
  <2>. QED  BY <2>1, PromptAnswered
<1>14. Chunk(D, u, u + 2 * I, t) = h \o At(D, B) \o At(D, J)
  BY <1>1, <1>3, <1>4, <1>9 DEF Chunk, W
<1>15. (h \o At(D, B)) \o At(D, J) = h \o (At(D, B) \o At(D, J))
  <2>1. h \in Seq(Talk)
    BY TalkTypes DEF Base
  <2>2. \A i \in B : D[i] \in Talk
    <3>. HIDE DEF B
    <3>. QED  BY <1>6, <1>8
  <2>3. \A i \in J : D[i] \in Talk
    <3>. HIDE DEF J
    <3>. QED  BY <1>7, <1>8
  <2>. HIDE DEF h, B, J
  <2>4. At(D, B) \in Seq(Talk)
    BY <1>6, <2>2, AtTalk
  <2>5. At(D, J) \in Seq(Talk)
    BY <1>7, <2>3, AtTalk
  <2>. DEFINE v == At(D, B)
              w == At(D, J)
  <2>6. h \in Seq(Talk) /\ v \in Seq(Talk) /\ w \in Seq(Talk)
    BY <2>1, <2>4, <2>5
  <2>. HIDE DEF v, w
  <2>7. (h \o v) \o w = h \o (v \o w)
    BY <2>6, TalkAssociative
  <2>. QED  BY <2>7 DEF v, w
<1>. HIDE DEF P, B, J, h, u, t
<1>16. Chunk(D, u, u + 2 * I, t) = Append(PromptOf(Fewer(c), s, k - 1), Answer(k))
  BY <1>10, <1>11, <1>12, <1>13, <1>14, <1>15
<1>. QED  BY <1>16 DEF D, u, I, t, M

\* The i-th of n windows fits.
LEMMA StartsFit ==
  ASSUME NEW n \in Nat, NEW w \in Nat, NEW d \in Nat \ {0},
         NEW i \in 1 .. Cardinality(ChunkStarts(n, w, d))
  PROVE  n >= 3 /\ 1 + (i - 1) * 2 * d + 2 * w <= n + 1
<1>. DEFINE S == ChunkStarts(n, w, d)
            D == 2 * d
            Z == {1 + q * D : q \in 0 .. i - 2}
<1>1. D \in Nat \ {0} /\ (i - 1) * 2 * d = (i - 1) * D
  OBVIOUS
<1>2. /\ \A x : x \in S => x \in 1 .. n /\ (x - 1) % D = 0 /\ x + 2 * w <= n + 1 /\ n >= 3
      /\ \A x \in 1 .. n : (x - 1) % D = 0 /\ x + 2 * w <= n + 1 /\ n >= 3 => x \in S
  BY DEF ChunkStarts
<1>. HIDE DEF S, D
<1>3. S \in SUBSET (1 .. n) /\ IsFiniteSet(S) /\ Cardinality(S) \in Nat /\ i \in 1 .. Cardinality(S)
  <2>1. S \in SUBSET (1 .. n)
    BY <1>2
  <2>2. IsFiniteSet(1 .. n)
    BY FS_Interval
  <2>3. IsFiniteSet(S)
    BY <2>1, <2>2, FS_Subset
  <2>. QED  BY <2>1, <2>3, FS_CardinalityType DEF S
<1>4. n >= 3
  <2>1. S # {}
    <3>1. S = {} => Cardinality(S) = 0
      BY FS_EmptySet
    <3>. QED  BY <1>3, <3>1
  <2>. QED  BY <1>2, <2>1
<1>5. 1 + (i - 1) * D + 2 * w <= n + 1
  <2>. SUFFICES ASSUME 1 + (i - 1) * D + 2 * w > n + 1 PROVE FALSE
    <3>1. i - 1 \in Nat /\ (i - 1) * D \in Int
      BY <1>1, <1>3
    <3>. QED  BY <3>1
  <2>1. ASSUME NEW x \in S PROVE \E q \in 0 .. i - 2 : x = 1 + q * D
    <3>1. x \in 1 .. n /\ (x - 1) % D = 0 /\ x + 2 * w <= n + 1
      BY <1>2
    <3>2. PICK q \in Nat : x - 1 = q * D
      <4>1. x - 1 \in Nat
        BY <3>1
      <4>2. x - 1 = ((x - 1) \div D) * D + ((x - 1) % D) /\ (x - 1) \div D \in Nat
        <5>. DEFINE y == x - 1
        <5>1. y \in Nat
          BY <4>1
        <5>. HIDE DEF y
        <5>2. y = (y \div D) * D + (y % D) /\ y \div D \in Nat
          BY <1>1, <5>1
        <5>. QED  BY <5>2 DEF y
      <4>3. ((x - 1) \div D) * D = x - 1
        BY <1>1, <3>1, <4>1, <4>2
      <4>. QED  BY <4>2, <4>3
    <3>3. q < i - 1
      <4>. SUFFICES ASSUME q >= i - 1 PROVE FALSE
        BY <1>3
      <4>1. q * D >= (i - 1) * D
        <5>1. \A u, v \in Nat : u >= v => u * D >= v * D
          BY <1>1
        <5>2. i - 1 \in Nat
          BY <1>3
        <5>. QED  BY <5>1, <5>2
      <4>2. (i - 1) * D \in Int /\ q * D \in Int
        BY <1>1, <1>3
      <4>. QED  BY <3>1, <3>2, <4>1, <4>2
    <3>. QED  BY <1>3, <3>1, <3>2, <3>3
  <2>2. S \in SUBSET Z
    BY <2>1
  <2>3. IsFiniteSet(Z) /\ Cardinality(Z) <= i - 1
    <3>1. [q \in 0 .. i - 2 |-> 1 + q * D] \in Surjection(0 .. i - 2, Z)
      BY Fun_IsSurj
    <3>2. IsFiniteSet(0 .. i - 2) /\ Cardinality(0 .. i - 2) = i - 1
      <4>. DEFINE j == i - 2
      <4>1. j \in Int /\ 0 \in Int /\ (IF 0 > j THEN 0 ELSE j - 0 + 1) = i - 1
        BY <1>3
      <4>. HIDE DEF j
      <4>2. IsFiniteSet(0 .. j) /\ Cardinality(0 .. j) = IF 0 > j THEN 0 ELSE j - 0 + 1
        BY <4>1, FS_Interval
      <4>. QED  BY <4>1, <4>2 DEF j
    <3>. HIDE DEF Z
    <3>. QED  BY <3>1, <3>2, FS_Surjection
  <2>4. Cardinality(S) <= Cardinality(Z)
    <3>. HIDE DEF Z
    <3>. QED  BY <2>2, <2>3, FS_Subset
  <2>5. Cardinality(Z) \in Nat
    BY <2>3, FS_CardinalityType
  <2>. HIDE DEF Z
  <2>. QED  BY <1>3, <2>3, <2>4, <2>5
<1>. QED  BY <1>1, <1>4, <1>5

\* A window that goes beyond the last answer ends with an image.
LEMMA ChunkBeyond ==
  ASSUME NEW s, NEW a, NEW f, Finished(s, a, f), a + f >= 1,
         NEW r \in Nat, NEW I \in Nat \ {0}, r + I = a + 1, NEW t \in Nat
  PROVE  ~IsAnswer(Last(Chunk(Told(s), 2 * r + 1, 2 * r + 1 + 2 * I, t)))
<1>. DEFINE D == Told(s)
            u == 2 * r + 1
            n == a + f + 2
            W == WindowStart(u)
            B == {2 * x + 1 : x \in {y \in 1 .. r : y > r - t}}
            h == <<D[1], IF u = 1 THEN D[2] ELSE Instruction(<<>>)>>
            z == SubSeq(D, W + 1, n)
            x == h \o At(D, B)
<1>1. /\ a \in Nat /\ f \in Nat
      /\ f = a \/ f = a + 1
      /\ D \in Seq(Talk) /\ Len(D) = n
      /\ D[1] = SystemPrompt /\ D[2] = Instruction(<<0>>)
      /\ \A y \in 1 .. a : D[2 * y + 2] = Image(y)
      /\ f = a + 1 => D[2 * a + 3] = Image(a + 1)
  BY ToldFacts DEF Finished
<1>2. r \in 0 .. a /\ n \in Nat /\ n >= 3 /\ u + 2 * I = 2 * a + 3
  BY <1>1
<1>3. W \in Nat /\ W + 1 <= n
  <2>1. /\ r = 0 => W = 2
        /\ r # 0 => W = 2 * r + 1
    BY DEF WindowStart
  <2>. HIDE DEF W
  <2>. QED  BY <1>1, <1>2, <2>1
<1>4. D[n] = Image(f)
  <2>1. CASE f = a + 1
    <3>1. n = 2 * a + 3
      BY <1>1, <2>1
    <3>. QED  BY <1>1, <2>1, <3>1
  <2>2. CASE f = a
    <3>1. n = 2 * a + 2 /\ a \in 1 .. a
      BY <1>1, <1>2, <2>2
    <3>. QED  BY <1>1, <2>2, <3>1
  <2>. QED  BY <1>1, <2>1, <2>2
<1>. HIDE DEF D
<1>5. Slice(D, W, u + 2 * I) = z
  <2>1. (IF 2 * a + 3 <= n THEN 2 * a + 3 ELSE n) = n
    BY <1>1
  <2>. HIDE DEF W, n, u
  <2>. QED  BY <1>1, <1>2, <2>1 DEF Slice
<1>6. \A i \in 1 .. n : D[i] \in Talk
  <2>. HIDE DEF n
  <2>. QED  BY <1>1, ElementOfSeq
<1>7. z \in Seq(Talk) /\ Len(z) = n - W /\ n - W \in 1 .. n - W /\ z[n - W] = D[n]
  <2>. HIDE DEF W, n
  <2>1. \A i \in W + 1 .. n : D[i] \in Talk
    BY <1>2, <1>3, <1>6
  <2>2. W + 1 \in Int /\ n \in Int /\ n - (W + 1) + 1 = n - W /\ (W + 1) + (n - W) - 1 = n
        /\ n - W \in 1 .. n - W
    BY <1>2, <1>3
  <2>3. /\ z \in Seq(Talk) /\ Len(z) = n - (W + 1) + 1
        /\ \A i \in 1 .. n - (W + 1) + 1 : z[i] = D[(W + 1) + i - 1]
    BY <1>3, <2>1, <2>2, SubSeqProperties
  <2>. QED  BY <2>2, <2>3
<1>8. At(D, B) \in Seq(Talk)
  <2>1. B \in SUBSET (1 .. n)
    <3>1. \A y \in 1 .. r : 2 * y + 1 \in 1 .. n
      BY <1>1, <1>2
    <3>. HIDE DEF n
    <3>. QED  BY <3>1
  <2>2. IsFiniteSet(1 .. n) /\ \A i \in 1 .. n : i \in Int
    BY <1>2, FS_Interval
  <2>. HIDE DEF B, n
  <2>3. IsFiniteSet(B) /\ B \in SUBSET Int
    BY <2>1, <2>2, FS_Subset
  <2>. QED  BY <1>6, <2>1, <2>3, AtTalk
<1>9. h \in Seq(Talk)
  <2>1. D[1] \in Talk /\ D[2] \in Talk /\ Instruction(<<>>) \in Talk
    <3>1. Instruction(<<>>) \in Talk
      BY DEF Instruction, Talk
    <3>. HIDE DEF n
    <3>. QED  BY <1>2, <1>6, <3>1
  <2>. QED  BY <2>1
<1>10. x \in Seq(Talk)
  <2>. HIDE DEF h, B
  <2>. QED  BY <1>8, <1>9, ConcatProperties
<1>11. Chunk(D, u, u + 2 * I, t) = x \o z
  <2>. DEFINE y == Slice(D, AtLeast(u - t * 2, 0), u)
  <2>1. At(y, {i \in DOMAIN y : IsAnswer(y[i])}) = At(D, B)
    BY <1>2, AnswersBefore DEF D
  <2>2. Only(y, IsAnswer) = At(D, B)
    <3>. HIDE DEF y, B
    <3>. QED  BY <2>1 DEF Only
  <2>. HIDE DEF z
  <2>. QED  BY <1>5, <2>2 DEF Chunk, W
<1>. HIDE DEF x, z, W, n
<1>12. Last(x \o z) = Image(f)
  <2>. DEFINE l == Len(x)
              m == Len(z)
  <2>1. /\ Len(x \o z) = l + m
        /\ \A i \in 1 .. l + m : (x \o z)[i] = IF i <= l THEN x[i] ELSE z[i - l]
    BY <1>7, <1>10, ConcatProperties
  <2>2. l \in Nat /\ m \in Nat /\ m >= 1
    BY <1>7, <1>10, LenProperties
  <2>3. z[m] = Image(f)
    BY <1>4, <1>7
  <2>. HIDE DEF l, m
  <2>4. l + m \in 1 .. l + m /\ ~(l + m <= l) /\ (l + m) - l = m
    BY <2>2
  <2>5. (x \o z)[l + m] = z[m]
    BY <2>1, <2>4
  <2>. QED  BY <2>1, <2>3, <2>5 DEF Last
<1>13. ~IsAnswer(Image(f))
  BY DEF IsAnswer, Image
<1>14. ~IsAnswer(Last(Chunk(D, u, u + 2 * I, t)))
  BY <1>11, <1>12, <1>13
<1>. QED  BY <1>14 DEF D

\* The chunks, one by one.
LEMMA ChunkAt ==
  ASSUME NEW n \in Nat, n = Len(Conversation), cfg \in Config,
         NEW m \in 0 .. Len(TheChunks), NEW i \in DOMAIN SubSeq(TheChunks, 1, m)
  PROVE  /\ i \in 1 .. Cardinality(ChunkStarts(n, cfg.window, cfg.stride))
         /\ SubSeq(TheChunks, 1, m)[i]
              = Chunk(Conversation, 1 + (i - 1) * 2 * cfg.stride,
                      1 + (i - 1) * 2 * cfg.stride + 2 * cfg.window,
                      AtLeast(cfg.max_texts - cfg.max_images, 0))
<1>. DEFINE N == Cardinality(ChunkStarts(n, cfg.window, cfg.stride))
            Start(x) == 1 + (x - 1) * 2 * cfg.stride
            C(x) == Chunk(Conversation, Start(x), Start(x) + 2 * cfg.window,
                          AtLeast(cfg.max_texts - cfg.max_images, 0))
            T == TheChunks
            U == SubSeq(T, 1, m)
<1>1. T = [x \in 1 .. N |-> C(x)]
  BY DEF TheChunks, Chunks
<1>2. N \in Nat
  <2>1. IsFiniteSet(1 .. n)
    BY FS_Interval
  <2>2. ChunkStarts(n, cfg.window, cfg.stride) \in SUBSET (1 .. n)
    BY DEF ChunkStarts
  <2>3. IsFiniteSet(ChunkStarts(n, cfg.window, cfg.stride))
    BY <2>1, <2>2, FS_Subset
  <2>. QED  BY <2>3, FS_CardinalityType
<1>. HIDE DEF C, N, T
<1>3. Len(T) = N
  BY <1>1, <1>2
<1>4. m \in 0 .. N /\ m \in Int /\ 1 \in Int
  BY <1>2, <1>3 DEF T
<1>5. \A x \in 1 .. m : T[x] \in {C(y) : y \in 1 .. N}
  <2>1. \A x \in 1 .. m : x \in 1 .. N
    BY <1>2, <1>4
  <2>. QED  BY <1>1, <2>1
<1>6. /\ U \in Seq({C(y) : y \in 1 .. N})
      /\ Len(U) = IF 1 <= m THEN m - 1 + 1 ELSE 0
      /\ \A x \in 1 .. m - 1 + 1 : U[x] = T[1 + x - 1]
  <2>. DEFINE R == {C(y) : y \in 1 .. N}
  <2>1. \A x \in 1 .. m : T[x] \in R
    BY <1>5
  <2>. HIDE DEF R
  <2>2. /\ U \in Seq(R) /\ Len(U) = IF 1 <= m THEN m - 1 + 1 ELSE 0
        /\ \A x \in 1 .. m - 1 + 1 : U[x] = T[1 + x - 1]
    BY <1>4, <2>1, SubSeqProperties
  <2>. QED  BY <2>2 DEF R
<1>7. Len(U) = m /\ DOMAIN U = 1 .. m
  <2>1. Len(U) = m
    BY <1>2, <1>4, <1>6
  <2>. QED  BY <1>6, <2>1, LenProperties
<1>8. i \in 1 .. m
  BY <1>7 DEF T
<1>9. i \in 1 .. N /\ i \in 1 .. m - 1 + 1 /\ 1 + i - 1 = i
  BY <1>2, <1>4, <1>8
<1>10. U[i] = C(i)
  BY <1>1, <1>6, <1>9
<1>. QED  BY <1>9, <1>10 DEF T, N, C

\* A chunk that ends with an answer shows what the model was shown, but for the oldest text of
\* a full window.
LEMMA ChunkShows ==
  ASSUME DialogueInv, FinalInv, cfg.window = cfg.max_images, cfg.max_images <= cfg.max_texts,
         NEW i \in DOMAIN disk.chunks, IsAnswer(Last(disk.chunks[i]))
  PROVE  LET k == Last(disk.chunks[i]).text
             g == served[k]
         IN  Front(disk.chunks[i])
               = At(g, {x \in DOMAIN g : Young(g[x], k, cfg.max_texts)})
<1>. DEFINE s == full
            a == Answered
            f == Frames
            n == a + f + 2
            I == cfg.max_images
            M == cfg.max_texts
            r == (i - 1) * cfg.stride
            chunk == disk.chunks[i]
<1>1. /\ Finished(s, a, f) /\ cfg \in Config
      /\ \A k \in 1 .. a : served[k] = PromptOf(cfg, s, k - 1)
  <2>1. disk.chunks # <<>>
    OBVIOUS
  <2>. QED  BY <2>1 DEF FinalInv, DialogueInv, Dialogue
<1>2. PICK m \in 0 .. Len(TheChunks) : disk.chunks = SubSeq(TheChunks, 1, m)
  <2>1. disk.chunks # <<>>
    OBVIOUS
  <2>. QED  BY <2>1 DEF FinalInv
<1>3. /\ I \in Nat \ {0} /\ M \in Nat /\ I <= M /\ cfg.stride \in Nat \ {0} /\ cfg.window = I
      /\ a \in Nat /\ f \in Nat /\ Len(Told(s)) = n /\ n \in Nat
      /\ f = a \/ f = a + 1
  <2>1. /\ I \in Nat \ {0} /\ M \in Nat /\ I <= M /\ cfg.stride \in Nat \ {0} /\ cfg.window = I
        /\ f = a \/ f = a + 1
    BY <1>1 DEF Config, Finished
  <2>2. a \in Nat /\ f \in Nat /\ Len(Told(s)) = n
    BY <1>1, ToldFacts
  <2>. HIDE DEF a, f, I, M, s
  <2>. QED  BY <2>1, <2>2
<1>4. Conversation = Told(s)
  BY DEF Conversation, Told
<1>5. /\ i \in 1 .. Cardinality(ChunkStarts(n, I, cfg.stride))
      /\ chunk = Chunk(Told(s), 1 + (i - 1) * 2 * cfg.stride,
                       1 + (i - 1) * 2 * cfg.stride + 2 * I, AtLeast(M - I, 0))
  <2>1. i \in DOMAIN SubSeq(TheChunks, 1, m)
    BY <1>2
  <2>2. n \in Nat /\ n = Len(Conversation)
    BY <1>3, <1>4
  <2>3. /\ i \in 1 .. Cardinality(ChunkStarts(n, cfg.window, cfg.stride))
        /\ SubSeq(TheChunks, 1, m)[i]
             = Chunk(Conversation, 1 + (i - 1) * 2 * cfg.stride,
                     1 + (i - 1) * 2 * cfg.stride + 2 * cfg.window,
                     AtLeast(cfg.max_texts - cfg.max_images, 0))
    <3>. HIDE DEF n
    <3>. QED  BY <1>1, <2>1, <2>2, ChunkAt
  <2>. QED  BY <1>2, <1>3, <1>4, <2>3
<1>. HIDE DEF chunk, a, f, I, M, s
<1>6. n >= 3 /\ 1 + (i - 1) * 2 * cfg.stride + 2 * I <= n + 1
  BY <1>3, <1>5, StartsFit
<1>7. r \in Nat /\ 1 + (i - 1) * 2 * cfg.stride = 2 * r + 1 /\ AtLeast(M - I, 0) = M - I
      /\ M - I \in Nat
  <2>1. i - 1 \in Nat
    BY <1>5
  <2>2. r \in Nat /\ (i - 1) * 2 * cfg.stride = 2 * r
    BY <1>3, <2>1
  <2>. HIDE DEF r
  <2>. QED  BY <1>3, <2>2 DEF AtLeast
<1>8. chunk = Chunk(Told(s), 2 * r + 1, 2 * r + 1 + 2 * I, M - I)
  BY <1>5, <1>7
<1>. HIDE DEF r
<1>9. r + I \in 1 .. a + 1
  BY <1>3, <1>6, <1>7
<1>10. r + I # a + 1
  <2>1. ASSUME r + I = a + 1 PROVE FALSE
    <3>1. a + f >= 1
      BY <1>3, <1>6
    <3>2. ~IsAnswer(Last(Chunk(Told(s), 2 * r + 1, 2 * r + 1 + 2 * I, M - I)))
      BY <1>1, <1>3, <1>7, <2>1, <3>1, ChunkBeyond
    <3>. QED  BY <1>8, <3>2 DEF chunk
  <2>. QED  BY <2>1
<1>11. PICK k \in 1 .. a : k = r + I
  BY <1>3, <1>9, <1>10
<1>. DEFINE p == PromptOf(Fewer(cfg), s, k - 1)
<1>12. chunk = Append(p, Answer(k))
  <2>1. Chunk(Told(s), 2 * r + 1, 2 * r + 1 + 2 * cfg.max_images, cfg.max_texts - cfg.max_images)
           = Append(PromptOf(Fewer(cfg), s, k - 1), Answer(k))
    <3>1. k = r + cfg.max_images /\ cfg.max_images <= cfg.max_texts
      BY <1>3, <1>11 DEF I, M
    <3>2. cfg \in Config /\ Finished(s, a, f) /\ r \in Nat /\ k \in 1 .. a
      BY <1>1, <1>7
    <3>. QED  BY <3>1, <3>2, ChunkTold
  <2>. QED  BY <1>8, <2>1 DEF I, M
<1>13. p \in Seq(Talk) /\ Answer(k) \in Talk
  <2>1. Fewer(cfg) \in Config
    BY <1>1, <1>3, FewerFacts DEF I, M
  <2>2. Alternates(s, a, f) /\ k - 1 \in Nat /\ k - 1 <= a /\ k - 1 <= f
    BY <1>1, <1>3 DEF Finished
  <2>. QED  BY <2>1, <2>2, PromptTyped DEF Answer, Talk
<1>14. Last(chunk) = Answer(k) /\ Front(chunk) = p
  <2>. HIDE DEF p
  <2>. QED  BY <1>12, <1>13 DEF Last, Front
<1>15. Last(chunk).text = k
  BY <1>14 DEF Answer
<1>16. LET g == PromptOf(cfg, s, k - 1)
       IN  At(g, {x \in DOMAIN g : Young(g[x], k, cfg.max_texts)}) = p
  BY <1>1, <1>3, PromptWithout DEF I, M
<1>17. served[k] = PromptOf(cfg, s, k - 1)
  BY <1>1
<1>. QED  BY <1>14, <1>15, <1>16, <1>17 DEF chunk

\* A chunk that ends with an answer shows it after the prompt the model was given, but for the
\* oldest text of a full window.
THEOREM ChunksInContext ==
  ASSUME \A c \in Configs : c.max_images <= c.max_texts
  PROVE  Spec => []ChunkContextButOldest
<1>1. DialogueInv /\ FinalInv => ChunkContextButOldest
  <2>. SUFFICES ASSUME DialogueInv, FinalInv PROVE ChunkContextButOldest
    OBVIOUS
  <2>1. cfg.max_images <= cfg.max_texts
    BY DEF DialogueInv
  <2>2. ASSUME cfg.window = cfg.max_images, NEW i \in DOMAIN disk.chunks,
               IsAnswer(Last(disk.chunks[i]))
        PROVE  LET k == Last(disk.chunks[i]).text
                   g == served[k]
                   Older(m) == IsAnswer(m) /\ m.text <= k - cfg.max_texts
               IN  Front(disk.chunks[i]) = Only(g, LAMBDA m : ~Older(m))
    <3>1. LET k == Last(disk.chunks[i]).text
              g == served[k]
          IN  Front(disk.chunks[i])
                = At(g, {x \in DOMAIN g : Young(g[x], k, cfg.max_texts)})
      BY <2>1, <2>2, ChunkShows
    <3>. QED  BY <3>1 DEF Only, Young
  <2>. QED  BY <2>2 DEF ChunkContextButOldest
<1>. QED  BY <1>1, AlwaysFinal, PTL
=============================================================================
