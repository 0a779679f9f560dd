------------------------------ MODULE Episode ------------------------------
(***************************************************************************)
(* One episode of a TrajectoryRunnerActor (trajectory_runner.py): the      *)
(* dialogue it keeps within a window of images and texts, the prompts it   *)
(* sends to the model, the files it has the storage actor write            *)
(* (storage_actor.py), and the row it has the MySQL writer insert.         *)
(*                                                                         *)
(* The coroutine suspends in every call of another actor: an action is     *)
(* what happens between two of these calls.  Each call may raise, and the  *)
(* actor may be killed at any of them.  Locking an environment and giving  *)
(* it back are the subject of AgentCoordinator.                            *)
(***************************************************************************)
EXTENDS TrajectorySplits

CONSTANT Configs  \* the configurations to consider: see Config

\* A configuration: what config.yaml gives the runner and the splitter.
\* max_images is at least 1: the first frame is added without a trim.
Config == [max_images : Nat \ {0}, max_texts : Nat, max_steps : Nat \ {0},
           window : Nat \ {0}, stride : Nat \ {0}, model_pool : BOOLEAN]

ASSUME ConfigsAssumption == Configs \subseteq Config

VARIABLES
  cfg,       \* the configuration of this episode
  pc,        \* the call the coroutine is in, or where it goes next
  step,      \* step
  done,      \* done
  win,       \* the dialogue: see EmptyWindow
  full,      \* save_dialogue_full
  served,    \* history: the prompts the model has answered
  disk,      \* the files under the episode's directory
  row        \* whether the row of the episode is in the database

vars == <<cfg, pc, step, done, win, full, served, disk, row>>

(***************************************************************************)
(* The window                                                              *)
(***************************************************************************)
\* base_images: the frame in base_messages[1]; prompt_dialogue, save_dialogue
\* and image_refs as in the code.  A reference names the first frame, or the
\* position (from 1) of an image in the dialogue.
EmptyWindow == [base_images |-> <<>>, prompt_dialogue |-> <<>>,
                save_dialogue |-> <<>>, image_refs |-> <<>>]

BaseRef        == [source |-> "base", msg_idx |-> 0]
DialogueRef(i) == [source |-> "dialogue", msg_idx |-> i]

Texts(dialogue) == {i \in DOMAIN dialogue : IsAnswer(dialogue[i])}

\* Mutant: references behind the removed message are not moved.
KeepPlace(r, i) == r

\* Where a reference points after message i has been removed.
Moved(r, i) ==
  IF r.source = "dialogue" /\ r.msg_idx > i THEN DialogueRef(r.msg_idx - 1) ELSE r

\* _remove_dialogue_msg
RemoveMsg(w, i) ==
  LET others == Only(w.image_refs, LAMBDA r : r # DialogueRef(i))
  IN  [w EXCEPT !.prompt_dialogue = RemoveAt(@, i),
                !.save_dialogue = RemoveAt(@, i),
                !.image_refs = [j \in DOMAIN others |-> Moved(others[j], i)]]

\* The earliest image goes.
DropImage(w) ==
  LET ref  == Head(w.image_refs)
      rest == [w EXCEPT !.image_refs = Tail(@)]
  IN  IF ref.source = "base" THEN [rest EXCEPT !.base_images = <<>>]
                             ELSE RemoveMsg(rest, ref.msg_idx)

\* The earliest answer goes.
DropText(w) ==
  RemoveMsg(w, CHOOSE i \in Texts(w.prompt_dialogue) :
                 \A j \in Texts(w.prompt_dialogue) : i <= j)

\* Mutant: one image more than max_images stays.
MoreImages(w) == Len(w.image_refs) > cfg.max_images + 1

TooManyImages(w) == Len(w.image_refs) > cfg.max_images
TooManyTexts(w)  == Cardinality(Texts(w.prompt_dialogue)) > cfg.max_texts

\* _trim.  The loop removes messages while one of the counts is over its
\* limit; it is called after each message, so its body runs at most once: no
\* count is then over its limit by more than one.
Trim(w) ==
  IF TooManyImages(w) THEN DropImage(w)
  ELSE IF TooManyTexts(w) THEN DropText(w) ELSE w

\* _add_image
AddImage(w, n) ==
  LET longer == Append(w.prompt_dialogue, Image(n))
  IN  Trim([w EXCEPT !.prompt_dialogue = longer,
                     !.save_dialogue = Append(@, Image(n)),
                     !.image_refs = Append(@, DialogueRef(Len(longer)))])

\* _add_text
AddText(w, k) ==
  Trim([w EXCEPT !.prompt_dialogue = Append(@, Answer(k)),
                 !.save_dialogue = Append(@, Answer(k))])

\* _set_first_frame
SetFirstFrame(w) ==
  [w EXCEPT !.base_images = <<0>>, !.image_refs = Append(@, BaseRef)]

\* _build_messages
Prompt == <<SystemPrompt, Instruction(win.base_images)>> \o win.prompt_dialogue

\* _build_trajectory: base_messages_for_save keeps the first frame for good,
\* so it is used only as long as the frame is in base_messages.
Trajectory(w) == <<SystemPrompt, Instruction(w.base_images)>> \o w.save_dialogue

\* base_messages_for_save and save_dialogue_full
Conversation == <<SystemPrompt, Instruction(<<0>>)>> \o full

(***************************************************************************)
(* The coroutine                                                           *)
(***************************************************************************)
Calls == {"save_task_config", "env", "first_frame", "generate", "step",
          "save_frame", "save_partial_traj", "save_reward", "save_episode",
          "split_episode", "insert"}
Places == Calls \cup {"loop", "returned", "killed"}

Init ==
  /\ cfg \in Configs
  /\ pc = "save_task_config"
  /\ step = 0
  /\ done = FALSE
  /\ win = EmptyWindow
  /\ full = <<>>
  /\ served = <<>>
  /\ disk = [frames |-> {}, partials |-> <<>>, reward |-> FALSE,
             final |-> <<>>, chunks |-> <<>>]
  /\ row = FALSE

\* The answers given so far.
Answered == Len(served)

\* save_task_config returns.
ConfigSaved ==
  /\ pc = "save_task_config"
  /\ pc' = "env"
  /\ UNCHANGED <<cfg, step, done, win, full, served, disk, row>>

\* The environment is there.
EnvReady ==
  /\ pc = "env"
  /\ pc' = "first_frame"
  /\ UNCHANGED <<cfg, step, done, win, full, served, disk, row>>

\* The first observation is stored and put into the first prompt.
FirstFrame ==
  /\ pc = "first_frame"
  /\ disk' = [disk EXCEPT !.frames = @ \cup {0}]
  /\ win' = SetFirstFrame(win)
  /\ pc' = "loop"
  /\ UNCHANGED <<cfg, step, done, full, served, row>>

\* The last step is not left to the model.
LastStep ==
  /\ pc = "loop" /\ step + 1 = cfg.max_steps
  /\ done' = TRUE
  /\ pc' = "step"
  /\ UNCHANGED <<cfg, step, win, full, served, disk, row>>

\* The model is asked with the messages of the window.
Ask ==
  /\ pc = "loop" /\ step + 1 < cfg.max_steps
  /\ pc' = "generate"
  /\ UNCHANGED <<cfg, step, done, win, full, served, disk, row>>

\* The model answers.  The action parsed from the answer ends the episode
\* (DONE, FAIL, or an answer that cannot be parsed) or does not.
Answers ==
  /\ pc = "generate"
  /\ LET k == Answered + 1
     IN  /\ win' = AddText(win, k)
         /\ full' = Append(full, Answer(k))
  /\ served' = Append(served, Prompt)
  /\ done' \in BOOLEAN
  /\ pc' = "step"
  /\ UNCHANGED <<cfg, step, disk, row>>

\* _call_model has used up its attempts: the step is a FAIL without a text.
NoAnswer ==
  /\ pc = "generate" /\ cfg.model_pool
  /\ done' = TRUE
  /\ pc' = "step"
  /\ UNCHANGED <<cfg, step, win, full, served, disk, row>>

\* The environment has executed the action.
Stepped ==
  /\ pc = "step"
  /\ pc' = "save_frame"
  /\ UNCHANGED <<cfg, step, done, win, full, served, disk, row>>

\* The screenshot is stored and becomes part of the dialogue.
SaveFrame ==
  /\ pc = "save_frame"
  /\ disk' = [disk EXCEPT !.frames = @ \cup {step + 1}]
  /\ win' = AddImage(win, step + 1)
  /\ full' = Append(full, Image(step + 1))
  /\ pc' = "save_partial_traj"
  /\ UNCHANGED <<cfg, step, done, served, row>>

\* The window is stored as msg_for_prompt_{step + 1} and the loop tested.  With
\* max_steps = 1 the step's start time was never taken: the line that logs
\* the durations raises.
SavePartial ==
  /\ pc = "save_partial_traj"
  /\ disk' = [disk EXCEPT !.partials = Append(@, Trajectory(win))]
  /\ IF cfg.max_steps = 1
     THEN pc' = "returned" /\ UNCHANGED step
     ELSE /\ step' = step + 1
          /\ pc' = IF ~done /\ step' < cfg.max_steps THEN "loop" ELSE "save_reward"
  /\ UNCHANGED <<cfg, done, win, full, served, row>>

\* The environment evaluates the task; the reward is stored.
SaveReward ==
  /\ pc = "save_reward"
  /\ disk' = [disk EXCEPT !.reward = TRUE]
  /\ pc' = "save_episode"
  /\ UNCHANGED <<cfg, step, done, win, full, served, row>>

\* The whole conversation is stored.
SaveEpisode ==
  /\ pc = "save_episode"
  /\ disk' = [disk EXCEPT !.final = Conversation]
  /\ pc' = "split_episode"
  /\ UNCHANGED <<cfg, step, done, win, full, served, row>>

TheChunks == Chunks(Conversation, cfg.window, cfg.stride, cfg.max_texts - cfg.max_images)

\* Mutant: a chunk that cannot be written is passed over.
SomeWritten(n) == TRUE

\* The splitter goes on to its manifest.
AllWritten(n) == n = Len(TheChunks)

\* The conversation is split and its chunks are written, or some of them
\* before a file cannot be written.
SplitEpisode ==
  /\ pc = "split_episode"
  /\ \E n \in 0 .. Len(TheChunks) :
       /\ disk' = [disk EXCEPT !.chunks = SubSeq(TheChunks, 1, n)]
       /\ \/ AllWritten(n) /\ pc' = "insert"
          \/ pc' = "returned"
  /\ UNCHANGED <<cfg, step, done, win, full, served, row>>

\* The row names the model of the last answer: a prelaunched model has none,
\* and the undefined name raises.
Insert ==
  /\ pc = "insert"
  /\ row' = cfg.model_pool
  /\ pc' = "returned"
  /\ UNCHANGED <<cfg, step, done, win, full, served, disk>>

\* A call raises: the episode is given up, and run_episode returns.
Raises ==
  /\ pc \in Calls
  /\ pc' = "returned"
  /\ UNCHANGED <<cfg, step, done, win, full, served, disk, row>>

\* The actor is killed.
Killed ==
  /\ pc \in Calls
  /\ pc' = "killed"
  /\ UNCHANGED <<cfg, step, done, win, full, served, disk, row>>

Next ==
  \/ ConfigSaved \/ EnvReady \/ FirstFrame \/ LastStep \/ Ask \/ Answers \/ NoAnswer \/ Stepped
  \/ SaveFrame \/ SavePartial \/ SaveReward \/ SaveEpisode \/ SplitEpisode
  \/ Insert \/ Raises \/ Killed

Spec == Init /\ [][Next]_vars

(***************************************************************************)
(* Properties                                                              *)
(***************************************************************************)
\* Numbers of the frames taken and of the images shown in the window.
FramesTaken == {0} \cup {full[i].images[1] : i \in {j \in DOMAIN full : HasImage(full[j])}}

\* The references stay in step with the dialogue they index: they name
\* exactly the images of the window, in order, after messages before, between
\* and behind them have been removed.
RefsPoint ==
  LET d    == win.prompt_dialogue
      pos  == {i \in DOMAIN d : HasImage(d[i])}
      base == IF win.base_images = <<>> THEN <<>> ELSE <<BaseRef>>
  IN  win.image_refs =
        base \o [n \in 1 .. Cardinality(pos) |-> DialogueRef(Nth(pos, n))]

\* Types, and the references of the window agree with its dialogue.
TypeOK ==
  /\ cfg \in Configs
  /\ pc \in Places
  /\ step \in 0 .. cfg.max_steps
  /\ done \in BOOLEAN /\ row \in BOOLEAN
  /\ win.base_images \in {<<>>, <<0>>}
  /\ \A i \in DOMAIN win.image_refs :
       win.image_refs[i].msg_idx \in 0 .. Len(win.prompt_dialogue)
  /\ Len(full) <= 2 * cfg.max_steps
  /\ Answered <= cfg.max_steps
  /\ disk.frames \subseteq 0 .. cfg.max_steps
  /\ disk.reward \in BOOLEAN
  /\ RefsPoint

\* The window is what one would compute from the whole conversation: its last
\* max_images frames and its last max_texts answers, in their order.  The
\* dialogue kept for the files is the same.
WindowIsLatest ==
  LET last      == Cardinality(FramesTaken) - 1
      Recent(n) == n > last - cfg.max_images
      Shown(m)  == IF IsAnswer(m) THEN m.text > Answered - cfg.max_texts
                                  ELSE Recent(m.images[1])
  IN  pc \in {"loop", "generate", "step", "save_frame", "save_partial_traj", "save_reward"} =>
        /\ win.base_images = IF Recent(0) THEN <<0>> ELSE <<>>
        /\ win.prompt_dialogue = Only(full, Shown)
        /\ win.save_dialogue = win.prompt_dialogue

\* The trainer's rows are the prompts the model was given: for every answer
\* of a stored conversation there is one row, its context is the prompt the
\* answer was given to, and its last message is the answer.  The trainer
\* recomputes the context from the stored conversation with the limits its
\* launch script repeats (limit_images, limit_messages); this needs
\* max_images <= max_texts, which the configurations obey.
TrainedOnPrompt ==
  disk.final # <<>> =>
    Rows(disk.final, cfg.max_images, cfg.max_texts) =
      {Append(served[k], Answer(k)) : k \in 1 .. Answered}

\* The log-probabilities a row is trained with are those of its answer, also
\* when the first answers of a failed trajectory are left out, or others whose
\* log-probabilities or tokens cannot be used.
LogProbsOfAnswer ==
  disk.final # <<>> =>
    \A skip \in 0 .. Answered : \A usable \in SUBSET (0 .. Answered - 1) :
      RowsWithLogProbs(disk.final, cfg.max_images, cfg.max_texts, skip, usable) =
        {[row |-> Append(served[k], Answer(k)), logp |-> k - 1]
           : k \in {j \in skip + 1 .. Answered : j - 1 \in usable}}

\* A row is inserted only for an episode that can be read back: reward, the
\* whole conversation, every frame it names and every chunk are on disk.
RowReadable ==
  row =>
    /\ disk.reward /\ disk.final = Conversation
    /\ \A i \in DOMAIN disk.final :
         \A n \in Range(disk.final[i].images) : n \in disk.frames
    /\ Len(disk.chunks) = Len(TheChunks)

\* A chunk that ends with an answer shows it after the prompt the model was
\* given: the answers kept before a window are "consistent with the rollout"
\* (validation/trajectory_splitter.py:131).  Violated: with windows of
\* max_images turns, the splitter keeps max_texts - max_images answers before
\* a window that itself contains max_images - 1.
ChunkContext ==
  cfg.window = cfg.max_images =>
    \A i \in DOMAIN disk.chunks :
      LET chunk == disk.chunks[i]
      IN  IsAnswer(Last(chunk)) => Front(chunk) = served[Last(chunk).text]

\* What it shows instead: the prompt without the oldest text of a full window.
ChunkContextButOldest ==
  cfg.window = cfg.max_images =>
    \A i \in DOMAIN disk.chunks :
      LET chunk == disk.chunks[i]
          k     == Last(chunk).text
          Older(m) == IsAnswer(m) /\ m.text <= k - cfg.max_texts
      IN  IsAnswer(Last(chunk)) =>
            Front(chunk) = Only(served[k], LAMBDA m : ~Older(m))
=============================================================================
