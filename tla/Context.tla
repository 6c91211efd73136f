------------------------------- MODULE Context -------------------------------
(* What a turn works with: the long-term memory (MemoryEngine, extended), the *)
(* dialogue with the provider (LLMDialogue), the attachments with the rows of *)
(* their conversations (Attachments), and the files that its tools read and   *)
(* change (FileTools). They share no state, so each behaviour is one          *)
(* component's: part says whose, the others stay as they begin. Parts selects *)
(* components for a run.                                                      *)
EXTENDS MemoryEngine

CONSTANTS
  Parts,
  Talks, IdleTalk, Interval, Reach, Recent,              \* of LLMDialogue
  Stocks, IdleStock, Uploads, Contents, Conversations,   \* of Attachments
  Requests, NoContent,
  Desks, OddDesks, IdleDesk, Paths, Turns, MaxLen, Big   \* of FileTools
\* An Idle scene is the one of a part while another part works.

VARIABLES
  part,
  talk, options, pc, turn, round, closing, msgs, reminder, request,     \* LLMDialogue
  reply, at, buf, number, blocks, calls, text, said, attached, loaded,
  stock, table, files, conv, session, cached, memory, runs, where,        \* Attachments
  keys, refs, data, raced, live, crashed,
  desk, disk, left, readFiles, order, cursor, command, before, answer     \* FileTools

dialogueVars == <<talk, options, pc, turn, round, closing, msgs, reminder, request, reply, at, buf,
                  number, blocks, calls, text, said, attached, loaded>>
storeVars == <<stock, table, files, conv, session, cached, memory, runs, where, keys, refs, data, raced,
               live, crashed>>
filesVars == <<desk, disk, left, readFiles, order, cursor, command, before, answer>>
all == <<part, vars, dialogueVars, storeVars, filesVars>>

Dialogue == INSTANCE LLMDialogue WITH Scenes <- Talks \union {IdleTalk}, scene <- talk, index <- number

Store ==
  INSTANCE Attachments WITH
    Ids <- Uploads, Scenes <- Stocks \union {IdleStock}, scene <- stock, rows <- table, pc <- where

FileServers == INSTANCE FileTools WITH Scenes <- Desks \union OddDesks \union {IdleDesk}, scene <- desk

ASSUME ContextAssumption ==
  /\ Parts \subseteq {"memory", "dialogue", "attachments", "files", "odd"}
  /\ Dialogue!DialogueAssumption /\ Store!AttachmentsAssumption /\ FileServers!FilesAssumption

-----------------------------------------------------------------------------
ContextInit ==
  /\ part \in Parts
  /\ talk \in (IF part = "dialogue" THEN Talks ELSE {IdleTalk})
  /\ stock \in (IF part = "attachments" THEN Stocks ELSE {IdleStock})
  /\ desk \in (CASE part = "files" -> Desks [] part = "odd" -> OddDesks [] OTHER -> {IdleDesk})
  /\ Init /\ Dialogue!Init /\ Store!Init /\ FileServers!Init
  /\ part # "memory" => bound

MemoryStep == part = "memory" /\ Next /\ UNCHANGED <<part, dialogueVars, storeVars, filesVars>>
DialogueStep == part = "dialogue" /\ Dialogue!Next /\ UNCHANGED <<part, vars, storeVars, filesVars>>
StoreStep == part = "attachments" /\ Store!Next /\ UNCHANGED <<part, vars, dialogueVars, filesVars>>
FilesStep ==
  part \in {"files", "odd"} /\ FileServers!Next /\ UNCHANGED <<part, vars, dialogueVars, storeVars>>

ContextSpec == ContextInit /\ [][MemoryStep \/ DialogueStep \/ StoreStep \/ FilesStep]_all

-----------------------------------------------------------------------------
(* Nothing the memory was told is lost unless somebody removed it, wrote over *)
(* it from an old reading, or stored a summary that leaves it out; the text   *)
(* of a locked memory is left to the user; and a proposal is decided once     *)
(* (the engine, cut off anywhere).                                            *)
MemoryKept == [](NothingErased /\ DecidedOnce) /\ LockedKept

(* What was to be forgotten is gone, never comes back, and is in no later     *)
(* context (delete_session_memories, the index behind the rows).              *)
MemoryForgets == [](Forgotten /\ NoGhostsRecalled) /\ NoReturn

(* From the chunks of a round come the calls the provider made, each has its  *)
(* result in the next request, and with thinking every round is sent back as  *)
(* it was answered (the stream and the messages of both adapters).            *)
RoundsExact ==
  /\ TypeOK /\ Dialogue!TypeOK /\ Store!TypeOK
  /\ Dialogue!CallsRebuilt /\ Dialogue!CallsAnswered /\ Dialogue!ReplayExact

(* No user message, file or loaded skill is missing from a later request, and *)
(* none has parameters the provider would refuse.                             *)
NothingForgotten == Dialogue!NothingForgotten /\ Dialogue!SkillReminded /\ Dialogue!ParamsAllowed

(* The requests of a turn grow at their end only, and each finds what the one *)
(* before wrote to the provider's cache, with no more marks than are allowed  *)
(* (prompt_cache.py).                                                         *)
CacheReused == Dialogue!PrefixKept /\ Dialogue!CacheReused /\ []Dialogue!MarksWithinBudget

(* Rows and files agree but for one race, a run gets the bytes it asked for,  *)
(* and nothing of a deleted conversation is left in the database unless it    *)
(* had a run under way (attachments, delete_conversation).                    *)
StoreClean ==
  /\ Store!LostOnlyByRace /\ Store!PromptComplete /\ Store!NoOrphanFiles
  /\ Store!RemnantsOfLiveRunsOnly

(* An edit that succeeds, of one place or of several at once, replaces what   *)
(* it names and nothing else, one that fails changes nothing, and the pages   *)
(* of a file make up the file (filesystem_server.py).                         *)
FilesExact ==
  /\ FileServers!TypeOK
  /\ FileServers!EditsExact /\ FileServers!AllOrNothing /\ FileServers!PagesCover

(* What the code does not do, see README.md: LLMDialogue, Attachments, FileTools. *)
TemperatureHeard == Dialogue!TemperatureHeard
ScanTold == Dialogue!ScanTold
RefusedAlone == Dialogue!RefusedAlone
FileWhileReferenced == Store!FileWhileReferenced
HistoryDeleted == Store!HistoryDeleted
BatchAsListed == FileServers!BatchAsListed
RestKept == FileServers!RestKept
OnlyPlace == FileServers!OnlyPlace
EditsKnown == FileServers!EditsKnown
NewestShown == FileServers!NewestShown
FailureIsError == FileServers!FailureIsError
KilledIsQuiet == FileServers!KilledIsQuiet
=============================================================================
