# zrush: a TLA+ model of the shell and its worker

zrush shows completion candidates while a command line is typed.  A zsh layer
(`zsh/zrush.zsh`) watches the line editor, captures candidates from zsh's own
completion system, and talks to one persistent worker process per shell
(`zrush worker`, `src/worker.rs`) that stores the candidates, ranks them, lays
them out and lexes the buffer.  This directory models the two sides and the
protocol between them, checks the models with TLC on small instances, and
proves with TLAPS, for every instance, the safety invariants of the worker, of
the shell and worker together, of the transport between them, of the
prompt-time synchronisation, of moves in a listing and of the directory cache.

Paths below are relative to the repository; `behavior.md`, `syntax.md` and
`cli-protocol.md` are those of `docs/internal/`.

## 1. Inventory

| Component | State | Operations | Model |
|---|---|---|---|
| worker session (`worker.rs`) | handshake, namespace snapshot, two candidate slots, history index, current input and its expiry | `hello`, `input`, `flush`, `namespace-snapshot`, `store`, `history-*`, `plan`, `completion`, expiry, end of stream, abort | WorkerSession |
| history index (`history.rs`) | stamp, entries newest first | install, append, window | HistoryIndex |
| input notification and capture (zsh) | `input_gen` with pending/latched/decor, query, pending Tab, capture in flight, what is listed | pre-redraw, notify, send-input, send-flush, start/cancel/finish collection, store, events, line-init, line-finish, dismiss, confirm | InputSession |
| candidate reuse (zsh) | reuse latch with key, epoch and staging; cache latch with fingerprint, directory, age and staging | track, stage, commit, drop, check | InputSession |
| worker transport (zsh) | descriptors, send queue, writer child, pending requests, stop state, callback generations, failure count, taint | start, flush, ack, read, drain, begin-stop, abort, shutdown, finalize | WorkerTransport, over Channel |
| history menu (zsh) | optimistic latch (generation, head, count), unacknowledged appends, synchronous target | reconcile at precmd, open menu, answers | PromptSync |
| namespace (zsh) | signature, payload, queued identity | refresh at precmd, settle, bootstrap | PromptSync |
| selection and completion window (zsh, `plan.rs`) | selected position, window, pending request, queued actions | move, confirm, dismiss, resize, answers | Menu, over Selection |
| framing (both sides) | decoder state | feed, finish, take, encode | Framing |
| records (both sides, `record.rs`) | none | encode, scan, history payload | Records |
| text, matching, ranking, layout, plan, insertion, wire (Rust; the reader of a plan in zsh) | none | functions | Text, Matching, Geometry, Layout, Plan, Wire |
| lexer (`syntax.rs`) | directory cache | tokenize, classify, resolve | Syntax, PathCache |
| configuration and keybindings (Rust + zsh) | values; active layer and predecessors of each key | parse, resolve, print, apply, restore, dispatch | Config, Keybinds |
| compadd capture, build follow, display, entry points | -- | -- | section 7 |

What makes the behaviour hard:

* every answer of the worker arrives later than the buffer it was computed
  for, and is correlated by generation numbers only;
* candidates travel shell -> worker -> shell with a capture subprocess in
  between, and three caches (the listing, the reuse latch, the empty-word
  cache latch) survive parts of that trip;
* the transport may take a frame at once or stall it behind a writer child, so
  notifications are dropped from a queue that also holds requests;
* the worker may die at any time and is replaced lazily, by the next input,
  over FIFOs that keep their names, with descriptors whose numbers are given
  again, while ZLE still has calls to make for the old ones;
* ZLE callbacks, hooks and keys interleave; two functions wait synchronously
  (line finish and the history menu) and handle ordinary messages meanwhile;
* shell history and namespace change without the shell being told, and what
  the worker has of them is inferred from two numbers and a signature;
* offsets count characters, cuts count columns, matches count bytes, and all
  three have to agree on text that need not be valid UTF-8.

The hazards are listed with their lines, and with the properties that watch
them, in `PROJECT.json`.

## 2. Modules

    HistoryIndex --> WorkerSession --> WorkerSession_proofs
         |                |    \-----> MCWorkerSession
         |                v
         |           InputSession --> MCInputSession --> MCInputWords
         |                    \--> InputSession_proofs
         \--> PromptSync --> MCPromptSync
                      \--> PromptSync_proofs
    SequenceFacts --> InputSession_proofs, PromptSync_proofs, Menu_proofs,
                      TransportShell_proofs
    Channel <== WorkerTransport --> MCWorkerTransport      (<== implements)
                      \--> TransportShell_proofs --> WorkerTransport_proofs

    Geometry --> Menu --> MCMenu        Selection <== Menu (in MCMenu)
        \         \-----> Menu_proofs
         \-----> Layout --> Wire --\
    Text ------/                    Plan
        \--> Matching -------------/
    Framing, MCRecords(Records), MCText, MCMatching, MCLayout, MCPlan, MCWire
        --> MCPipeline
    Text --> Syntax --> MCBuffers --> MCSyntax <-- PathCache --> PathCache_proofs
    Config --> MCConfig --> MCSettings <-- Keybinds

**HistoryIndex** -- the history index as a value.  `Install`, `AppendTo`,
`Accepts`, `Holds`, `Window` are the methods of `history.rs`; stamp 0 is the
`None` of an uninitialised index.

**WorkerSession** -- one worker session.  Variables: `phase` (handshake and
end), `namespace`, `slots`, `history`, `input` (the `CurrentInput`; `pending`
is `expiry.is_some()`), `out` (the response FIFO as a sequence of messages).
One action per message kind, plus `SettleExpired`, `EndOfRequests`, `Abort`,
and `Drain` for the reader.  A `store` is one action with its response and the
settle that follows it.  Abstracted: field parsing (a message is well-formed,
has an unusable payload, is an `invalid` request, or is `malformed`), the
layout parameters, and time: a pending quiet period may end before any
message.  A plan is represented by the candidates it was computed from.

**InputSession** -- the shell's input path composed with WorkerSession through
two FIFOs.  The shell's globals are one record `sh`; each zsh function that
changes them is an operator on the record (`InputInvalidate`, `Teardown`,
`ReuseTrack`, `SendInput`, `HandleEvent`, `BeginStop`, ...), and each hook, key
or callback is an action that applies the whole function and then `Commit`s:
the flush at the end of every sender.

| Field or variable | zsh |
|---|---|
| `word`, `env` | the widened collection string; `$PWD` with the cache fingerprint |
| `cur` | `_zrush_input_gen`, `_pending`, `_latched`, `_decor`; `drawn` is `_zrush_syn_gen == _zrush_input_gen` |
| `query` | `_zrush_query`, the word the last notification was made for |
| `tab`, `shown`, `collect` | `_zrush_tab_pending`, the plan, `_zrush_rfd`/`_zrush_collect_gen` |
| `reuse`, `reuseKey`, a pending store's `fresh` | `_zrush_reuse_gen`, `_query`/`_cwd`, staged epoch = current epoch |
| `cache`, a pending store's `env` | `_zrush_cc_cand_gen` and fingerprint/cwd, staged |
| `link`, `ready`, `busy`, `txq`, `pending` | session up / stopping, handshake done, writer child, send queue, `_zrush_worker_pending` |
| `requests`, `candidates`, `inputs` | the three `next_seq` counters |
| `failures`, `disabled` | circuit breaker |
| `line` | whether ZLE is off, editing, or in the line-finish wait |
| `wire` | the request FIFO, a frame held by the writer child included |

`cur.cand`, `tabGen`, `dropped` and `shown.gen` (the input a listing was applied
for) are history fields for the properties.  Choices worth knowing:

* `Edit` is a key *and* the redraw hook that reports it: ZLE redraws between
  keys.  A change made from a descriptor callback (a Tab resolved by a plan)
  sets `edited`, and `Redraw` reports it later; other callbacks may run
  between.
* The reuse key compares `$PWD` only and the model compares `env`; they differ
  only at a new prompt, where the latch is dropped anyway.
* After a stop the old worker is detached: its queue is gone and its remaining
  output is drained unread (`stop_progress`), so the model resets the worker
  at once and keeps `link = "stopping"` until `FinishStop`.  What happens in
  between is WorkerTransport.
* Both ends are one build, so the first message is `ready`.
* A plan with no position is not distinguished from one with some.

**WorkerTransport** -- what InputSession takes for granted: the send queue, the
writes the shell makes itself and those a writer child makes and acknowledges,
the reading of responses with a budget per wakeup and a drain descriptor for
the rest, the two ways of ending a session (the abort and the healthy shutdown
when the script is sourced again), the circuit breaker and the taint.  The
shell's globals are the record `sh`, the pipes and processes `w`.  A
descriptor is a number that is given again once closed, with a tag the shell
cannot see; `calls` are the handlers ZLE has decided to call, with the
descriptor and generation they were registered with.  A frame is a number and
a count of `PIPE_BUF` chunks.  A function that waits in a loop is a state of
`sh.doing` in which the processes run; every other handler is one action.
`Try` adds, to each handler and to each step of a stop, the outcomes in which
one of its system calls fails.  `unread` remembers that a stop could not read its
response: the code only logs that and drops the callback.  `w.handed`, `got`, `emitted`, `handled`, `futile` are for the
properties.

**Channel** -- one direction of that stream as its users see it: items arrive
in the order they were sent, whole, from this session only; what has not
arrived may be withdrawn, and a session may end with anything undelivered.

**PromptSync** -- what is brought up to date before a prompt, and the history
menu.  `history` is the shell's `$history` newest first, `newest` is
`HISTCMD - 1`; commands are stored, replace an equal line, push out the oldest,
or are not stored at all; other shells' lines are imported, `HISTSIZE` is made
smaller, `fc -p` switches the list.  The worker is a HistoryIndex and a
namespace, and answers in order.  The menu waits: while `sync` is set the user
does nothing, and either the answer comes or the session fails at the deadline.
The menu is the history: but it may end before the history does once there were
more lines than the index retains, and lines dropped since may be behind it.
Selections from a sequence (`Sent`, `Without`, a plan's answer) are written as
the elements at a set of positions (`At`), which can be reasoned about.

**Menu**, **Selection** -- moving through a listing of which the shell holds one
window.  A move that leaves the window asks for another and the keys pressed
meanwhile are queued (`Menu`).  `Selection` is the promise: no windows, no
worker, every key acts at once.  `MCMenu` gives the refinement mapping: the
selection the promise is at is the shell's once its queue is replayed.  The
arithmetic of windows, columns and navigation (`layout.rs`, `plan.rs`) is in
**Geometry**.

**Framing** -- both netstring decoders over one byte stream cut into arbitrary
chunks: the worker's, which is fed bytes, and the shell's, which takes frames
from a buffer and whose arithmetic is narrower.

**Records, Text, Matching, Layout, Plan, Wire** -- pure: candidate records with
the shell's encoders, byte strings read as characters of widths 0 to 2 with
invalid sequences, tiers with the one-edit search and ranking, the grid with
its offsets, a plan from a query and candidates, and its serialisation with
both readers.  Strings are sequences of symbolic bytes; a field the properties
do not tell apart is opaque.

**Syntax, PathCache** -- the lexer byte by byte (names such as `sudo` are one
symbol), and the directory cache with other processes changing directories
between any two system calls, over a clock that ticks slower than they do.

**Config, Keybinds** -- what a settings file means, down to what the shell has
once it evaluated the output; and the bindings applied, re-applied and taken
down while other plugins wrap the same keys.

**SequenceFacts** -- what the proofs use of sequences: the domain and elements of
a sequence after appending, concatenating or taking the tail, and induction
over the naturals.  Each module's theorems are in a module of its own, named
after it; those about WorkerTransport fill two (`TransportShell_proofs` has the
invariant and the operations that close, register, end and send).

Definitions whose name ends in `Fault` are not part of any specification: each
is the definition below it with one plausible fault, kept so that every
property can be shown to notice its fault (`PROJECT.json`, "mutants").

## 3. Runs

| Run | Properties | Bounds |
|---|---|---|
| `worker_session` | types; one answer per input, in order, from held candidates; refusals change nothing; history moves forward; pending inputs settle | three inputs, three candidate generations over two slots; index of two lines that evicts; a response pipe of two that fills up; of notifications with stores, and of history writes, each in full |
| `input_session` | six invariants of shell and worker together | three inputs, candidates and requests; two words; one crash, one failed capture; every frame may be taken at once or delegated |
| `input_words` | listing and reuse latch over longer typing | four of each; three words in one environment (symmetric but for the empty one), or the empty word in two |
| `input_liveness` | `ListingArrives`, `TabResolves` | three inputs, one crash, stores may be delegated, no failing capture |
| `transport` | `TransportIsSound`, refinement of Channel in both directions, `StopEnds` | two sessions, three frames and three messages each (`RequestParts`: the second over `PIPE_BUF`), a FIFO of one chunk, one message per wakeup, one fault of any kind |
| `sync` | `HistoryIsExact`, `WorkerIsInStep` (`LatchIsHeld`, `UnackedIsExact`, `NamespaceIsCurrent`) | four commands or changes, seven requests, one unanswered append at most, three lines (one excluded), of which the index retains three in all, three namespaces (one refused), one lost session besides the deadlines |
| `menu` | `KeysActInOrder` (refinement of Selection), `PendingIsCurrent`, `ScrollIsMinimal`, `EveryMoveEnds` | two lines with listings of seven and three candidates, windows of one to four rows, one resize, three requests |
| `pipeline` | one property per stage, each against a reference definition | streams of eight bytes with lengths that overflow; payloads of five pieces or two compadd calls; strings of five bytes; queries of three bytes against candidates of five; listings and plans of up to four candidates; plans with one damaged field |
| `settings` | `SettingsTakeEffect`, `LayersAreTransparent`, `AppliedKeysAct` | files of three items; three applications, two plugin layers |
| `syntax` | words, spans and command positions of every buffer; `MissesOnlyWithinATick` | buffers of five or six pieces over three alphabets; two directories, two file names, clock times 0 and 1, two lookups |
| `input_tab`, `menu_unselected` | two statements of the documentation, each violated (section 5) | as `input_session` and `menu` |

Several properties are conjunctions of named parts, each with its own comment
in the module that defines it.

Why the bounds suffice.  InputSession: each property relates at most two inputs
(the current one and one it replaced) and at most two stores for one slot;
three of each leave room for an old, a replaced and a current one, and the
counters reaching `MaxId` is the exhaustion the code handles (`next_seq`), so
nothing is cut off at the bound but executed.  `MaxFlushes` bounds the `flush`
frames unread by the worker.  WorkerTransport: the hazards join one session to
the next, so two; a frame of two chunks over a FIFO of one is the smallest that
can be cut by another; one message per wakeup makes the drain descriptor
necessary with the second message; the third message is the first that resets
the failure count.  PromptSync: the shortest way to a wrong menu without the
continuity check is three changes, and four occur; two appends meet a bound of
one; the fourth line is more than the index retains.  Menu: seven candidates in
windows of two need three windows, and a queue of keys can cross two of them.  Pipeline, syntax, settings: the reference
definitions are compared on every input up to the bound, chosen so that every
branch of the code is taken (cut and stray continuation bytes, zero and double
width, an edit at either end, a group larger than the screen, a history number
wider than its neighbours, a binding that collides again after a fallback).

`CHECK_DEADLOCK FALSE`: a session ends, and with the counters exhausted or the
user idle the system really stops.  `transport` goes on polling.

### Fairness

* Worker: strong fairness of `SettleExpired` -- `select` returns at the
  deadline and `run` settles a due input before each message; only a full
  response pipe disables it, now and then.  Weak fairness of `Drain`.
* InputSession: weak fairness of reading the response FIFO, of the writer
  child's acknowledgement or failure, of EOF, of the end of a capture, of the
  worker's reads, of `Redraw`, of the end of a stop and of the line-finish
  deadline; strong fairness of the quiet period.  The user and the failures
  owe nothing.  `ListingArrives` and `TabResolves` assume captures that do not
  fail: a failed one leaves the input without listing, and a recorded Tab
  unanswered, until the next change of the buffer.
* WorkerTransport: ZLE polls again and again and makes every call of a poll
  (`[]<>(calls = {})`), every wait of the shell ends at its deadline
  (`[]<>(sh.doing = "nothing")`), and the writer child and the worker run.  The
  two `[]<>` conditions stand for weak fairness of the handlers, which are
  always enabled while there is one to run.
* Menu: weak fairness of the delivery of messages, of the resolution of an
  input and of the worker's reads.

## 4. Proofs

Every theorem holds for every value of the constants that the module's named
assumptions allow: positive bounds, a value `Nothing` (`None`) that is none of
the others, subsets that are subsets.  `PROJECT.json` lists what each says of
the program.

| Module | Theorem | Statement |
|---|---|---|
| WorkerSession_proofs | `TypeCorrect` | `Spec => []TypeOK` |
| | `ResolvedHeld` | `Spec => []ResolvedIsHeld` |
| | `EventsOrdered` | `Spec => []EventsInInputOrder` |
| | `PendingUnanswered` | `Spec => []PendingIsUnanswered` |
| | `CaptureAskedOnce` | `Spec => []CaptureAskedFirst` |
| | `HistoryOnlyForward` | `Spec => HistoryMovesForward` |
| | `RefusalsChangeNothing` | `Spec => RefusalChangesNothing` |
| InputSession_proofs | `InputInvHolds` | `Spec => []InputInv` |
| | `TypeCorrect` | `Spec => []TypeOK` |
| | `ListingIsForTheInput` | `Spec => []ListingMatchesInput` |
| | `OnePathPerInput` | `Spec => []OneAnswerPerInput` |
| | `TabIsForCurrent` | `Spec => []TabForCurrent` |
| | `LatchIsOfThisVisit` | `Spec => []LatchFromThisVisit` |
| | `LatchIsHeld` | `Spec => []LatchHeldUntilReplaced` |
| | `OnlyACrashFails` | `Spec => []SessionFailsOnlyByCrash` |
| PromptSync_proofs | `SyncInvHolds` | `Spec => []SyncInv` |
| | `ShellIsRight` | `Spec => []WorkerIsInStep` |
| | `HistoryInvHolds` | `Spec => []HistoryInv` |
| | `HistoryIsShown` | `Spec => []HistoryIsExact` |
| WorkerTransport_proofs | `TransportInvHolds` | `Spec => []TransportInv` |
| | `TransportSound` | `Spec => []TransportIsSound` |
| | `ChannelsAreKept` | `Spec => ChannelsKeepOrder` |
| Menu_proofs | `MenuInvHolds` | `Spec => []MenuInv` |
| | `MovesAreCurrent` | `Spec => []PendingIsCurrent` |
| PathCache_proofs | `TypeCorrect` | `Spec => []TypeOK` |
| | `MissedOnlyWithinATick` | `Spec => []MissesOnlyWithinATick` |

**WorkerSession.**  `TypeOK` and, under it, `ResolvedIsHeld` are inductive: the
only step that takes a generation out of a slot is an accepted store, and it
settles the current input against what it stored.  The three ordering
invariants are not inductive one by one; `OrderInv` is.  It says that any two
messages of the response stream *follow* one another properly (events by input,
the decoration first, a `capture-required` after nothing that settles) and that
every message is *behind* the current input: not ahead of it, and not one that
settles it while it is pending.  The second half is what a step needs to
append: a new event carries the current input's generation, so it may follow
everything already there -- except that a `capture-required` needs the input to
have been pending, or a store to be unable to produce one, because the store has
just put in the slot what the settle looks up (`FoundIsHeld`, `SettledIsHeld`).
`AppendInOrder` and `TailInOrder` carry this over the two ways the stream
changes, and `OrderInvMeans` derives the three invariants.
`RefusalsChangeNothing` needs no invariant but the type of the stream: a step
that adds an `error` is one of the refusing branches.

**InputSession.**  None of the invariants is inductive: each depends on what is
queued, written and pending.  `InputInv` is `Good`, which
has two halves.  `Session` is what holds of a session whatever is being edited:

* `Asked` -- pending requests are told apart by their identifier, and stores
  asked for later have later generations; a store still *fresh* was asked for
  since the word was last left;
* `Framed` -- what the worker has not read, in the FIFO or in the queue, is in
  order: `hello` first and only first, inputs newer than the worker's, requests
  by identifier, each with its pending entry, stores newer than every slot;
* `Answered`, `AnsweredFirst` -- what the shell has not read is in order, and
  responds to requests before those the worker has not read;
* `Latches` -- a latch, and the generation of every store whose `ok` is unread,
  is in its slot or replaced there by one whose `ok` is unread;
* `Meanings` -- whatever candidates a latch, or a pending store that will set
  one, names, were captured for the word and environment of that latch.

`Now` is what holds of the current input: it is awaited, captured or stored for,
one at a time; all candidates that may be listed for it -- named by it, in a
store bound to it, in an unread plan for it -- are of its own word and
environment (`Target`).  With `Recorded` and `AsSent` (the buffer is the one the
input was sent for, until something edits it) this is closed under every step,
and the seven invariants follow from it in a few lines each.  The definition
that carries most is `Holds(s, w, g, d)`: generation `g`, in a slot or on its way
there, has data `d`.  It is about frames and slots at once, so that the worker
moving a store from one to the other changes nothing.

The proof has one lemma per operator on the shell's record (what it changes and
what it leaves: `...Fields`), one per function of the shell (`SendInput`,
`RequestStore`, `HandleEvent`, `HandleResponse`, ...: from `Good` to `Good`), one
for `Commit` (however many frames are handed over, nothing is reordered, and a
session that ends leaves nothing behind), one per handler of the worker, and
one per action.  `Kept`, the queue without its notifications, is a recursive
function; that it keeps order and requests is shown by induction over the
length of the queue, with induction stated for sets (`SetInduction`), because
the library's induction theorem takes an operator the provers cannot instantiate.

**PromptSync.**  `SyncInv` follows requests and responses in the order of their
identifiers (`Ordered`), and says what the last of them will leave: the last
unread snapshot of the namespace is the latest one and carries the payload the
signature stands for, and once it is processed the worker holds it or a refusal
of it is unread, which drops the signature; every unread write of the index has
a generation above the worker's stamp, and the last write is the one the latch
names; and the appends the count stands for are the pending ones, unless a
snapshot behind them will begin the count anew.  `LatchIsHeld`, `UnackedIsExact`
and `NamespaceIsCurrent` are read off when nothing is unread.

`HistoryIsExact` needs `SyncInv` and the contents of the index.  `HistoryInv`
speaks of the index that the requests under way lead to (`Ends`), so that the
shell's and the worker's steps each change one end of it only.  Its entries
*lead* the shell's history (`Leads`) if whatever they have in front of a line
that may be sent, the history has in front of it too, and if they have all those
lines as long as they are no more than the index retains; where each line occurs
again does not matter, which is why duplicates, replacements and dropped lines
do no harm.  `Told` says when they do: when a generation is latched and `newest`
is the latched number; and if it is one more, they would with the newest line in
front.
Those are the two comparisons of the code, at the prompt and at the menu's door,
and nothing else the shell knows tells the cases apart: every change of the
history either adds one line in front (`ToldMore`), takes one from the old end
(`ToldShrink`), or begins another history (`ToldSwitch`).  While the menu waits
the entries lead the history, nothing can be sent, and the plan is the last
request (`LastRequest`): its answer lists just those entries.  Two sequences of
which one leads the other have the same first occurrences in the same order, up
to the end of the shorter one (`LeadsAgree`).

**WorkerTransport.**  No part of `TransportIsSound` is inductive.  `TransportInv`
is a statement `Good(p, cs)` about a state of shell and processes and a set of
calls ZLE may be about to make:

* `Handlers`, `Registered` -- a callback is of a descriptor that is open and its
  own kind's; a call that still has the generation of the callback has its
  descriptor, although numbers are given again; unless the runtime is tainted
  every open descriptor has a callback, but for the response that a stop could
  not read (`unread`, which implies `stopping`);
* `Processes` -- the acknowledgement descriptor is open exactly as long as there
  is a writer, which has what is left of the frame handed over last;
* `Piped` -- every chunk in the request pipe is the one *after* the chunk before
  it, the first is where the worker reads on (`ReadsAt`), and the last is before
  where the shell's side writes on (`WritesAt`): the shell itself, or the writer
  child in the middle of a frame.  Only a session being ended may have given up a
  writer there, and it writes no more (`Quiet`);
* `Numbers`, `Queued`, `Coming` -- frames queued continue those handed over, and
  messages in the pipe and in the buffer continue those handled;
* `WriterComes`, `DrainComes`, `Waiting` -- whatever is queued or buffered has
  the open descriptor that will wake the shell for it, and a stop has one until
  it is over;
* `Streak` -- starts since a worker was last heard of are no more than the
  failures counted, and one for the session that is up.  The breaker opens at
  two, hence at most two starts.

Each operation on the state has a lemma of what it changes and one that it takes
`Good` to `Good` for every outcome of its system calls; a handler runs with the
other calls of the poll still to come, so that the lemmas are stated for any
subset `cs` of them.  The refinement adds what a step does to the channels: it
either hands out more of the messages (`Listened`), or is the worker reading on
(`Worked`), or ends the session (`Ended`).  With `TransportInv` in the states
before and after, both ends of a channel are the numbers in order, and a sequence
of numbers in order that is no longer than another is its prefix
(`InOrderPrefix`): so each step is a `Send`, an `Arrive`, a `NewSession` or a
stutter of either Channel.  Frames have one or two
chunks (`RequestParts`); capacity, budget and the bounds are arbitrary.

**Menu.**  `PendingIsCurrent` is about the shell alone and yet needs the worker: a
listing that arrives while a move is pending may leave nothing selected, and
that it is then another listing than the one the move began in depends on what
was under way.  `MenuInv` consists of

* `Moving`, `Queued` -- the property itself, and that an input is the last one
  notified or none;
* `Listed` -- the listing that is shown, and the one a pending move began in, has
  been *delivered*: its input is not ahead of the worker's, is settled if it is
  that one, and every listing on its way is of a later input;
* `Ahead`, `Behind` -- inputs reach the worker in order and newer than its own; an
  input is listed once, and windows of it come after its listing, not before.

A key that leaves the window, however many queued keys are worked off on the
way to it, changes the shell by `Acts`: at most one move, of this line and input.
The queue is a recursive function (`CompletionDrain`), and `DrainDrains` is an
induction over the keys: when they are all gone through, either a move is
pending or none is left.  Nothing is used of what a plan shows, so Listings,
Windows and Keys are any.

**PathCache.**  The invariant says when the entries cached for a directory are
those it has: whenever the cached time is the directory's and the entries were
read in a later tick than that time.  A lookup adds, for each directory of PATH
it has passed, that the command was not there throughout, that the directory
could not be read, or that the command was missed within a tick.

What stays with TLC.  Liveness: the proof system does not reason about fairness
and ENABLED.  The functions
written with recursion over data (Framing, and every stage of `pipeline`,
`settings` and `syntax`): what they compute for every input is again such an
induction.  `ScrollIsMinimal` of Menu (with its `TypeOK`) and the refinement of
Selection: what a window shows comes from the folds and the bisection of Geometry
(section 8).

## 5. Where documentation and code differ

Shown by a run:

* **A Tab before the candidates arrive is recorded** (`behavior.md:787`).
  Between the end of a capture and the plan of its store it is not: it acts on
  the previous listing or goes to the key's predecessor (`input_tab`).
* **After a change of the input the listing starts unselected**
  (`behavior.md:620`).  A key pressed on the old listing, before the new one
  arrives, may ask for a window under the new input; its answer becomes the
  first listing, with a selection (`menu_unselected`).

Met while modelling, without a run:

* The comment at `zrush.zsh:994` says a latch only names a generation the worker
  holds.  Between the worker's replacing a slot and the shell's reading the
  `ok` it names the replaced one.  What holds is `LatchHeldUntilReplaced`: then
  the replacing store is still pending.  The cost is one `capture-required`.
* `behavior.md:420`: `capture-required` invalidates the latch that was named.
  The code drops whichever latch is current, possibly a newer one that the
  worker does hold.  The cost is one capture.
* `syntax.md:48`: an `Escape` is the backslash and the byte behind it.  When
  that byte begins a wider character the token ends inside the character, its
  offset reads 0, and the escape is not drawn; `SpansReadTheTokens` leaves
  escapes out for that reason.
* `syntax.md:82`: a word with a substitution or backtick is not resolved as a
  literal path.  Inside double quotes `$name` and a backtick are kept as bytes.
* `syntax.md:50`: quotes inside a substitution have the boundaries they have
  outside.  A backslash escapes in single quotes too there, so a single-quoted
  string that ends in one hides its closing quote.
* `behavior.md:213`: requests of a failed session are discarded and not
  replayed.  A capture child inherits the write end of the request FIFO
  (`zrush.zsh:723`) and is signalled but not waited for; while it lives, unread
  frames stay in the FIFO, and a session opened meanwhile reads them.
* A plan that arrives during the line-finish wait resolves a recorded Tab, and
  so may edit a line that was already accepted.  No document speaks of it.
* Commands that change both `HISTCMD` and the number of entries back to what
  they were (an `fc -p` followed by `print -s` within one command line) are
  taken for no change by the menu.  With `HIST_IGNORE_ALL_DUPS` an index kept by
  appends holds the duplicates that the shell has dropped, and the limit of the
  menu counts them, so that it may show fewer lines than after a snapshot.
* `behavior.md:203`: after its deadline a stop goes on in the callbacks already
  there, driven by readiness.  When a read of the response fails
  (`_zrush_worker_stop_progress`, status 2, `zrush.zsh:1598`) the data callback is
  dropped and the descriptor stays open: nothing drives that stop any more, the
  transport stays `stopping` without being tainted, and no worker is started until
  a further call of `_zrush_worker_shutdown` finds the end (`ShutdownAgain`).  `StopEnds` and
  `NothingWaitsUnwatched` except exactly this state; without the exceptions
  `transport` violates both.

## 6. What the checks show

Within the bounds of section 3: what is listed, and what a Tab or a
confirmation acts on, belongs to what is being edited; the shell never breaks
the protocol on its own account; the two directions of a session are ordered
channels of whole frames although writes are shared between two processes; a
stop whose response can be read ends, and only the response of one that could
not read it is left unwatched (section 5); no late ZLE call acts on a descriptor
of a later session; a worker that never answers is started at most
twice in a row; the menu shows the shell's own history whether or not the index
was sent again; the worker ends up with the shell's names whatever order
answers come in; keys pressed ahead of a window act in order; and every stage a
candidate goes through agrees with a definition written independently of the
code.

## 7. Not modelled, and why

* **compadd capture**: a capture is one value, delivered once or failing
  (InputSession), and the encoding of a call is in Records; which words a call
  offers is zsh's completion code.  The zpty child and its signals are not
  modelled, and the transport's FIFOs have no third holder (section 5).
* **Build follow and init**: re-sourcing stops the session and resets its
  counters, which WorkerTransport has; which stamp leads to it, and the files
  the installer writes, are string comparison and I/O.
* **Display**: `POSTDISPLAY` and `region_highlight` strings, rebuilt from the
  plan every time; what they show is checked in Layout and Menu.
* **Entry points and build** (`main.rs`, `lib.rs`, `build.rs`, `verify.zsh`):
  no state that outlives a call.
* TOML parsing, the C library's count of characters on the receiving side of a
  plan, the widths of characters beyond 0, 1 and 2, and colours.
* In WorkerTransport, a failed read of the acknowledgement: the code takes it for
  the writer's death (`_zrush_worker_poll_writer`, status 2), and the model's
  writers die only really.
* In the buffers `syntax` types, substitutions (Syntax has them, no alphabet has
  their bytes) and quoted assignments.
* Tests (`src/*/tests`, about half of the longer Rust files).

## 8. Plan

1. Lemmas about Geometry: a window holds its selected candidate.
