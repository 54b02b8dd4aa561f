# Verification of the ASTER runtime

This directory holds TLA+ specifications of the ASTER runtime, its command line
and its front end (`crates/aster-runtime`, `aster-cli`, `aster-syntax`, `aster-semantics`,
`aster-ir`), the TLC configurations that
check them on small instances, and TLAPS proofs of the properties that matter
most. `PROJECT.json` maps every definition to the lines it models, lists the
runs with their properties, the mutation of the code each property catches, the
hazards and the theorems.

    tlc -workers 2 -config Machine.cfg MCMachine.tla
    tlapm MachineSafetyProofs.tla

## The system

ASTER runs a handler of an agent for one event. The front end parses, checks
and lowers a program to instructions; the *effect machine* executes them and
stops at every effect (model, read, approval, write). A *record session* drives
a machine, decides when an effect may be performed, seals a snapshot before it
and writes evidence to a hash-chained trace. Two callers feed a record session:
a *fixture driver* with canned answers (`aster run`) and a *host session*, which
turns it into frames for an external process (`aster host`). `aster resume` and
`aster host-resume` continue from a snapshot file; `aster replay` executes a
trace again without any effect.

| Part | State | Operations | Module |
| --- | --- | --- | --- |
| Effect machine (`machine.rs`) | frames, pending state, budget, authority, outstanding receipts, pending effect | `step` (18 instructions), `reserve_pending_usage`, `supply`, `snapshot`, `restore` | `Machine` |
| Budget (`budget.rs`) | remaining, open reservations, next id | `reserve`, `settle` | `Budget` |
| Authority (`authority.rs`) | issued and consumed permits, sequence | `issue`, `consume` | `Authority` |
| Record session and trace (`run.rs`, `trace.rs`) | machine, trace, snapshots, phase | `progress`, `admit`, `resolve`, `fail`, `restore`; `rewind_to` | `RecordSession` |
| Replay (`run.rs`) | none kept | `replay_run` | `RecordSession!Replays` |
| Host session (`host.rs`) | record session, outstanding frame, next message id | `reply`, `end_of_input`, `fail_protocol`, `restore` | `HostSession` |
| Host commands (`lib.rs`, `host_io.rs`) | snapshot directory, trace file, state file, pipes | `drive_host`, `persist_host_evidence` | `HostDrive` |
| Fixture driver (`fixture.rs`) | consumed fixtures, call counts | `preview`, `resolve` | `FixtureRun` |
| Run, resume and replay commands (`lib.rs`) | snapshot files, `resume-next.json`, trace, state file | `run_command`, `resume_command`, `replay_command` | `RunCommand` |
| Expression checker (`expression.rs`) and lowering (`lowering.rs`) of one body | lexical environment with moves; source to runtime names | one step per statement, block, arm | `CheckedBody` |
| Lowering to instructions (`lowering.rs`), search for recursion (`checker.rs`) | instructions, next slot, next binding, names in scope; names visited | `lower_expression`, `lower_if`, `lower_match` and the others of RoutineBuilder; `check_recursion` | `Lowering` |
| Parser and formatter (`parser.rs`, `formatter.rs`) | tokens, cursor, declarations read, whether an error was reported | `parse_module`, `synchronize_declaration`, `format_source` | `Syntax` |
| Types at boundaries (`model.rs`, `checker.rs`), JSON and matching (`machine.rs`) | none across calls | `check_type_reference`, placement checks, `decode_json`, `runtime_to_json`, `match_pattern` | `Boundary` |
| Instants (`machine.rs`) | none | `validate_instant`, `add_seconds` and the civil calendar | `Calendar` |
| Duplicate names, metadata of declarations, capabilities of expressions, diagnostics | none across calls | | not modelled |

How they interact: all calls are synchronous and in one thread. The hard
behaviour comes from what happens *between* calls: a process that dies between
two file replacements, a host that performs an effect whose answer is lost, a
reply that arrives twice or cites an earlier effect, an operation that fails
after it changed part of its state, and a long sequence of legal instructions
that reaches a commit with the wrong permit.

What makes each part correct:

* *Parser and formatter*: what is printed reads as what was written, nothing that was
  accepted is lost, and the parser comes to an end after any error.
* *Types and values*: only types that a place admits stand there, whatever they are hidden
  behind; what is decoded has the declared type and survives being encoded and read again;
  the arm that is taken is the one of the value's variant.
* *Instants*: adding seconds is moving along the days of the calendar.
* *Checker and lowering*: a name means the same when it is checked, lowered and
  run, whatever was shadowed or skipped; a proposal or permit that a commit
  consumed on some path is not accepted after it; the flat list of instructions
  does what the tree says, on every path; no accepted program recurses.
* *Machine*: an effect is reserved before it is requested; a write needs a
  permit that a decision stands behind and that is spent once, over crashes and
  restores too; a handler completes only when its writes are reconciled.
* *Budget*: no unit is lost or created, whichever answer is refused halfway.
* *Record session*: a completed trace replays; a snapshot is the machine the
  trace before it describes; the ledger on the trace is continuous.
* *Host session*: frames and session agree; a resolution is applied to the
  continuation its grant was sealed with; a resume goes straight to the grant.
* *Commands*: what a host was entrusted with is on disk; at most one effect is
  in doubt; a snapshot file that is accepted belongs to the trace; a published
  state has its trace on disk.

## Modules

    Budget   Authority        GovernedEffects  (abstract authority protocol)
       \       /                    ^
        Machine --------------------'  refines
    Budget
       |
    RecordSession              HostProtocol     (abstract exchange)
       |        \                   ^
    HostSession  FixtureRun ...     |
       |   '------------------------'  refines
    HostDrive    RunCommand

    Calendar
       |
    Boundary       Syntax     CheckedBody    Lowering      (each on its own)

**Machine** is the virtual machine with one action per instruction and one per
public operation. A program is a constant function from routine names to
instructions, in the form the lowering emits, with one name space for locals and
slots. Values keep their tags (`Ok`, `Err`, candidate, checked, intent,
proposal, permit, receipt, observation), because the guards test them; their
contents are elements of `Data`. Expressions, validators and policy conditions
are tables from data to data. An operation that fails without changing anything
is a stutter; one that fails after a change (`supply` that overdraws or gets a
malformed payload, `commit` without write budget) is an action of its own. `saved` holds
every snapshot taken, and after a crash `Restore` continues from any of them: the code keeps no
record of which was the last, and the commands accept any file whose prefix the trace has
(`lib.rs:384`, `lib.rs:509`). `latest` and `rewinds` say
which snapshot was the last and how often another was restored. They, `charged`, `history` and
`admitted` are ghost variables, read by no guard.

Going back to an older snapshot is going back before a write that a host may have performed
since: the permit of it is unspent and its unit unused there. So two properties count the
rewinds. `AdmittedWritesStayConsumed` holds as long as each restore is of the last snapshot, which
already contains the consumption; `AdmittedWritesWithinBudget` bounds the
distinct writes of all lives by the limit, once more for each rewind, so that nothing but
a rewind gives write units back.

**Budget** and **Authority** are operators on records, used by Machine and (the
ledger) by RecordSession. u64 is `Nat`: conservation shows that no value leaves
the range of the limits, so no saturation or overflow can happen.

**GovernedEffects** says what a caller may rely on: which permits are usable,
which are spent, which receipts are owed, and that a recovery brings back one of the
checkpoints made before.

**RecordSession** keeps the ledger exactly but sees the program as a function
from the answers it accepted to its next stop (a request, an outcome or an
error) and the governance evidence on the way. This is what a deterministic
machine is to its caller, and what `Machine` details. Operations are functions
from session to session (`Progressed`, `Admit`, `Resolve`, `Fail`, `Restored`),
so that HostSession and RunCommand can compose several in one call, as the code
does. `Replays` is `replay_run`. The entry hash is modelled by the trace prefix
it digests.

**HostSession** has the outstanding frame, and each reply checked against it in
the order of the code. `HostInboundFrames` is any host: any message id so far or next,
either session id, any request, and any grant ever issued. **HostProtocol** is
the exchange as the protocol document gives it.

**HostDrive** adds the process: where it is in `drive_host`, the files with one
action per replacement, the pipes, a crash at any point, `host-resume` from any
snapshot file, and a host that conforms (it performs a grant once and gives the
same payload when it is asked again).

**FixtureRun** and **RunCommand** are the other caller: fixtures with matching,
ambiguity and consumption, the files of `aster run`, and `aster resume`, whose
effect on machine and trace is expressed with the session's own operations
(`Resumed`), with the next effect admitted at once and without declared usage.
`aster replay` publishes the outcome of a trace that replays and otherwise changes
nothing (`ReplayTrace`).

**CheckedBody** reads one executable body three times at once, in source order:
the checker's `Environment` (types and moves), the lowering's `bindings` and
`next_binding`, and one run of the lowered body, with its locals. There are no
loops, so all three meet each expression once; a branch that is not taken is read
by the first two only (`live` is false). A behaviour is therefore an accepted body
together with one of its runs: a guard that fails is a diagnostic. A type is the
list of its wrappers ending in data, proposal or permit, and proposals and permits
have identities, so that "the same permit under two names" can be said. The
checker marks only a whole one-segment path as moved: a proposal or permit read
out of a value by a projection, `?`, an enum constructor or a pattern keeps its
first owner (a second commit is then refused when it runs). The history variable
`untracked` collects these identities, and `OneOwner` and `SpentIsUnavailable` are
about all others. Conditions, arithmetic, validation, inference and observation
bind plain data and are the form `unit` here.

**Lowering** is RoutineBuilder as functions on a builder, and a run of the list it
returns: only the movement of values, names and control, with the answers of the
effects left open. An expression is its operands and a form: an operation on
values, an effect, `?`, `if` or `match`; all operations that differ only in the
instruction they push are one (`LowerEffect`), except that inference and calls number
their target before the operands (`LowerInfer`). A program has several routines,
all with the same parameters; a call pushes a frame, and a `?` that meets an Err ends
the run from any of them. Before that, the names each routine calls are collected and
searched for a way back (`Recursive`), with the set of visited names handed from one
branch of the search to the next; what is found is rejected. `Meaning` is the same tree read
directly, given the answers so far, and each run is compared with it. An answer is
Ok (true) or Err (false), so that one value serves `if`, `match` and `?`.

**Syntax** is a text as tokens, read by one action per declaration, with the skip after
a malformed one, and formatted and read again. The grammar is a table from forms to
items (`Forms`, `Repetition`, `TokenClass`), which the parser walks as the functions of
`parser.rs` do, one token ahead, failing at the token where they fail; expressions
are read by the binding powers of the code. A tree keeps what the tree of `ast.rs` keeps:
tool metadata and agent sections are fields, whatever their order was. The formatter
prints a form with the tokens it is read with, and parentheses where `format_expression`
writes them; comments go where `comments_before` finds a place. A literal is a token; its
characters, and the layout, are left out.

**Boundary** is one type at one place of a module with up to two declared types: the
module is checked (`WellFormed`, `SoundDeclaration`, `SoundPlacement`), and if it is
accepted a value comes in from JSON or is produced, is shifted if it is an instant, leaves
as JSON, and is read again where the code reads it again (the state of the next run, the
arguments of a proposal a policy looks at). A `Secret` has no values: nothing in the runtime
makes one. **Calendar** holds the arithmetic of instants, with the literals of the code.
Integers are unbounded here: an addition that leaves 64 bits is an error in the code, as
is a result outside the years 1 to 9999, where such a sum would be.

`MC*` modules hold programs, answers, texts, types and fixtures for TLC.

## Runs

| Run | Question | Bounds |
| --- | --- | --- |
| `machine` | budget, permits, decisions, receipts, refinement; a machine that is stepped suspends or stops | six handlers (governed write with model and approval, two equal writes with a call, branches, refusals, a write that needs no decision before it), usage up to 2, three snapshots and two crashes, each followed by a restore of any of them |
| `machine_receipts`, `machine_observation` | findings below | |
| `host` | every host, and a restore; the recording behind it replays, its snapshots are what the trace describes | three runs (two reads of which the budget allows three or two, an approved write that then fails), replies to any frame, two session ids, two declarations, three reports, one restore of any snapshot |
| `drive` | files, crashes, resumes, termination | an approval and a write, two resumes, so that files of three lives meet in one directory |
| `commands` | fixtures, files, resumes, termination | two programs, seven fixture lists, any resolution, three resumes, replays |
| `checked_bodies` | names mean the same to checker, lowering and run; one owner; spent is unavailable | three names, three statements, blocks or matches, one wrapper, an issued permit to begin with; `List`, `Some` and `Ok` move as a record does, and data comes from a commit, so that neither adds bodies |
| `lowering` | no path reads an unset slot or name, effects in source order, control goes forward, rejected exactly when calls form a circle | 600 bodies: branches and matches of every kind as the value of a `let` or among operands, shadowing, one more level inside; about 200 programs with calls under branches, in arms and as operands; every call graph of three routines |
| `syntax` | formatting keeps the meaning and every part; precedence; the parser ends | every form of expression in every place of every other one, flat expressions of three operators, each declaration with one token missing, doubled or replaced, three metadata or sections in every order, two comments anywhere; one round of formatting |
| `syntax_operands` | finding below | |
| `values` | only what a place admits crosses; decoding gives values of the type and keeps them; arms; instants | 216 pairs of declared types with 4 types over them, and 16 types without declarations, the governance types among them, at every place; some forty JSON documents besides the encodings of values; matches of two arms; two additions of up to 31 years |
| `shadowed_move` | finding below | |

Why the bounds are enough: the interesting cases need two equal proposals, two
effects with equal requests, one effect before and one after a crash, two
dimensions of usage, or a snapshot file of an older life behind a newer one; all
occur (every action and disjunct fires, and each property fails on a mutation of
the code it is about). More restarts repeat the same cases with longer traces.

Findings, each a run that must find a violation:

* `machine_receipts`: two writes of equal proposals share one outstanding
  receipt, so one reconciliation completes the handler.
* `machine_observation`: a receipt can be reconciled with an observation made
  before the write.
* `syntax_operands`: the formatter writes no parentheses around the target of a projection
  or a call, nor around a `commit` or `propose` that is a left operand, so `(-a).b` is
  printed as `-(a).b` and comes back as the negation of a field, against "parse-format-parse
  preserves normalized AST" (`ASTER_CODEX_BOOTSTRAP_PROMPT.md:1260`). `MeaningKept` of the
  run `syntax` says nothing of a text with such an operand (`Exposed`).
* `shadowed_move`: a branch that commits with a permit and then binds the
  permit's name again hides the move from the join; the spent permit is accepted
  after it, and only the machine refuses it.

Where code and documents part ways besides, found while modelling and kept as
exceptions that the properties state, or as a case that a property or a run leaves out:

* An agent with two `state` or two `budget` sections keeps the last, without a
  diagnostic (`parser.rs:439`); `NothingDiscarded` excludes them.
* A type of a prompt result or of a parameter of a secret tool that contains a secret may contain a
  permit or an external value too: the check of boundary data is skipped for it
  (`checker.rs:228`, `checker.rs:394`). The specification has plain data only in a prompt
  result, checked transitively (`docs/spec/aster-0.1.md:213`). `OnlyAllowedCrosses` does not say
  what may stand beside a secret at these two places.
* A policy cannot read the arguments of a proposal that contain a `Checked` or `Observation`,
  or, beside a secret, an intent, a proposal or a receipt:
  types that a tool may take and that `decode_json` has no case for; `ValuesKept` states
  the loss.
* `aster resume` does not go through RecordSession and leaves no evidence of a failure
  (`lib.rs:576`; `docs/spec/aster-host-protocol-0.2.md:299` for the host path).
* A `let` whose name is also a payload-free variant is typed as the enum, never as
  moved, and lowered as the local (`expression.rs:1238`; `docs/spec/aster-0.1.md:150`). No
  name of the instance of `checked_bodies` is a variant; with one, `NamesMeanTheSame` fails.
* A resolution file names only the hash of its request, so one kept from an equal request
  earlier in the run is accepted (`lib.rs:520`), and `resume` and `host-resume` take any older snapshot of the trace
  (`lib.rs:509`, `lib.rs:384`), with the permits and the budget it had: the
  operator's choice in both, and possible in `machine`, `commands` and `drive`.

### Fairness

`KeepsMoving` assumes weak fairness of the machine's own instruction steps: the
callers loop over `step` until it yields. `ConversationEnds` assumes it of the
process (a single loop without waits other than reading) and of the host, which
the protocol document obliges to answer; crashes and broken pipes may happen but
need not. `CommandsEnd` assumes it of the process only. No fairness is assumed
of crashes, resumes or failures.

## Proofs

`MachineProofs` (which begins with the facts about Budget: reserve and settle keep a ledger a
ledger and change its balance by exactly what they say) and `MachineSafetyProofs`
hold for every program, input, grant, limit,
declaration and bound that satisfies the named assumptions of `Machine`.

* `TypeCorrect`: the type invariant. It carries the value tags through frames,
  calls and pending effects, and needs that completions fit their effects.
* `BudgetIsConserved`, `ReservationsEnd`: the inductive invariant `BudgetInv`
  says that limit = remaining + reserved + charged in every dimension, that open
  reservations are those of the pending effect, and the same of every saved
  snapshot, without which a restore would break it.
* `PermitsSpentOnce`, `CommitsDecided`, `AdmittedStayConsumed`: `PermitInv` says
  that every issued permit is numbered below the next number and has a decision
  in the history, that commits and consumed permits correspond one to one, and
  the same of every snapshot and its history. While nothing was rewound the last snapshot
  has consumed every admitted permit, so a restore of it loses none.
* `WritesStayWithinBudget`: `WriteInv` counts writes against what the write dimension has left, the live
  machine and the last snapshot on top of all admitted writes, every snapshot also on its own, which is
  what it gives back: at most one limit for each rewind (`AllLives`). A restore of the last snapshot
  gives nothing back, because a write was admitted by being in that snapshot.
* `CompletionIsReconciled`: `ReceiptInv` ties the outstanding receipts to the
  resolved writes of the history without a later match.
* `EffectsOneAtATime`: `ExchangeInv` states the alternation of requests and
  resolutions for the live machine and for every snapshot with its own history and
  pending effect. Evidence without an exchange leaves the last exchange where it
  was (`LaterExchanges`), a request finds none open and becomes the open one
  (`ExchangeAsk`), and an answer closes the open one (`ExchangeAnswer`).
* `MachineRefines`: every step of Machine is a step of GovernedEffects or a
  stutter under the mapping given in `Machine!Governed`.

`RecordSessionProofs` is about RecordSession and replay, for every program, limits, answer, declared
maximum, reported usage and number of restores. It assumes `RunsAssumption` (a reaction of a
program is a stop with sequences of answers and evidence). Its first part, lemmas
on sequences and on the operations (each gives a well formed session, and extends or keeps
its trace), is cited by the proofs about both callers.

* `CompletedRecordingsReplay`, `SnapshotsAreDescribed`: of every order of calls, those out of
  phase included, which neither caller makes and no run explores. The invariant `Faithful` relates a session
  to what replay computes from its trace. While the machine runs (`RunsOn`) replaying the
  resolved effects gives this machine, and the governance evidence on the trace is the evidence generated
  up to its last reaction, which is still to be written; in front of an effect (`Asks`) the trace has its request besides, and
  after admission (`Waits`) its reservation too. `Tally` counts the four entries per
  effect, which every operation moves together. A snapshot is `Described` by the trace it is bound to:
  `Waits` holds of that prefix, so a restore is back where the session once was. `Alike` leaves the
  checkpoint out of the comparison, as replay seals nothing.
* Replay, the selection of entries by event and the generated evidence are recursive
  functions over positions of the trace. They are unfolded one entry at a time: the
  library's induction theorem cannot be used, but `Induction` proves that a set of numbers that has
  0 and is closed under successor is all of them, from the least number outside of it, and the sets of the numbers for which an equation holds
  are given explicitly. With it the functions are shown to exist, to depend on their prefix only
  and to skip an entry of another event.

`HostSessionProofs` is about HostSession, for every program, session id, request,
grant and reply. It also assumes `NoneAssumption` (no request is the value for
"no request").

* `FramesMatchSessions`: after every operation the outstanding frame is the one
  the phase of the record session calls for. The invariant `HostInv` adds what a
  restore needs: the session and every snapshot are well formed (`IsSession`,
  `IsSuspended`), and the snapshots are those of grants already given
  (`AreGranted`), so that the frame after a resume has its grant. `CanRewind`
  is used only through its guards.
* `HostSessionRefines`: every step of HostSession is a step or a stutter of
  HostProtocol, so a host sees exactly the exchange of the protocol document.
* `ResolutionsAreApplied`: whatever the host repeats, holds back or substitutes and however
  often the session is restored, an accepted answer finds the trace its grant was sealed
  with. While a session waits for a resolution its trace ends with the seal of its
  continuation (`Sealed`), which is also what the grant was given for; `AnsweredBy` says that
  each resolution on the trace was put there by one of the answers, at that place, through
  every extension of the trace and every cut a restore makes.
* `HostRecordingsReplay`: what a session records behind any host replays, because every accepted
  frame is an operation of RecordSession, a refused one ends the session without touching the trace's tally,
  and the snapshot of a resume is `Described`.

`HostDriveProofs` is about the process around that session, for every program, number of
resumes, host and place of a crash, from the same assumptions.

* `TheGrantIsDurable`: `DriveInv` relates the session, the files and what the host was
  entrusted with at every place of `drive_host`. `Written` and `PersistInv` say which snapshots
  of the session are in files at each step of `persist_host_evidence`, and that a grant is sent only
  when the trace is in its file too; `Trusted` says that the snapshot of the grant
  last given is in a file the trace file reaches. That survives the numbering of the
  files by a resumed process because the resumed snapshot is its first one.
* `OneInDoubtAtMost`: `Kept` says that every performed effect whose seal the session's
  trace contains, but the one that is outstanding, is followed by its resolution, so the trace
  file, which is written before the next grant is sent, has it.
* `ResumedSessionsAreSessions`: the two invariants of HostSession hold of
  a session restored from files as well, since only sealed continuations are ever written.
* `ResumableFilesAreDescribed`, `PublishedStatesReplay`: `Recorded` adds to `DriveInv` that the session
  is `Faithful` and that every snapshot file, of whichever life, is described by the
  trace it is bound to. A file that the trace file reaches is bound to a prefix of it, so it is a continuation of
  that trace even when the life that wrote it went another way afterwards. The state is
  written only when the trace file is that of a completed session.

`RunCommandProofs` is about the other caller, for every program, number of crashes and resumes and
list of fixtures; besides `RunsAssumption` it assumes `FixturesAssumption` (a fixture
list is a sequence of fixtures as the loader accepts them), `NoPositionAssumption` (the mark for "no fixture" is no position),
`LimitsAssumption` (limits are natural numbers; in the code they are `u64`)
and `KindsAssumption` (a request is of one of the four kinds and takes a unit of the dimension of its kind, as
`execute_infer` and its siblings reserve it).

* `TemplatesInOrder`: `TemplateInv` adds the fixture between preview and resolve to the consumed
  ones. `preview` takes the least position that matches, which exists because the
  positions are numbers.
* `SucceededCommandsResume`: a trace that ends with a seal has no completion, so the argument is
  which traces complete. `CommandInv` says that a session's trace does exactly when
  its phase does and no continuation has one behind it (`WellEnded`), that every file holds
  the continuation of a suspended program (`DiskInv`), and that a command that writes its files has ended or, if it
  resumes, is at the seal of its first snapshot, which `resume-next.json` has before
  the trace is replaced (`WritingInv`).
  That a crash leaves some file the trace reaches is more: a crashed resume has replaced the one it
  was given. `ReachInv` says that the trace on disk, if it has a seal, and every file begin with the
  checkpoint of a numbered file: the run writes those before its trace and nothing replaces
  them, and a resume keeps the prefix its snapshot sealed.
* `DriverAccountsForAnswers`: that no kind is called beyond what the ledger has given out is not inductive,
  because a call is paid for before it is made. `DriverInv` adds what is owed: the
  calls of a kind, the unit the waiting effect holds and the units that are left are at most the limit;
  all calls and the one admitted are at most the seals; and the consumed fixtures
  can be assigned to the resolutions on the trace one to one. The settlement of an effect keeps the unit it reserved
  spent, whatever usage is reported (`Ledger`, `HoldsOne`, `SameLeft`).
* `CommandRecordingsReplay`, `CommandStatesReplay`: `CommandRecorded` is `Recorded` for
  these commands. `aster resume` rebuilds a session from the file without RecordSession's restore; `Rewound`
  and `Resumed` are shown to be `Faithful` as well, so a run that was interrupted and continued
  records what replay accepts, and no command writes a state file beside any other trace.

`CheckedBodyProofs` is about every body, form of expression, set of names and bound. It assumes
`BodiesAssumption` (the arguments are of types of the model and each proposal or permit among them
has one owner, because it was moved into the body) and `NoNameAssumption`, and its theorems have the hypothesis `NoVariants`: no variable has the name
of a payload-free variant. With such a name they do not hold, as said under the findings.

* `CheckedNamesMeanTheSame`: a name that is right now may be wrong after the block
  ends, when the environment is restored and the lowering's names with it. `BodyInv` keeps, for every
  open block, the scope around it (`Contexts`), says that its names mean the same at
  the end of it (`Meanings`), and that numbers only grow, so that what a block binds
  overwrites no local of an outer name (`Below`, `Extends`).
* `AffineValuesHaveOneOwner`, `ConsumedValuesAreUnavailable`: a block can hide a variable and
  give it back, so `OwnersInv` is about all locals that the body may still use, the hidden ones
  included (`Owned`), no two of which hold one identity (`Sole`). A run that skips the
  branches it did not take resumes with the join of what all of them moved; `Resumable` says for each
  open block that it is safe to resume there.
  Identities in `untracked` are excepted, as in the properties.

`CalendarProofs` has no assumptions. `DayOfCivil` and `CivilOfDay` say that the two
conversions are inverse on every date of every year and on every day, and `AddSecondsMoves` that
`add_seconds` moves an instant by exactly the seconds it is given or leaves the years
1 to 9999. The argument goes through one era: a day of an era is in exactly one year
(`DayHasYear`, `YearHasDay`) and a day of a year in exactly one month (`DayHasMonth`),
so the divisions of the code recover both, and the lengths agree with `DaysInMonth`
(`MonthLengths`, `LeapDays`). The run `values` checks the same against the calendar counted
day by day.

Only model-checked: liveness (`KeepsMoving`, `ConversationEnds`, `CommandsEnd`), which is out of the
prover's reach, and everything about Lowering, Syntax and Boundary (`ParserEnds` included). Lowering, parsing
and decoding are defined with RECURSIVE operators over trees, so that what they compute for
every program, text or value cannot be proved here.

## Not modelled

The characters of the lexer, the layout of the formatter, and the checks of declarations that
are lookups (duplicate names, metadata of tools, policies and agents)
have no state across calls and are left out, as are capability kinds, pure contexts and candidates of expressions in
the checker. Machine relies on none of it: it assumes only that instructions are
well formed. In CheckedBody two proposals are never equal, operands are names, and
a match has one arm with a payload and one without. Encoding
(canonical JSON, JSON Lines, framing, hashing) is modelled by content, so
tampering with files is out of scope: a trace or snapshot file is one that the
program wrote. In Machine instants are numbers; Calendar has their arithmetic. The CLI's argument parsing and the check,
format and explain commands print and keep nothing.

## Plan

1. Done: Machine with Budget, Authority and GovernedEffects, checked and proved;
   RecordSession with replay; HostSession with HostProtocol, HostDrive, FixtureRun with RunCommand,
   and CheckedBody, checked and, but for liveness, proved;
   Lowering, Syntax and Boundary, checked; Calendar, checked and proved.
2. Left: candidates, effects and capabilities of expressions in the checker; the
   evaluation of pure expressions; building capability grants from the command line.
