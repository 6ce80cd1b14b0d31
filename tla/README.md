# TLA+ models of txn_box

txn_box (`src/plugin`) is a plugin of Apache Traffic Server (ATS).  A YAML
configuration is compiled into trees of *directives*; each is invoked at a hook
of a transaction, extracts *features* of the transaction (strings, numbers,
addresses ...), compares and modifies them, and changes requests, responses or
its own later behaviour.  Configurations are replaced while transactions run.

The modules here describe the parts of txn_box that are hard to test: what runs
concurrently, what outlives what, and in which order things must happen.  TLC
checks them on small instances; the theorems in the `*Proofs` modules hold for
every value of the constants.

    tlc -config TxnHooks.cfg MCTxnHooks.tla       # one run of PROJECT.json
    tlapm TxnHooksProofs.tla                      # one module of proofs

## Inventory of the system

| component | state | operations | interacts with |
|---|---|---|---|
| **Transaction context** (`Context.cc`, `Context.h`) | `_cfg`, `_cur_hook`, `_terminal_p`, `_global_status`, `_hooks[]` (`hook_set_p`, `cb_list`), arena, transient buffer, captures, variables | `enable_hooks`, `ts_callback`, `invoke_for_hook`, `invoke_for_remap`, `invoke_callbacks`, `on_hook_do`, `extract`, `commit`, `storage_for` | ATS (hooks, events), the configuration, every directive |
| **Plugin entry points** (`txn_box.cc`, `txn_box_remap.cc`) | `Plugin_Config`, its mutex, `Plugin_Reloading`; remap instances, `Remap_Cfg_Cache`, `_remap_ctx_storage_required` | `CB_Txn_Start`, `Task_ConfigReload`, `CB_TxnBoxMsg`, `CB_TxnBoxShutdown`, `TSRemapNewInstance`, `TSRemapDoRemap`, `TSRemapDeleteInstance` | contexts (shared pointer to the configuration), tasks |
| **Tasks** (`ts_util.cc`) | event, continuation and mutex, `Data::_f`, `Data::_active` | `PerformAsTask`, `PerformAsTaskEvery`, `TaskHandle::cancel` | ATS event threads; owned by two directives |
| **Text blocks** (`text_block.cc`) | `_content`, `_last_modified`, `_content_mutex`, `_task` | `load`, `invoke` (post-load), `Updater`, `extract_block`, destructor | tasks, files, contexts (finalizers) |
| **IP spaces** (`ip_space.cc`) | `_space`, `_cols` with their tags, `_last_modified`, `_last_check`, `_space_mutex`; the active row in context storage | `load`, `parse_space`, `Updater`, `Mod_ip_space`, `Ex_ip_col` | tasks, files, context storage, configuration arena |
| **Configuration** (`Config.cc`, `yaml_util.cc`) | directive lists per hook, loaded files, named objects, arenas, scopes of active feature and captures | `load_cli_args`, `load_file`, `parse_yaml`, `parse_directive`, `parse_expr` | everything that is loaded |
| **Feature groups** (`FeatureGroup.h`, `Extractor.cc`) | expressions by key, the order of the dependent ones, values cached in the context | `load`, `load_key`, `extract` | configuration, context storage |
| **with / select** (`Machinery.cc`, `Comparison.cc`, `Rxp.cc`) | active feature, remainder, capture groups | `Do_with::invoke`, comparisons | context |
| **Directives** (`Machinery.cc`, `query.cc`) | none of their own | field, URL, status, body, redirect, proxy-reply, when ... | ATS headers, `on_hook_do` |
| **Modifiers, extractors** (`Modifier.cc`, `Ex_*.cc`) | none | value to value; ATS to value | context |
| **Statistics** (`stats.cc`) | table of names, ATS indices | creation at load, lookup at first use | ATS statistics |

What makes each correct:

* Context: a directive that was scheduled in time runs exactly once, at its hook
  and in order; nothing uses a Context that is gone; an event always ends.
* Entry points: a transaction is ruled by one completely loaded configuration,
  which exists as long as it is used, and no longer; reloads do not run backwards.
* Tasks: what a task works on exists while it works, and a cancelled task stops
  and is cleaned up, once.
* Text blocks: content and time belong together, so that no update is lost; a
  view stays good until the transaction ends.
* IP spaces: the same for a space, and a row means the same before and after an
  update; each cell of a row has a value.
* Context storage: two users of a context never share bytes, memory is
  constructed before it is used; a text that is still used is not rendered over, and the
  transient buffer has one user at a time.
* Configuration, feature groups: a key is loaded before it is used, cycles are
  reported, nested scopes are restored on every path.
* with / select: a directive sees the feature of the `with` it is written in, on
  every path out of the ones inside it; the captured text and the remainder are of
  the comparison that hit; a list of directives ends.
* Directives and extractors: each changes and reads the one message its name says;
  a host in two places stays one host; what is not named is kept, in order; the
  client gets the parts of one reply.
* Modifiers: every match, pair or element is treated once.

What is hard about them: threads (transactions, reloads, tasks and the shut down
run on different threads and meet in shared pointers), callbacks that extend the
list that is being walked, destructors that run wherever the last pointer is
dropped, files that change between two system calls, failed loads - and, within a
transaction, one active feature, one terminal flag, one set of captures and one
text for a reply, shared by directives that nest and follow each other in any order;
tokens of texts that are cut, replaced and put together again.  The list of
hazards, each at its line, is in `PROJECT.json`.

## The modules

### TxnHooks: the life of a transaction

One transaction, from `CB_Txn_Start` or the first remap instance to `TXN_CLOSE`.

| in the model | in the code |
|---|---|
| `ats`, `atsHooks`, `started`, `ruleIdx` | ATS: the hook it is at, the hooks the continuation was added to, the entry points it called |
| `ctl`, `pos`, `todo` | the loop that is running and its position; what the directive being invoked can still schedule |
| `ctx`, `global`, `curHook`, `terminal`, `status`, `hookSet`, `cbList` | members of `Context` |
| `answer` | what was given to `TSHttpTxnReenable`, or returned from `TSRemapDoRemap` |
| `CB_Txn_Start`, `TSRemapDoRemap` | the two places where a Context is made |
| `AtsDelivers` / `AtsPasses` | `ts_callback` starts, or ATS has nothing to deliver at that hook |
| `InvokeRuleDirective`, `InvokeTopLevel`, `InvokeCallback` | one iteration of the three loops |
| `Schedule` / `NotReached` | `When::invoke` and `on_hook_do`, or the branch with the `when` is not taken |
| `HookDone`, `RemapDone` | the end of the event |

A directive is abstracted to what it can do to this state: the schedulings it can
reach in order (`Whens`), whether it can mark the context terminal (`MayEnd`) or
set the status (`MayFail`); each is a choice at run time.  The configuration is a
constant, so that the theorems hold for all configurations.  A transaction is
sequential (it has a mutex): the interleaving here is the one of loops with the
lists they extend.

`Deferred` is the abstract promise of `when`: what is scheduled for a hook that is
not over happens there, once, in order, before the transaction moves on.
`KeepsPromise` says that TxnHooks implements it; the mapping makes a slot of every
entry of a callback list (due, done, late).

* `NoCallbackLost`, `ScheduledOrder`, `ContextLife`, `RuleCutShort`, and the
  liveness property `ContextFreed` (run `txn_hooks`), which needs that every list of
  directives ends.
* `ContextFreed` depends on the configuration: TLC checks it for one in which
  directives chain; a `when` holds its directive by value, so that the nesting of a
  configuration, and with it every chain, is finite.
Configuration of the run (`MCTxnHooks`): a directive scheduled from the hook it is
for, one for a past hook, one for REMAP from the global configuration, a chain of
two, a hook only the remap rule asks for, a rule that can stop early and a second
instance on the rule.  Each pair of cases interacts within it; more directives of
the same kinds add only repetitions.

### PluginConfig: reload and shut down

`Plugin_Config` (`slot`), `Plugin_Reloading`, the reload tasks with their program
counters, the transactions with the pointer they copied, and which configurations
exist, are loaded, are destroyed.  Copying the pointer is two steps under the
shared lock (read the pointer, count it): this is what the lock is for, and a store
without it breaks `HandlesAlive`.  A configuration is destroyed in the step in
which its last pointer goes (`Release`).

`Published` is the abstract global configuration: one version in force, a younger
one replaces it in one step, a transaction keeps the one it began with.
`KeepsPublished` is the refinement.

Bounds: two tasks (a reload that acts between the steps of another), two
transactions (one on a version the other no longer gets), four loads (the first
one and enough for two replacements and a failure).  At the bound on loads a queued
task waits for ever and the system may be idle: deadlock is not checked.

### TaskHandle: periodic tasks

The lambda of `PerformAsTaskEvery` step by step, `TaskHandle::cancel` step by step
on the thread that drops the last reference to the configuration, ATS's side of
it (dispatch under the mutex of the continuation, a cancelled event is dropped) and
the shut down, where there is no lock.

| in the model | in the code |
|---|---|
| `refs`, `taskRef` | the shared pointers to the configuration, that of the functor |
| `event`, `lock`, `data`, `active` | the event, the mutex of the continuation, `Data` and its `_active` |
| `pc`: `Dispatch`, `TestActive` ... `Cleanup` | the lambda and the functor in it |
| `cpc`: `TryLock`, `CancelEvent`, `Unlock`, `DeleteData`, `Signal`, `CancelStopped` | `cancel` |
| `canceller` | its thread: in the functor ("task"), on the thread of the event between two events ("pool"), another |
| `tried` | what `TSMutexLockTry` gave `cancel` |

The branches of `cancel` are those of the code, not of its comments: `TSMutexLockTry` returns
a `TSReturnCode`, and `TS_SUCCESS` is 0, so the test at `ts_util.cc:997` holds when the mutex was
*refused*.  Then the event is cancelled, a mutex that this thread does not have is unlocked and
the data deleted, while the lambda runs.  When the mutex was *got*, also recursively within
the lambda, `_active` is cleared and the mutex kept: the next dispatch cleans up, if it is on
the thread that has the mutex, and can never run otherwise.

* `DataAlive`: unless `cancel` was refused the mutex, neither the lambda nor the functor outlives
  its data, `cancel` finds it, and it is deleted at most once.
* `BlockAlive`: the functor does not work on a directive that is gone; without premise.
* `CancelTakesEffect`: in the end the functor is not called any more, the event is cancelled and
  the data is deleted - the latter two (`Reclaimed`) unless another thread keeps the mutex.
* `TaskNotRunning` is what the comment at `ts_util.cc:999` says; run `task_handle_self` refutes it.
* `TaskNotCalledAgain` (proved only): a task that lost its data under a call is not called again,
  only the call that is under way sees it.

The three properties that hold are checked in the composition (run `text_block`), `TaskNotRunning`
in TaskHandle by itself.  Reading `_active` of deleted data gives either value; of what a functor can do that is destroyed
under its call only that its weak pointer has nothing to lock any more.  `TSMutexUnlock` of a
release build does not look whose the mutex is.

### TextBlock: a file, a task, transactions

Extends the state of TaskHandle (`T == INSTANCE TaskHandle`) with the file, the
members of the directive and the Updater; every action of the task is one of
TaskHandle's, so that its theorems hold here (`TaskImplemented`; references to the configuration
are the slot and the transactions, any number of them).  A version
number stands for both content and update time of the file; whoever changes the
file may also make it unreadable or take it away.  A string is destroyed with its
last pointer; a transaction keeps those it extracted until it ends.

Bounds: two transactions; three versions, so that there can be one before a check,
one during it and one the next check has to find.  A transaction ends on a thread
that is not that of the event; a reload may be on either.  `HasText = TRUE` is the richer
case (with FALSE a block that cannot be read fails to load and never gets a task).

### IpSpace: a file that is parsed while it is read

| in the model | in the code |
|---|---|
| `disk`, `access` | the file: a version (content and update time), and whether it can be read |
| `tags`, `defining` | `Column::_tags` of the enum column; the task is inside `Lexicon::define` |
| `spaces`, `space` | every `SpaceInfo` that was made; which one `_space` points to |
| `lastMod`, `mtime`, `early` | `_last_modified`, the local in the Updater, a dispatch before `_duration` was over |
| `pc`, `line` | where the thread that loads, later the task, is; the line `parse_space` is at |
| `store`, `saved` | `CtxActiveInfo` in context storage; what each `let` in `Mod_ip_space` restores |
| `LoadContent`, `LoadStatus` | `load`: content first, time second |
| `ParseRow`, `BeginDefine`/`EndDefine`, `SkipLine`, `ParseEnd`, `ParseFails` | an iteration of `parse_space` |
| `TooEarly`, `Due`, `Status`, `Load`, `Publish`, `KeepTime` | `should_check` and the Updater |
| `Enter`, `Extract`, `Leave` | `Mod_ip_space` around the extraction of its expression, and `ip-col` in it |

What is shared is unusual: the tags of an enum column belong to the directive, not
to the space.  A parse adds to them, also one that fails; rows of all spaces hold
indices into them.  `RowsKeepMeaning`, `SpaceComplete`, `ColumnValue` say that this
works; that readers take no lock while a tag is added is among the findings.

Bounds: one transaction (transactions share nothing they change) with two nested
modifiers; two addresses, so that rows overlap; three versions of the file, one
good, one that defines a tag and then fails, one that is good up to an empty line
and uses the tag of the failed one.  No tags are declared: with declared tags
nothing is added and the hazard is gone (the proofs cover both).

Assumed: `should_check` comes too early at most once in a row (the period of the
task is the duration it tests), the clock is not set back, and `IPSpace::fill` of
libswoc keeps the rows addresses have.

The life time of its task is that of TextBlock (the destructors and the weak pointers are
the same) and is not repeated here: the task of IpSpace is not cancelled.

### CtxStorage: reserved memory of a Context

| in the model | in the code |
|---|---|
| `required`, `span`, `has` | `Config::_ctx_storage_required`, the `ReservedSpan`s it handed out, what was loaded |
| `owner` | the configuration whose span the static of `tcp-info` keeps |
| `remap` | `G._remap_ctx_storage_required` |
| `base`, `size`, `store`, `overflow` | `Context::_cfg`, `_ctx_store`, `_overflow_spans` |
| `counted`, `used`, `wrong` | for the properties: the rules counted, the configurations used, whether a user found something else |

Memory is counted in words of 8 bytes.  Users find their span in three ways, which
is what the hazards are about: in the loaded object (`"own"`: a feature group), by
asking the configuration of the Context (`"base"`: query-filter, ip-space), or in a
static (`"static"`: tcp-info).  A word of memory holds what was written last, and a
status that other data was written over is any BOOLEAN.  So is the status in front
of overflow memory, which is 4 bytes long where 8 are read.
`Remap_Static_Config` is a configuration in which nothing is reserved.

`CountedFits` and `OwnObject` hold as long as a Context uses the spans of one
configuration (`SpansApart`, which `OwnObject` rests on, is proved); run `ctx_storage_shared` shows what happens when a remap rule joins.
Bounds: one global configuration and two rules, one counted when the Context is made
and one not; three users, of each kind and of two sizes.

### FeatureGroup: keys that refer to each other

`load_key` and `load_expr` call each other: `stack` is their frames, each a key and the
`this` extractor its expression is at.  `info` is `Tracking::_info`, later `_expr_info`;
`order` is `_order_idx`, later `_ordering`; `features` is `State::_features`, `fill` the
position in the loop that fills it, `asked` the key that made it run.

| in the model | in the code |
|---|---|
| `Describe`, `DescribeFails`, `Described` | the loop of `load` over the keys of the directive |
| `LoadRoot`, `Descend`, `Circular`, `MissingKey`, `ParseFails` | `load_key` called from `load` and from `load_spec`, its four ways out |
| `Refer` | `load_spec` after `load_key`: dependency and slot |
| `Loaded`, `Persist` | the end of `load_key`, of `load` |
| `LoadAsTuple`, `LoadAsScalar` | the two other forms of a value; their `this` extractors are never bound and give NIL |
| `StartFill`, `FillNext`, `Extract` | `FeatureGroup::extract` |
| `Change` | what the extractors read changes in the course of a transaction |

`Verdict` compares the outcome with a definition that knows nothing of marks or
stacks: what is needed is the least set with the listed keys and all they refer to,
and it can be loaded if no subset of it refers only into itself.  `FoundRight` and
`FoundOnce` say what the slots are for.

Bounds: every value with any of three keys (two listed, one required), each missing,
not valid, a literal, or with up to two references - self references, cycles of two and
three, diamonds and repeated references are all among them.  One change during the
transaction is enough to tell two extractions apart.

### HttpTxn: requests, responses and the directives that change them

`HttpTxn` is a transaction from the request of the user agent to the response: Traffic
Server's steps between the hooks, and at each hook any of the directives that are
allowed there, with any value.  It stands on four modules without behaviour:

| module | what it has | in the code |
|---|---|---|
| `Features` | the values of expressions, their conversions, order and text | `common.h`, `util.cc` |
| `Queries` | the elements of a query: find, set, remove, sort, put together | `query.cc`, `query_value_for` in `ts_util.cc` |
| `HttpMsgs` | URLs, locations, fields, and the host that a request has in two places | `ts_util.cc`, `ts_util.h` |
| `HttpExtractors` | an operator for each extractor over the messages | `Ex_HTTP.cc`, `query.cc` |
| `HttpDirectives` | an action for each directive | `Machinery.cc`, `query.cc` |

| in the model | in the code |
|---|---|
| `hook` | where the transaction is; "FIXUP" are the callbacks of replies at PRSP, "DONE" the end |
| `msgs`, `pristine`, `conn`, `Target`, `Replacement` | the four messages, the URL before remap, the connection, the rule: Traffic Server's |
| `out` | what is set in Traffic Server and not read again: settings, body, cache, address |
| `reply` | status and texts of `Do_redirect` and `Do_proxy_reply`, and their `on_hook_do` |
| `end` | how the directive ended: its Errata, an exception of `std::get`, a loop without end |
| `asked`, `did` | history: what replies asked for; the directive and its value |

A text is a sequence of tokens, so that "a:8080" and "k=1&m" are cut where the code cuts
them; a numeral is one token (`Digit`), and `Token` lists the literals the modules write.  The names in `At(name, hooks, ...)` are the hook masks of the registrations; a value
is any of the `...Arg` constants of its kind, also those an expression that loaded can still
give.  Copies of one pattern (`ua-req-*`, `proxy-req-*`, ...) are separate actions, because
that is where they go wrong: `OwnMessage` compares all extractors before and after each.

* `OwnMessage`: a directive changes what the extractor of its name reads, and nothing
  that an extractor of another message, of the URL before remap or of the rule reads.
* `RequestWhole`: the host in the URL and the one in the Host field do not come apart.
* `QueryKept`: other parameters keep their values, and a removal takes one element.
* `FieldsAsAsked`: after a field directive the field has the values of the tuple, as often
  as it has them, and the other fields are untouched.
* `ReplyTogether`: location and reason of the response are those of the last directive that
  gave one, although the fix ups are scheduled once and share their texts.

Bounds: at most two directives in a transaction (`MaxDo`), and after a reply one more reply
(three are needed for a fix up that is not scheduled again).  Three requests: host in the
URL, in the field, in both, with fields that occur twice.  Values of each type the code
tells apart, with ports beyond 16 bits and locations that do not parse.  The state of
messages is all that a directive leaves behind (and `reply`), so that pairs show what one
can do to the next.  The run stops at an exception or a loop; deadlock is not checked.

### Select: with, comparisons, captures and modifiers

| module | what it has | in the code |
|---|---|---|
| `Comparisons` | captures and remainder; comparisons of texts, numbers, patterns | `Comparison.cc`, `Rxp.cc`, `Context.cc` |
| `Modifiers` | modifiers of a value | `Modifier.cc`, `query.cc` |
| `Expressions` | extraction with modifiers, comparisons and modifiers with expressions in them | `Context.cc`, `Comparison.cc`, `Modifier.cc`, `Ex_Base.cc` |
| `Loading` | which types an expression, a comparison and a modifier load for | `Expr.h`, `Comparison.cc`, `Config.cc` |
| `With` | `Do_with::invoke` on a stack; what directives mean without one | `Machinery.cc`, `Directive.cc`, `Context.cc` |
| `Select` | `With` on these expressions and comparisons: what loads, the context at first | `Machinery.cc`, `Context.cc` |

`With` leaves to constants what it does not look into: `ValueOf` and `Compares` are
`Context::extract` and a comparison, `Loads` and `NewContext` the load and the context of a
hook.  `Select.cfg` gives them `Extract`, `Compare`, `LoadsForAny` and `FirstContext`, which are
defined with recursive operators; what is proved of `With` holds for any.

| in the model | in the code |
|---|---|
| `cx.active`, `cx.remainder`, `cx.src`, `cx.ovec`, `cx.n` | `_active`, `_remainder`, the active and working `RxpCapture` |
| `cx.vars`, `cx.pair` | the variables; the pair that `name` and `value` of a query-filter read |
| `cx.how` | "ok", or what the build makes of the code is not known ("undefined"), or it never returns ("hung") |
| `terminal` | `_terminal_p` |
| `stack` | the C++ stack: lists that are being invoked, and invocations of `with` with what they restore |
| `WithStart`, `WithDo`, `WithEach`, `WithEachEnd`, `WithCases`, `WithEnd`, `ListEnd` | the parts of `Do_with::invoke` between the lists it invokes |
| `Do_use`, `Do_var` | any other directive, with the value it sees; `var` |
| `log` | history of what was seen |

Constants stand for what is outside: `Match` and `Groups` for PCRE, `Hash` for `std::hash`.

* `AsWritten` compares the log with `Means`, which gives each directive the feature of the
  `with` it is written in and has no stack, no flag and nothing to restore.  `Means` is a
  constant that solves its equation, `Means = MeansOf`, where `MeansOf` uses `Means` for the
  lists in a list; in the run it is `MeansOf` itself.
* `Splits`: after a case that compares a text, its directives can put the feature together again
  from group 0 and the remainder (`{*}`), in the order of the comparison (`PutTogether`), except for
  one octet: `set_literal_capture` ends group 0 before the last octet of what was found, where
  `ComparisonReference.en.rst` documents it as the matched string.  `TakenApart` says exactly
  which octet is lost.  `contains` is left out, whose two variants are exchanged (see the findings).
* `EveryMatchReplaced`, `FilterKeeps`: `rxp-replace` and `query-filter` against a
  definition position by position.
* `Ends`: lists of directives end, or get in one of two loops that have no end (`Looping`): a
  for-each over a feature that is no tuple, which `cdr` gives back as it is where `common.h:696`
  says NIL, and `rxp-replace<g>` of an empty match.  From these the list does not come back.

Bounds: programs of one or two directives, with two cases and every comparison and modifier
once, two levels of nesting in a case, in the do, and in both (each combination of
`continue`), and for-each of NIL, of an empty tuple, of tuples and of features that are no tuple, with a variable
that is changed in the loop.  Twenty features of all types.  `MaxRounds` is
the bound on the rounds of a for-each: it cuts only the loop that has no end, where the run then
stays, as the longest tuple has fewer elements.  Number is 0..9, so that a numeral is one token.

### Transient: texts in the memory of a Context

The arena of a Context, and behind what is allocated of it the transient buffer: a text is
rendered there, waits, and is allocated when the buffer is wanted again (`commit_transient`)
or when somebody keeps it (`commit`).

| in the model | in the code |
|---|---|
| `arena` | `_arena` (what is allocated, the remnant of the block in use), `_transient`, and whether `commit_transient` threw |
| `frames`, `extent` | `_transient_writer` with the `base` of each `render_transient` on the stack; how much was written |
| `value`, `subject`, `pieces` | the feature extracted last, what a modifier works on, the texts its result is made of: locals |
| `kept` | texts in `Context::_active`, variables, named objects, the cache of a feature group |
| `spoiled`, `cause` | for the properties: a wanted text was written on; an encoding was refused, or a span was asked for in a rendering |
| `render_transient`, `Write`, `NestedDone`, `RenderDone` | rendering in steps, because renderings nest; the outermost tries again if the text did not fit |
| `Concat`, `Piece` / `Assemble`, `UrlCode` | the modifiers that use the buffer themselves |
| `Keep`, `Cache`, `Use`, `LocalUse`, `Make`, `AllocDirect` | the ways others use texts and memory |

Blocks are given, as all MemArena may get: the remnant of any that has room can be the
next.  A text is where it is and how long; empty texts are nowhere.  `Clients` are the uses
that do not keep to the rules: extractors that allocate in a rendering ("format"),
encodings that are refused ("encode"), allocations that do not look at the buffer while a
cached text waits in it ("direct").

* `TextsIntact`: what somebody still has is not written on.
* `TextsHeld`: a text that is called literal is allocated, any other is too or waits.
* `PendingFits` (proved only): what waits is in the remnant, and is not allocated twice.
* `ThrownForCause`: "Recursive use of transient buffer" is thrown for two causes only, and expressions
  in expressions are none: an encoding that was refused before, or an extractor that allocates
  while it is rendered (a field with duplicates or a text-block in a composite), which always
  throws.  Both kinds of clients are in the run.  Without "direct" the texts are safe; with it
  TLC finds a text that is written on (see the findings).

Bounds: two blocks, of two and four cells, so that a text of up to two is cut by the end of
one and rendered again in the other while a second waits, a third is worked on and a fourth
is kept; two renderings in each other.  The run stops where an exception is thrown or no
block has room; deadlock is not checked.

## What is assumed

* ATS visits the hooks in order, may skip any but TXN_START and TXN_CLOSE, calls a
  continuation only under its mutex and once per hook, and lets no thread run
  when `TSThreadSelf()` is null (the comment at `ts_util.cc:990`).  A mutex of ATS
  is recursive.
* The calls of the ATS API on messages do what their names say: a part of a URL that is
  set is read back, a field that is created comes last, `TSUrlParse` of a text that is no
  URL fails (`UrlText` lists those that are).  Traffic Server makes the request to upstream
  a copy of the user agent's after the remap, with or without the host in its URL
  (`ToUpstream`), and copies the response.
* PCRE finds a match or not, by pattern and text only, and no match if the room for
  groups is too small.
* MemArena allocates from the front of the remnant, and goes on in a block of which nothing
  is allocated behind the place it goes on at.
* Shared pointers count atomically; a shared lock excludes an exclusive one.
* Memory is sequentially consistent for the atomics txn_box uses (their default).

## Fairness

* TxnHooks: weak fairness of the steps of txn_box (a thread runs a callback to its
  end) and of ATS (each transaction is taken to its close).
* PluginConfig: weak fairness of each transaction and task; strong fairness of
  `Store`, which waits for a mutex readers can hold in turn.  `ReloadsStayPossible`
  has the premise that it is free again and again, because nothing in the code
  keeps readers from passing a waiting writer.
* TaskHandle, TextBlock: weak fairness of the lambda, of `cancel`, and of the
  dispatch of the periodic event.  Nobody has to change a file, begin a transaction
  or replace a configuration.
* IpSpace: weak fairness of the task, which ATS dispatches every period, and of the
  loop that parses.  None for readers and for the load: the load may fail.
* Select: weak fairness of the next step: a list of directives is invoked on one thread
  to its end.
* FeatureGroup, CtxStorage, HttpTxn and Transient have no liveness properties.

## What is proved

For every value of the constants, from the assumptions named in the modules:

| module | theorems | inductive invariant |
|---|---|---|
| `TxnHooksProofs` | `TypeCorrect`, `ContextLives`, `NoneLost`, `InOrder`, `CutByItself`, `Refinement` | types, the Context, `hook_set_p` against the hooks ATS has and those that are over, and, for every list, how far it was walked: all before `pos` have run as often as the list was walked, those after it once less; in a rule the terminal flag is set only by what the rule ran |
| `PluginConfigProofs` | `TypeCorrect`, `HandlesStayAlive`, `NeverHalfLoaded`, `Refinement` | at most one reload is between the exchange and the store; configurations are numbered in the order of those; the slot is not assigned under a reader; what is held is not destroyed; what is stored or run is loaded |
| `TextBlockProofs`, the task | `TaskTypes`, `TaskDataAlive`, `TaskNotCalledAgain`, `TaskBlockAlive` | who holds the mutex and where the lambda and cancel can be then; that the destructor runs only when nobody holds the configuration; what `cancel` tried and what follows: who got the mutex leaves data and event to the lambda, who was refused has cancelled the event before the data is deleted |
| `TextBlockProofs`, the block | `TaskImplemented`, `TypeCorrect`, `DataStaysAlive`, `BlockStaysAlive`, `ViewsStayAlive`, `UpdatesKept` | the time the Updater took is not later than the content it loads after it; what is held is not destroyed |
| `IpSpaceProofs` | `TypeCorrect`, `SpacesComplete`, `MeaningKept`, `ColumnsRight`, `NoneMissed` | a space that is being parsed has the rows of the lines before the current one (`FilledTo`), which were good (`GoodTo`); tags only grow; the `let`s of nested modifiers mirror their scopes |
| `CtxStorageProofs` | `TypeCorrect`, `SpansDisjoint`, `RoomForCounted`, `ObjectsKept` | each span is behind its status and before what is still free; the words of a span are untouched with a status that is zero, or its object with a status that is set; the store of a Context has room for what each configuration that was counted requires |
| `FeatureGroupProofs` | `TypeCorrect`, `VerdictRight`, `Fits`, `ValuesRight`, `ExtractedOnce` | no key is tracked twice and all that are, are needed; slots and keys belong to each other; a reference that was followed is loaded and its slot is before that of the key that refers to it; the stack is a path of references among the keys in play; the filled part of the cache is that of the slots |
| `NestingProofs`, `Transient` | `TypeCorrect`, `TextsStayIntact`, `TextsStayHeld`, `PendingStaysInside`, `OnlyCausesThrow` | nothing is allocated of the remnant and what waits is in it; a wanted text is all allocated or is all that waits; while something is rendered the buffer is active, so that all texts are allocated and the writer is behind them; without a cause it is active only then, and an extractor that allocates then throws |
| `NestingProofs`, `With` | `DirectivesAsWritten`, `CasesSplit`, `TextSplits` | what the frames of the stack still have to do, one after the other, from the active feature and the state of now, gives what the whole program means; a `with` whose turn comes finds its feature active; or a for-each over no tuple is among the frames |
| `HttpTxnProofs` | `MessagesTyped`, `LastReply`, `EachItsOwn`, `HostInBothPlaces`, `FieldsSet`, `QueriesKept` | types; which responses are there at which hook; what was asked for last is what the callbacks of replies read, each of them is scheduled or has done its work, and none waits at the end |

In `HttpTxnProofs` most of the work is in the operators: `join`, `Format`, the update of a
query, a tuple matched against duplicates each give a text, or fields, for any value an
expression can yield (`Feature`), and `Min`, `Picked`, `SelectInSeq` are what their names say.
`ReplyTogether` is not inductive, since nothing in it ties the texts a callback reads to those
that were asked for last, or a text to a callback; `ReplyInv` does both.  `OwnMessage` and
`RequestWhole` are about single steps and need the types; they go directive by directive, which
is what they are for: each is a copy of a pattern.  Both have the premise `PlainHosts`, the second
also `PlainLocs`: no host that is given has a port with it.  The code does not look: a host
"a:80" goes into the Host field as it is and is read back as "a".  That the values of the run
keep to the premises is an assumption TLC evaluates.

`FieldsSet` goes along the tuple: for every text, the duplicates kept and the values put in new
fields are as many as the values read so far (`MatchStep`); how often a text occurs is a number of
positions, and two sequences of fields are compared by a map of their positions that keeps the order
(`Aligned`).  In `QueriesKept` an update of a query is a splice: what is before `a` stays, what is
behind `b` is moved by `d`, and no element crosses an edge (`Splice`).  Elements outside are then
the same in both queries (`MovedOn`, `MovedBack`), so other names find the same first element.
Its premise is `PlainQuery`: names and values without separators.  The code does not look at
that either, a value "1&k=2" would be two elements.  Nothing bounds the number of directives, the
fields, or the queries; the texts are sequences of tokens, any strings.

For `Transient` every operation has a lemma of its own, of the kind: whatever was held before is
allocated after.  The theorems have the premise that the clients that write over waiting texts are not
there, that is without "direct".

`DirectivesAsWritten` says that the stack machine of `Do_with::invoke`, with its one active
feature, its one terminal flag and what it saves and restores, does what a configuration says
however `with` and for-each are nested.  `AsWritten` is about the end only.  The invariant
`StackMeans` says of every state that the rest of the program is as it should be: `Unwind` is
what a frame makes of the active feature and the state it gets its turn with, and a `Chain` of
them leads from now to what the program means (`Goal`).  A step pops a frame (`ChainPop`) or
pushes some (`ChainPush`), and there is one lemma per operation; under these are the
equations of the meaning: a list is its first directive and then the rest (`MeansNext`), a
for-each its first element and then the rest (`RoundsNext`), the cases are tried in order
(`FirstHit`).  TLC found no state of the run without the invariant before it was proved.

Its premises are about what is left to the constants.  `MeansEquation`: `Means` solves its
equation; there is a solution, as directives are nested finitely deep.  `Closed`: there are
sets of values and contexts with all that expressions, comparisons and variables make of them,
and in these (`KeepActive`) expressions and comparisons leave the active feature as it is.  That
is what a modifier with cases has to do, as it makes each element active for its comparisons;
TLC evaluates it for the features of the run.

`CasesSplit` proves `Splits` with one premise more, `ComparesTexts`: a comparison with a text is
a miss, or what `Cmp_LiteralString` gives, which is what `Compared` of `Expressions`
does with the value of its argument.  It goes through `TextSplits`, a fact about the
operators alone: `match`, `prefix`, `suffix`, `tld` and `path`, with or without regard to case, cut
any text that they hit in what was found and the rest, also where `tld` takes a dot with it that
may not be there; and `Captured`, that group 0 as `active_group` reads it back from the working
capture that became the active one is what was found without its last octet.

`NoCycle` in `FeatureGroupProofs` is the argument one would give on paper: in a set of
loaded keys that refers only into itself, every key is the target of another and has a
slot; the one with the first slot refers to one with an earlier slot.  Conversely, when
`Circular` refuses, the frames from the key to the top of the stack are the cycle.

The refinements need the invariants: a step that maps to a step of the abstract
module only in states that can be reached (a store is a `Publish` because the
numbers of configurations grow in the order of stores).

Only model-checked: all liveness properties (`ContextFreed`,
`ReloadsStayPossible`, `ConfigFreed`, `CancelTakesEffect`, `UpdateFound`, `TextUsed`,
`Ends`), because tlapm has no rules for ENABLED, which fairness is defined with;
and `EveryMatchReplaced` and `FilterKeeps`, which are about what modifiers do within one value:
they stand on the recursive operators `Extract` and `Compare`, which the prover cannot use.

The assumptions on constants are named in the modules that declare them: `ConfigAssumption`,
`BoundAssumption`, `BlockAssumption`, `FileAssumption`, `StorageAssumption`, `NodeAssumption`,
`TransientAssumption`, `ProgramAssumption` (directives are well formed and in lists, the context
of a hook has the feature it begins with); and for HTTP `NumberAssumption`, `UrlAssumption` (a text that parses gives a
URL), `RuleAssumption` (target and replacement are URLs), `ArgAssumption` (values are features, names
are tokens) and `TrafficAssumption` (requests and responses are messages).  They say of what kind
each constant is.

Only proved: the type invariants, `OnlyLoaded` (no transaction runs on a configuration that
did not load), `TaskNotCalledAgain`, `SpansApart`, `TrackingFits` and `PendingFits`.  They are
invariants that TLC found to hold and no run repeats.

## Findings

With a run that shows them:

| run | what it shows |
|---|---|
| `task_handle_self` | `cancel` takes a refused mutex for one it got: it deletes data under the lambda that runs on it (`ts_util.cc:997`), where the comment says the task is not running |
| `ctx_storage_shared` | spans of a global configuration and of a remap rule are the same memory of a Context (`Config.cc:170`) |
| `http_dups` | a field directive on a message with two fields of the name does not return (`Machinery.cc:1753`) |

What the models contain as the code has it, without a run of its own; a property that is
about the same place says what it leaves out.  Concurrency and life time:

* The other branch of the same test: a `cancel` that got the mutex does not unlock it, and leaves
  event and data to a next run of the task (`ts_util.cc:1006`).  The comment at `ts_util.cc:1034` says
  that a lock that succeeds "can cancel and prevent the lambda entirely".  Got by another
  thread than that of the event, nothing is ever cleaned up.
* At TXN_CLOSE the status is read from the deleted Context (`Context.cc:377`).
* `text_block.cc:242`, `ip_space.cc:693`: the load takes the content first and the time second;
  a write in between is never found.
* Transactions read the table of tags without a lock while the task adds to it
  (`ip_space.cc:477`).
* `Task_ConfigReload` reads `Plugin_Config` for its last message without the mutex, after it
  has let other reloads in (`txn_box.cc:120`), and stores a configuration also after the shut
  down dropped it (`txn_box.cc:150`).
* Extractors that allocate in the rendering of a composite expression (a text-block, a field
  that occurs twice, protocol stacks, the flags of `ip-col`) throw out of `commit_transient`
  (`Context.cc:493`), where `dev-extractor.en.rst:106` says the default format suffices; nothing
  needs to be refused before.
* After an encoding that Traffic Server refuses the buffer stays in use, and the next use of
  it throws (`Modifier.cc:1249`, `Modifier.cc:1319`).
* A text in the cache of a feature group waits in the buffer, and direct allocations go over
  it (`Extractor.cc:354`, `Context.cc:92`).
* `extract_view` allocates the text it commits and leaves it waiting in the buffer too, which
  is then allocated a second time (`Context.cc:257`); as a C string it takes the whole remnant
  (`Context.cc:235`).
* Keys of a feature group are tracked without regard to case and looked up with it
  (`Extractor.cc:75`).

Directives and extractors on messages:

* `HttpRequest::loc` is always empty (`ts_util.cc:470`); `*-url-port` extractors give the host
  (`Ex_HTTP.cc:922`); `proxy-req-loc` reads the request of the user agent (`Ex_HTTP.cc:386`) and
  `proxy-req-query` sets its query (`query.cc:872`).
* Port digits that are written into the Host field are lost (`ts_util.cc:516`); of five digits
  of a port in a tuple the last can be (`Machinery.cc:392`).
* Directives on a value of a query end with an error also when they did their work
  (`query.cc:966`); removing a name that is not there clears the query.
* All three names `ua-req-query-value`, `pre-remap-req-query-value` and `proxy-req-query-value` are bound
  to the extractor of the user agent's request (`query.cc:1069-1071`): a value that is set in the proxy
  request is not read back, and the one "before remap" changes with `ua-req-query`.  `OwnMessage`
  counts all three among the extractors of that request, `QueryKept` reads the query that the
  message has.
* A tuple for a location whose port is no number sets part of it; a value of another type
  than the expression was loaded for throws out of `std::get` (`Machinery.cc:2715`).
* A status of a response that is refused keeps the reason that was just set.
* `proxy-req-port` is not allowed at PREQ, where its request is made.
* Two features that are texts are never equal by `==` of Feature.

Comparisons, captures and modifiers:

* `contains` has its two variants the wrong way round (`Comparison.cc:599`); `path` without
  regard to case keeps a slash at its end (`Comparison.cc:558`); a list of patterns is matched
  with an empty text (`Comparison.cc:857`); `for-none` is `for-all` (`Comparison.cc:1622`).
* Group 0 of a literal capture lacks its last octet, the other groups keep their offsets into
  another text (`Context.cc:400`, against "The matched string" of `ComparisonReference.en.rst:68`), and making room drops what was captured (`Context.cc:388`).
* A for-each over a feature that is no tuple goes on for ever (`Extractor.cc:436`,
  `Machinery.cc:3605`).
* Captures and remainder are not restored after a nested `with`.
* `as-integer` does not use the value it is given (`Modifier.cc:970`); a hash is signed and its
  bucket can be negative (`Modifier.cc:139`); `rxp-replace<g>` of a match of nothing never ends
  (`Modifier.cc:270`); `concat` reads two elements of any tuple (`Modifier.cc:778`); `filter` of an
  empty tuple reads past its end (`Modifier.cc:412`).
* `query-filter` never stores what is to be appended and uses a pair that is not there
  (`query.cc:752`), and its comparisons see the pair before (`query.cc:736`); `query-sort` of an
  empty query takes one from zero.
* The patterns of a list that are literal never ask for room for their groups.
* The check that a group that is referred to exists does not run (`Config.cc:348`), and an
  error in a list of comparisons is swallowed (`Comparison.cc:1330`).

## Plan

The order is that of the damage a fault would do: first what can use memory that is
gone or lose a directive, then what gives wrong values, then the algorithms.

| step | modules | abstract specification or reference | runs and bounds | theorems |
|---|---|---|---|---|
| 1, done | `TxnHooks` | `Deferred` | one transaction, two instances, a chain of schedulings | all safety, refinement |
| 2, done | `PluginConfig` | `Published` | two reloads, two transactions, four loads | all safety, refinement |
| 3, done | `TaskHandle`, composed in `TextBlock` | TaskHandle for the task of TextBlock | two transactions, three versions | all safety, implementation |
| 4, done | `IpSpace` | the rows of the first line for an address | one transaction, three versions, depth two | all safety |
| 5, done | `CtxStorage` | one object per reservation | three configurations, three users | all safety |
| 6, done | `FeatureGroup` | `Loadable`, the least closed set | all values with three keys | all safety |
| 7, done | `With`; `Select` with `Comparisons`, `Modifiers`, `Expressions`, `Loading` | `Means`, definitions by position | all comparisons and modifiers, two levels | `AsWritten`, `Splits`; none on recursive operators |
| 8, done | `HttpTxn` with `Features`, `Queries`, `HttpMsgs`, `HttpExtractors`, `HttpDirectives` | each directive with the extractor of its name | two directives, a third for replies | all safety, for plain hosts and queries |
| 9, done | `Transient` | every wanted text as it was rendered | two blocks, renderings in renderings, four texts | all safety |
| 10 | `ConfigLoad`: files and keys loaded once, scopes of active feature and captures, post-load order, the YAML cache of remap | what is visible where, by nesting | files that include each other, a failure at each step | scopes are restored on every path |
| 11 | `Statistics` | one index per name | two configurations | - |

`TxnHooks`, `With` and `HttpTxn` meet in the Context: `HttpTxn` has the callbacks of replies
that `TxnHooks` has for any directive, and a `use` of `With` is a directive of `HttpTxn`.
`ConfigLoad` gives `FeatureGroup` its keys and `CtxStorage` its reservations.

## Not modelled

* Extractors of the session (`Ex_Ssn.cc`), and those of `Ex_Base.cc` that read the process, a random
  number, a duration or a variable of Traffic Server's configuration: each reads a value from
  the API and keeps nothing; there is no state to go wrong.
* Of `ts_util.cc` the variables of transactions, plugin slots, SSL and logging, which pass calls on;
  `0_static.cc`; the types FLOAT, TIMEPOINT, CONS and GENERIC of features.
* Statistics and the loading of configurations from files: the rest of
  the plan.
* `Context::extract_view` with its options, and `localize_as_c_str`: what they do to the buffer is
  among the findings; an allocation of theirs is one of `AllocDirect`.
* The accelerators of comparisons (`Accelerator.cc`), which nothing calls.
* `Context::_active_ext`, which is written and never read, and the extensions `by-field` and `by-value` of
  the field extractors, with which a field with duplicates is NIL.
* The transform of a response body beyond that it was asked for, with which text.
* The vendored and external code (libswoc, yaml-cpp, PCRE2): used as its interface says.
* The documentation tools, the build files and the tests of the repository.
