# A TLA+ model of BX SSH

BX SSH is a desktop SSH and SFTP client: a React window (`apps/desktop/src`), a Tauri
process in Rust (`apps/desktop/src-tauri/src`), and two libraries it uses, the SSH
protocol layer (`crates/ssh-core`) and the encrypted store (`crates/persistence`).
The modules here model the parts of it where several actors share state or where a stop
between two steps matters: commands of the window running concurrently on an async
runtime, one task per terminal, the event loop that exits the application, the window's own
asynchronous functions, the queries of the encrypted store and its first start.

## The system

| Component | State | Operations | Talks to | What is hard |
|---|---|---|---|---|
| Connection state machine (`connection_state.rs`) | the stage of one connection | `transition` | held by attempts and sessions | must accept exactly what ssh-core reports |
| SSH session manager (`session_manager.rs`) | one mutex around the attempts and the sessions (owner, kind, stage, cancellation) | `begin_attempt`, `transition_attempt`, `complete_attempt`, `finish_attempt`, `cancel_attempt`, `authorize_session`, `remove_session`, `clear` | every command | ids come from the window; leaks on error paths; authority of the right window |
| start commands (`terminal.rs`, `sftp.rs`, `ssh-core/session.rs`) | where each invocation stands | four `start_*` commands, `cancel_ssh_connection` | session manager, server, window channels | a cancellation or the exit between any two awaits; deadlines |
| Terminal manager and task (`terminal.rs`) | map id -> queue sender; the task owns the connection | insert, `send`, `close`, `close_all`, `run_session` | session manager, AppActivity | bounded queue, close racing the task's own end |
| SFTP manager (`sftp.rs`) | map id -> shared connection behind a mutex | insert, operations, `close_sftp_session`, `close_all` | session manager, AppActivity | reference counts, lock held by a transfer, authority checked before two awaits |
| Exit (`lifecycle.rs`, `lib.rs`, `desktop_shell.rs`, `App.tsx`) | activity counts, approval, dialog | close button, tray and menu, ExitRequested, `confirm_app_exit` | all managers | counts read without a lock; cleanup with a deadline; a second confirmation |
| Terminal output (`terminal.rs`, `App.tsx`) | pending batch, window of batches in flight, two sequence counters | read, flush, acknowledge; receive, parse, acknowledge | command queue, xterm.js | backpressure that must never stick or lose output |
| Connection flow of the window (`App.tsx`, `ConnectionLaunchDialog.tsx`) | a generation counter, the launch claim, the session on display, one view state | launch, probe, trust, authenticate, connect, cancel, close | all commands | late answers, and awaits that nothing on the screen shows |
| SFTP transfers (`ssh-core/sftp.rs`) | temporary and final files | upload, download, hash | server, file system | check then rename, failure after rename |
| Host trust (`terminal.rs`, `repository.rs`) | fingerprint table | probe, look up, trust | repository | check in one query, write in another |
| Repository (`repository.rs`, `connections.rs`) | groups, connections, settings, order | save, reorder, favourite, soft delete, ungroup, settings of a scope | SQLite, behind one mutex | a client writes back a copy that others have changed; revisions that nobody compares; one row that cannot be read hides all |
| Settings and contracts (`contracts/connection.rs`) | none | validate a connection or a group, resolve three layers of settings | window, repository | two lists of rules for one row, in the code and in the schema |
| Database initialisation (`database.rs`, `credential.rs`, `connections.rs`) | data key in the credential store, SQLCipher file, schema version | open or initialise, migrate | OS credential store | a stop or a failure between two steps, another version of the application |
| OpenSSH import (`openssh_import.rs`) | none of its own | parse, preview, import | repository | the section goes before the head and pattern blocks are ignored, unlike in ssh; stale catalogue |
| Updates (`update.rs`) | none of its own | check, install | updater plugin | version changes between check and install |

The properties that make each right are listed module by module below. `PROJECT.json`
lists every hazard with its line.

## The modules

    ConnectionStage   SshSessions --------------.
          \             /      \                 \
         SshSessionManager    ConnectionOutcome   \
                |              ^      \            |
         ConnectionAttempt ----'   SessionLifecycle ---> SessionPromise
                |             implements     implements
         ConnectionAttemptProofs  SessionLifecycleProofs

         TerminalOutput (one session's output) <- TerminalOutputProofs

         SftpTransfer (the files of transfers) <- SftpTransferProofs

         HostTrust <--- ConnectionFlow <- ConnectionFlowProofs
                  implements

         OpenSshConfig <- ConnectionRepository <- ConnectionRepositoryProofs

         ConnectionConfig <- StoredRecords <-.
                              DatabaseInit <- DatabaseProofs

         SequenceLemmas <- TerminalOutputProofs, ConnectionRepositoryProofs, DatabaseProofs

A definition whose name is another definition's name with a suffix (`Flush_KeepsPending`
beside `Flush`) is a deliberately wrong variant of it. No specification uses one; they
show that a property can be broken by a plausible change of the code, and
`PROJECT.json` pairs each property with such a variant.

**ConnectionStage** is `connection_state.rs`: the stages and the transitions
`valid_transition` accepts.

**SshSessions** and **SshSessionManager** are `session_manager.rs`. Every method locks
the one mutex once, so every method is one action. The session id that
`complete_attempt` draws is fresh (it draws again while one is in use), so a session is
named by the invocation of the `start_*` command it was drawn for, and so is the
cancellation object. A call that fails changes nothing and is the negated guard, which
the caller uses.

**ConnectionAttempt** runs any number of `start_*` commands over that manager. A command
is at a stage's entry (the `on_stage` callback, which moves the state machine) or
awaiting its work in a select that polls the cancellation first; every `await` is a
place where anything else may run. The network's answers, key loading and
cryptography are nondeterministic outcomes. The four commands differ in the kind, and
in the first directory listing that the SFTP ones also await.
The window draws a random version 4 UUID for every connection (`Drawable`): two live
commands may present the same id (the manager refuses the second), but an id whose
attempt the exit has already removed is not drawn again while its command winds down.

**ConnectionOutcome** is what such a command amounts to: it connects once, for the
window and of the kind it was called with, or gives up, and none under way connects
once the exit has cleared the manager. ConnectionAttempt implements it (`Abstract`,
`ImplementsOutcome`), and SessionLifecycle extends it, so that it need not carry stages.

**SessionLifecycle** follows a session from there: `Track` (the activity guard),
`Insert` (the manager's map), then for a terminal its task (`TakeCommand`,
`SendersGone`, `LoopBreaks`, `Unregister`, `Deauthorize`, `Release`), for an SFTP
session the references and the lock that operations, close and exit share. A command is
`authorized`, then takes the session out of the map's lock, then sends or locks: three
steps, because the code awaits between them. The exit side has the dialog, the two
checks, and `confirm_app_exit` as a process of its own with its cleanup deadline.
Transfers are counted in AppActivity too, but a transfer holds its session, whose own
guard is then alive, so the count of sessions decides alone. The queue holds writes
(and what else only passes through) and closes.

**SessionPromise** is what the user is promised: a session goes live once and ends once;
the application exits with live sessions only after asking and being told to; a
confirmed exit happens. SessionLifecycle implements it (`Promise`).

**TerminalOutput** is one terminal's output end to end: `TerminalOutputFlow` inside the
loop, the channel, the window's two counters and its chain of acknowledgement calls, and
the command queue they share with input. The window's side of the sequence numbers is
counted separately from the loop's, as in the code.

**SftpTransfer** is `upload_file` and `download_file` with the files they touch: the check
of the target, the temporary file, the copy, the rename, the verification and every error
path. Both functions have the same steps, so one set of actions models them, and the
variable `host` says on what kind of file system the target is, which is where they differ:
the local one of a download, or a server that refuses to rename over a file (as OpenSSH
does) or does not. Contents are abstract: a file knows whose copy it is, how many chunks
it has, whether a write damaged it, and whether it is synced; two files have the same hash
when they agree in the first three. A temporary file nobody will remove is recorded in
`litter`, a history variable, with the reason the code gives for it.

**HostTrust** is the table of host keys under any number of calls of
`trust_host_fingerprint`. `CheckStored` is the query of the command, `SaveFingerprint` the
transaction of the repository, which looks again; either may fail, and the key a server
presents may change at any time.

**ConnectionFlow** is the window between the click and the session. What a function of the
window does between two awaits is one action; `task` holds the functions that await, each
with the host and key it closed over, `owner` whose generation `connectionAttemptRef` is,
`view` what the window shows, including `connectionFlowPendingRef`. It EXTENDS HostTrust: a
trust call of the window is a call there, and starts, proceeds and returns by the actions of
that module. `SessionEnds` may come before the response that names the session, as the
events and the responses of the process travel separately. Two history variables serve the
properties: `confirmed`, the pairs of host and key the user was shown and agreed to, and
`hasty`, that the user went on while something was awaited that the window neither shows nor
blocks: the storing of a key, the look into the vault, or the saving of a password. Why
three properties need it is told with the findings below.

**OpenSshConfig** is the parser of the import: `ParseConfig` goes through the directives as
`parse_config` does, and `Items` resolves every alias as `build_preview` does, with its three
errors (no host, no user, no valid port). Words, quotes, comments and the limits of the file's
size are abstract. Below it stands how ssh reads the same file, taken from ssh_config(5) and
not from this code: `SshEntry` is the first value of each option among the lines before the
first Host line and the blocks that apply to the alias, of which pattern and negation decide.
The two differ on purpose: the import ignores pattern blocks (its preview counts "wildcard
rules ignored"), it offers every section of a name on its own, it lets a section's value go
before the one of the head where ssh takes the first, and it knows no Match or Include.
`PlainFor` says that none of this concerns an alias, and `ReadsLikeSsh` that such an alias is
imported exactly with what ssh would use.

**ConnectionRepository** is the table of connections and groups, one action per command,
and the three clients that read a row, keep it for a while, and write all of it back: the
editor, the password saver, and the import. A row keeps its revision, which the code
increments and never compares.

**ConnectionConfig** is `contracts/connection.rs`: what `validate` accepts as a connection or a
group, what the CHECK constraints of `0001_initial.sql` demand of the same fields, and how
`resolve` lays the settings of all, of the group and of the connection over the defaults. A
text is a value, of which the rules see whether it is blank; `str::trim` and the `trim` of SQL
disagree about that, as one removes all white space and the other spaces only.

**StoredRecords** is the three tables under any sequence of calls of the repository: rows of
connections (the deleted ones too), groups and settings, with the foreign keys between them.
It has what ConnectionRepository leaves out, the contents of a row and the settings of every
scope, and leaves to it what that has, places, revisions and what a client has read. A method
is one transaction and one action. `entered`, the override last saved for an owner, is a
history variable.

**DatabaseInit** is the first query of a start: read the key, look for the file, save a new
key, create and open the file, migrate it, or delete the key again. Any step may fail, the
process may stop at any of them, the version of the application differs from start to
start, and the credential store or the file may be lost by themselves. `reasons` is a history
variable.

## What is checked

| Run | Instance | Distinct states | Shows |
|---|---|---|---|
| ConnectionAttempt | 2 windows, 2 attempt ids, 2 invocations, CONSTRAINT `FirstIsNamed` | 146,764 | `AttemptsAreProgressing`, `OutcomeIsShown`, `CancelStopsConnecting`, `RefusedOnlyAfterClear`, the refinement `ImplementsOutcome`, `CancelledEnds`, `EndsOrAwaitsChannel` |
| SessionLifecycle | 1 session, 2 confirmations, queue of 1, CONSTRAINT `FirstIsConfirmed` | 376,220 | `RegisteredIsAuthorized`, `ReleasedIsForgotten`, `ClosedIsClosed`, `HeldIsAlive`, `NotShutUnderOperation`, the refinement `KeepsExitPromise` (with the fairness of SessionPromise), `CloseReturns`, `UnregisteredIsReleased` |
| TerminalOutput | batches of 2, window of 2, queue of 1, 8 units | 24,651 | `SequencesAgree`, `WindowIsBounded`, `OutputInOrder`, `FullWindowOpens`, `OutputIsShown` |
| SftpTransfer | 2 transfers of 2 chunks, 2 process ids, 1 restart | 99,412 | `TemporaryIsOwn`, `PublishedIsWhole`, `SucceededIsThere`, `NoLeftovers`, `UploadKeepsForeign` |
| ConnectionFlow | 2 hosts, 2 keys, 2 functions, symmetric, CONSTRAINT `Patient` | 868,088 | type, `OneKeyPerHost`, `ConfirmedUnlessHasty`, `NoOrphanSession`, `LaunchesAgain` |
| ConnectionRepository | 2 connections, 1 group, 2 edits, an import file of 3 items, 4 writes | 566,090 | type, `OrderIsDistinct`, `RevisionTellsStale`, `LossIsTold`; and `ParserIsRight` |
| StoredRecords | 2 connections, 1 group, 2 values of 2 settings, imports of 2 | 114,138 | `CatalogIsReadable`, `NearestIsInForce`; and `RulesAgree` |
| DatabaseInit | 3 data keys, 2 versions, 2 restarts, symmetric | 4,760 | type, `DatabaseKeepsKey`, `RefusalIsExplained`, `FileOnlyGrows` |
| DownloadKeepsForeign | the instance of SftpTransfer | | violated, see below |
| ExitWaitsForTerminals | 1 session | | violated, see below |
| NewKeyIsConfirmed | the instance of ConnectionFlow, CONSTRAINT `HostsDiffer` | | violated, see below |
| ImportOverwritesOnlyEndpoint | the instance of ConnectionRepository | | violated, see below |

Each property is explained above its definition. No run repeats the types of SessionLifecycle,
TerminalOutput and StoredRecords, nor `SettingsAreOwned` of the latter (a setting that outlives
its owner shows in `NearestIsInForce`): they are proved for every instance. `ParserIsRight` is an ASSUME of
`MC_ConnectionRepository`, which TLC evaluates before it explores: `ReadsLikeSsh` holds of each of the 66,430 files of at
most five lines out of nine. `PlainIsNotEmpty` beside it shows a plain name next to a pattern
block, and three names that are not plain.
In the same way `RulesAgree` of `MC_StoredRecords` compares the rules of the code
with those of the schema on every combination of fields that either tells apart.

Why the bounds suffice. Commands interact only through the manager's maps and, in pairs,
through a shared id, so two of them meet in every way that a third would repeat; two
windows tell "mine" from "another's". `FirstIsNamed` leaves out only what is there already under
other names, and so does `FirstIsConfirmed` for the confirmations: they break the symmetry by
hand, because TLC's SYMMETRY is unsound for liveness.
Sessions interact only through the exit, which treats them one by one, so TLC follows one, of
either kind, beside two confirmations; what two sessions could do to each other is covered by the
proofs below, which hold the safety properties and the refinement for any number. A
queue of one is full as soon as a command is in it and empty otherwise, which are the
two cases that matter. Eight units of output, in batches of one to three, overrun a window
of two twice over. Transfers meet only at the target and in the temporary paths, again in pairs; two chunks are
the least that make a part of a file which is neither empty nor whole; and one restart, with
the same process id or another, is enough for paths to be drawn again. `MaxSequence` is the
number of paths that many transfers can draw.

In ConnectionFlow two functions can supersede each other, two hosts can be confused, and
two keys can change; a third function would meet either of them as they meet each other,
and the proof below covers any number. `Patient` is the one constraint of a
passing run that leaves something out: after the user has gone on too early (`hasty`) TLC follows the window until a session
opens, and only while the hosts present different keys. Three of the five properties say
nothing of these states anyway, and all five are proved without the constraint. In
ConnectionRepository four writes let a client read, two others change the row and the client
write back, with a group deleted in between or a row deleted and revived; `MaxWrites` is the
bound in the guards. In StoredRecords two values and none are as many as tell three layers and the default apart, an
import of two items (`MaxImported`) can meet one connection twice or two, and one of the
connections a client may send has a name of tabs, as a quoted alias of an import may have, which
only the validation refuses. In DatabaseInit a key that was deleted is never drawn again, so three
keys are as many as three starts (`MaxRestarts` is 2) can draw, and two versions make an older
and a newer application.
`CHECK_DEADLOCK FALSE` stands in a configuration where the system may stop: the application
exits, every invocation is used up, or the server sends no more. ConnectionFlow and
ConnectionRepository never stop, and TLC looks for deadlocks in their configurations.

Fairness. A command's own steps and a spawned task's are weakly fair, because the
runtime keeps polling them. Awaited work is fair only where the code bounds it: the
connect deadline covers name resolution, connection and handshake, the operation
timeout authentication, and the SFTP request timeout the listing. Opening the channel has
no deadline, and `EndsOrAwaitsChannel` says so. In SessionLifecycle an SFTP operation is
assumed to end, since each of its requests has a timeout. The server's own initiatives
(`LoopBreaks`, output) and the user's are never fair. In TerminalOutput the
acknowledgement call is strongly fair, because the senders of the bounded queue are
served in the order they wait (a semaphore), and the loop's biased select takes commands
before it reads.

### Where the program differs from what the repository says

* `DownloadKeepsForeign`. `download_file` looks for the target before it streams the file and
  renames over whatever is there afterwards, so a file created in between is replaced although
  `security/threat-model.md` names an overwrite confirmation. If the verification then fails,
  it is removed. An upload to a server that refuses to rename over a file has no such gap:
  `UploadKeepsForeign` and `SucceededIsThere` hold there, and are stated only for it. A
  program that deletes or rewrites the target under a transfer is not modelled.
* `ExitWaitsForTerminals`. `close_all` uses `try_send`: a terminal whose queue is full is
  not told to close and not waited for, although the test
  `waits_for_session_cleanup_when_closing_all_sessions` says otherwise. In the
  counterexample one write is queued when the confirmed exit drains the map.
* `NewKeyIsConfirmed`. `security/threat-model.md` has a new host key confirmed by the user.
  While a trust call is awaited, the dialog's cancel button works: the user cancels, launches
  another connection and sees its fingerprint, and now the first call answers. The window
  then marks the key on display as known and trusted (`App.tsx` 1345 and following)
  and shows the password dialog, so that connecting neither asks about that key nor stores it.
* `ImportOverwritesOnlyEndpoint`. The dialog of the import offers to "overwrite the host, port,
  and username of existing connections" (`i18n/resources.ts` 730-731). `import_connections` saves
  every configuration with the default settings, so that the connection's own settings are
  deleted, and `overwrite_config` replaces its name by the alias. In the counterexample nobody
  else has touched the connection. (The notes, which an identity file replaces, are not in
  the model.) `LossIsTold` therefore does not count name and settings among what an import is
  to spare.

What `hasty` leaves out is more of this kind, all in the window and all while something is
awaited that it does not show. The answer of a probe or of a trust call is applied to whatever
is displayed by then. A connection started while the password of the first one is being saved,
or after that dialog was cancelled, overwrites `sessionIdRef`, and nobody closes the first
session. A form edited during the look into the vault leaves `connectionFlowPendingRef`
set without a dialog, so that no saved connection can be launched. Connect pressed twice during
the trust call connects twice, and the view takes over the host key of an attempt that was
overtaken. These are behaviours of the model, which TLC finds when `~hasty` is taken out of
a property and `Patient` from the configuration; `confirmed` without `hasty` is the one that a document of the repository speaks
about.

Two observations no run judges. The exit checks count activity guards, and a session gets its
guard only after `complete_attempt` has established it, so an exit decided in between ends
an established session without the dialog; the gap is a few statements long, without an
await, and needs the main thread to run in it (for sessions that are counted,
`KeepsExitPromise` shows that the two checks leave no such gap). And `0001_initial.sql` calls
the revision of a row optimistic concurrency, but no statement compares it, so of two
concurrent edits the later one silently wins; `RevisionTellsStale` shows that comparing it
would be enough to notice, and `LossIsTold` that whatever a client takes away from a connection
without being there to change it is lost only because its copy was of an older revision.

## What is proved

`ConnectionAttemptProofs` proves, for every set of windows, attempt ids and
invocations, with the one assumption that `None` is not itself an attempt, a session or
a stage (`NoneAssumption`): type correctness, the two invariants of the run, its
two action properties, that every session comes from a command of its window
(`SessionsComeFromCommands`), that only the owner cancels (`CancelledByOwner`), and that ConnectionAttempt implements ConnectionOutcome.

The argument. `AttemptTypeOK` is inductive by itself. The other properties follow from
`ConnectionInv`, which TLC checked as an invariant before it was proved: besides the
correspondence of attempts and commands, it relates the stage of an attempt in the
map to the step its command is at. That is the part which makes it inductive: without it the state
machine could refuse OpeningChannel, the one place where a command returns without
finishing its attempt, and the attempt would leak. `AttemptIsAccepted` isolates that
fact, `WorkerKeepsAttempts` says that a command touches no attempt but its own, and
`ConnectionInvStep` has one step per action. `OutcomeStep` maps every step to one of
ConnectionOutcome or to a stutter; `OthersKeepOutcome` is the lemma that a command's step
leaves the outcome of the others alone.

`SftpTransferProofs` proves the six safety properties of SftpTransfer for every set of
transfers and process ids, any bounds, and files of any length, from `SftpAssumption` (the
bounds are natural numbers, another program's file is no transfer's) and `NoFileAssumption`
(`None` is no file and no path). `PublishedIsWhole` is about the target and says nothing of
where it came from, so `SftpInv` adds the way there: a path was drawn by this process with a
number the sequence has passed (`PathsAreDrawn`), so no two transfers own the same one
(`PathsDiffer`), so the file holds what its transfer copied (`TemporaryIsOwn`) and is complete
and synced when it is renamed (`RenamedIsComplete`). On a strict server `PublishedIsOwn` adds
that nobody but the transfer that published a file takes it away. TLC checked `SftpInv` first.
Five actions change nothing but a phase and share the lemma `OnlyPhaseChanges`; the
others have a lemma each.

The first part of `ConnectionFlowProofs` proves the type invariant of HostTrust, `OneKeyPerHost`
and `StoredIsKept` for every set of hosts, keys and calls. Type and one key are inductive together: the only step that writes
adds a key to keys that equal it. The first query of the command plays no part in it.

Its second part proves the five properties of the run of ConnectionFlow for every set of hosts, keys
and functions, and without `Patient`, from `HostTrustAssumption`, `NoCallAssumption` and
`NoTaskAssumption` (`None` is none of the values it stands beside). The invariant `FlowInv` has
two parts. `Shape` holds whatever the user does: types, which kind of function awaits what,
and that a call belongs to the function that awaits it. `Calm` holds until the user is
`hasty`. Its core is that at most one function is `Fresh`, that is, its answer will still be
used (`OneIsFresh`), and that the window shows what this function is about (`FreshFits`); the
answers of the others are dropped by their generation. `HeldFits` ties the session held to
the generation and to a close under way, `BusyIsExplained` gives each busy state and the
claim somebody who will end it, `OpenIsKnown` and `AllConfirmed` are two of the properties
with what makes them inductive. None of these parts is inductive alone. There is a lemma per
action. `FlowUsesHostTrust` shows that the window's steps implement HostTrust, and so
`OneKeyPerHost` is carried over instead of proved again.

The first part of `DatabaseProofs` proves the four properties of DatabaseInit for any keys, versions and
numbers of restarts. The invariant relates the step a start is at to the key it uses, the
file, and the history `reasons`; it says in particular that a key the start has just drawn
encrypts no file until the file is created, which is why deleting it again loses nothing.

Its second part proves four invariants of StoredRecords (the types, `CatalogIsReadable`,
`SettingsAreOwned`, `NearestIsInForce`) for any texts, ids, settings and
length of an import, from `ConfigAssumption` and `RecordsAssumption` (what is blank for SQL is
blank for the code, the id that a client sends is one of the ids or blank, and the other sets
hold what their names say) and
`NullIsNoRow`. `RecordsInv` consists of `RowsOK`, the types and references with the validity of
the rows that are listed, and `SettingsOK`, whose core is `RowsAreEntered`: the rows of settings
are exactly what was last entered, row by row. That one equation makes the others inductive
beside it and gives the two properties of the settings: an owner has one row for a setting
because only one value was entered, and reading an owner's rows gives that value
(`ReadIsEntered`), which `LayerFacts` carries through each layer. `ApplyFacts` says what
`write_setting` does to the table, `SavedRows` what a save or an import does to the connections,
and `UngroupedConfig` that a connection stays valid when it loses its group.
`ValidAlwaysAccepted` is `RulesAgree` for every connection and group.

`SessionLifecycleProofs` proves the types, the four invariants of the run, `NotShutUnderOperation`, and
that SessionLifecycle implements `PromiseSpec`, for every set of commands and confirmations and
every queue capacity, from `LifecycleAssumption` (the capacity is a natural number, `None` is no
session). None of the properties is inductive alone: they rest on the order in which every
path of a session's end takes it out of the map, takes the authority away and lets go of the
connection. `Fits` says of one session where in that order it stands (`Lives`, `Authority`), who
is at work on it (`AtWork`) and what a close command may conclude (`Closing`). A step touches one
session, or at the exit all of one kind; `UntouchedFits` settles the others, so that the lemma
of an action looks at one session only. `ExitSound` (only a confirmation approves the exit)
is what the refinement needs besides: an exit is then either confirmed or finds no live
session. The fairness of `KeepsExitPromise` stays with TLC.

`TerminalOutputProofs` proves `SequencesAgree`, `WindowIsBounded`, `OutputInOrder`, `FullWindowOpens` and the types for
every size of batches, chunks, window and command queue and any amount of output, from
`OutputAssumption` (they are positive numbers). The invariant adds what is under way: no
acknowledgement in the queue or still to be sent exceeds the last one queued
(`AcksAreKnown`), and the last one queued has arrived or is still under way, as the last batch
received is processed or with xterm.js (`LastIsUnderWay`). Both invariants were checked by
TLC before they were proved. `OutputInOrder` needs only the types: a step takes a batch from one
end of the screen, xterm.js, the channel or the pending output and puts it on the other end of
the next, so that their concatenation does not change, but grows where the loop reads.

`ConnectionRepositoryProofs` proves the three invariants of ConnectionRepository and
`LossIsTold` for any connections, groups, edits, import file and number of writes,
from `RepositoryAssumption` (ids are finite sets without `None`, and the import file is a
sequence of directives) and `NoRowAssumption` (`None` is no row). `RepositoryInv` adds
`CopiesDiffer`, that a client has one copy of a connection: without it a second, older copy of a
row that is current could be written back. `SaveKeepsDistinct` is the case analysis of the place
of a saved row: it stays, or goes behind all others of its group. An import saves its records
one after the other, a fold over the items; `ImportRuns` gives the tables in between, and
`ImportPreserves` carries over to the import what every single save preserves.

The same module proves `ReadsLikeSsh` of every file, of any length, with any patterns and whatever
they match (`ImportReadsLikeSsh`). `Describes` is the invariant of the parser: after i lines,
each stanza holds the options of the section of its Host line as far as line i, and the
defaults those before the first one. `LineDescribes` has one case for each kind of line.
`ImportedFromSections` is what the import then offers, with the precedence of the code, and
`PlainEntry` that for a plain name this is what ssh obtains.

`SequenceLemmas` has what these proofs need of recursive definitions. The library's induction
theorems have an operator as a parameter and cannot be used here, but a set of numbers can take
its place: `SetInduction` follows from the least number outside of it, and `Recursion` and
`SetRecursion` give the intermediate values of a recursion up to a bound. From them
follow the laws of FlattenSeq and of a fold over a sequence that are cited elsewhere.

Only model-checked is what holds under fairness: `CancelledEnds`, `EndsOrAwaitsChannel`,
`CloseReturns`, `UnregisteredIsReleased`, `OutputIsShown`, and the liveness of `KeepsExitPromise`.
The prover handles neither fairness nor ENABLED. All other properties of the passing runs are
stated by a theorem.

## What is not modelled

Cryptography, key parsing and the SSH protocol itself (the russh library, whose answers are
nondeterministic); rendering; the resize, host key and exit status payloads; memory
management of the web view. A `shell.write` that never returns, because the server
stops reading, would stall the loop; the model's writes return. If the window is
destroyed and the exit is then prevented, the application goes on without a window; the
model has that state, and no property judges it. Unmounting the window's component is left
out of ConnectionFlow, because the process ends with it.

The components marked `not_modelled` or `partly` in `PROJECT.json`, and why:

* Private keys and envelopes (`private_keys.rs`, `private_key.rs`, `envelope.rs`): encryption
  and decryption by library code, and a table that is only appended to and read. That the
  resolution of a key may fail is a step of ConnectionAttempt.
* Updates (`update.rs`, `UpdateControl.tsx`): two commands of a few straight lines around the
  updater plugin, which keeps the state and does the work.
* Of the repository, the wall clock: the schema demands that no change of a row is older than its
  creation, so that after the clock has been set back a change is refused as a failure of the
  database. Private key references are read and never written by this version.
* The contents of the credential store. A duplicate of a connection keeps its `credentialRef`, so
  that the two share one password; nothing in the repository says whether they should.
* SSH algorithms, endpoints and errors: tables and mappings.
* The mapping of channel messages to events in `shell.rs`: a table. Its events are the inputs
  of TerminalOutput.
* In `ssh-core/sftp.rs`, listing and canonicalize read only, and `remove_file` is called by tests only.
* The update validator (`tools/update-validator`): a sequential command-line tool of the release.
* The user interface components other than the launch dialog: rendering and form state.
