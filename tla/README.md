# Verification of the message delivery path

TLA+ models of the communication platform, checked with TLC and, for the server
mailbox, proved with TLAPS. The platform is a self-hosted end-to-end encrypted
messenger: a Django/FastAPI backend with PostgreSQL and Redis, a Flutter client with
a local SQLite database, and a Rust cryptographic core. The server relays opaque
envelopes; everything that decides whether a message arrives, arrives once, or is
known to be lost happens in the protocol between three stores that no transaction
spans: the client's outbox, the server's mailbox, and the other client's inbox; and in
the pairwise session the two clients keep in step across it. Those are the core of the
models here.

## The system's parts

| part | source | modelled by |
| --- | --- | --- |
| server mailbox: batch send, drain, acknowledgement, ceiling, retention sweep, revocation | `backend/messaging`, `backend/devices/services.py`, `backend/accounts/admin.py` | `Mailbox`, `MailboxProofs` |
| realtime gateway: sockets, shared Redis subscriber, bounded queues, close on revocation | `backend/realtime` | `Gateway` |
| client inbox: drain, inspection, acknowledgement, held envelopes, mailbox gap | `frontend/lib/features/synchronization`, the gap half of `groups` | `InboxSync` (over `Mailbox`) |
| client outbox: local echo, owed preparation, fan-out, batches, stale devices, status | `synchronization`, `pairwise`, the status half of `messaging` | `Outbox` (over `Mailbox`) |
| pairwise session: ratchet, simultaneous initiation, repair, volatile frames, session rows | `frontend/native/crypto_core/src/pairwise.rs`, `features/pairwise`, the inspector of `synchronization` | `Pairwise` |
| one-time and signed prekeys: device state, server directory, maintenance | `prekey_state.rs`, `backend/devices/services.py`, `features/devices` | planned |
| accounts, sessions, lockout, erasure | `backend/accounts`, `backend/core/lockout.py` | planned |
| attachments: upload, allowance, purge; client transfers | `backend/attachments`, `features/attachments` | planned |
| device enrollment, device log | `features/devices`, `enrollment.rs`, `device_signatures.rs` | planned |
| groups and rooms: signed control events, revisions, state requests | `features/groups`, `group_control.rs`, `room_control.rs` | planned |
| voice mesh: negotiation, ICE restarts, teardown | `features/voice` | planned |
| lifecycle supervisor, tokens, websocket client | `features/synchronization`, `features/networking` | planned |
| presence and the ledger of volatile signals | `features/signals` | planned |
| history transfer between own devices | `history_transfer_coordinator.dart` | planned |
| primitives, encodings, user interface, deployment | `provider.rs`, `cbor.rs`, `presentation/`, `ops/` | not modelled: no state machine in them |

`PROJECT.json` lists the same parts with the reason for each that is left out, the
lines every definition models, the hazards of the code and the property that covers
each.

## How the parts interact

A user's message is committed locally (`CommitLocalEcho`) together with a row that
says its fan-out is owed. The sync engine resolves the peer's live devices, claims
prekeys where there is no session, seals one ciphertext for each device and writes
the sealed rows, deleting the owed row in the same transaction
(`CommitPreparedSend`). It then sends rows in batches; the server numbers each copy in
the mailbox of its device under that device's row lock (`Send`) and answers which
targets were accepted, which are gone and which are full. The receiving client drains
its mailbox page by page into its inbox (`PersistPage`), inspects each envelope,
acknowledges what has an outcome (the server then deletes its copy, `Ack`) and moves
a checkpoint over the contiguous run of acknowledged numbers; what lies at or below
the checkpoint is never looked at again. An hourly sweep deletes envelopes that were
not collected in time and raises a watermark, `queue_pruned_through`, that tells the
device it lost something; the client then asks every group for its state. Sockets
carry the same envelopes live and are closed when their token dies.

## Modules

### `Mailbox` — `messaging/services.py`, `prune.py`, `devices/services.py`

One action per committed unit. `Send`, `Ack`, `Revoke`, `Deactivate` and `Activate` are
transactions; a send takes its device row locks before it reads, so it is atomic. The
sweep takes no lock before its UPDATE, so reading the ids, aggregating `Max(seq)` and
UPDATE-with-DELETE are three steps (`SweepRead`, `SweepAggregate`, `SweepCommit`)
between which the other units run. The query orders by `queued_day` only: any batch
consistent with that order may come back (`OldestFirst`). `SweepFail` is a process
death or an aborted transaction. An envelope is its number, its day and its size; its
ciphertext is not modelled.

### `InboxSync` — `durable_sync_engine.dart`, `drift_sync_store.dart`

Extends `Mailbox`; `me` is the device. `engine` is the control point of a run and what
it has read but not yet written; `inbox`, `contiguous`, `prunedSeen`, `gap` and
`requests` are the database. Each store transaction is one action; a request to the
server and its answer are separate steps, so acknowledgements may be served after the
client gave up on them. `GET /me/envelopes` reads the watermark when it authenticates
and the page afterwards: two steps. What an inspection decides (commit, retry, reject,
hold) is an input. `Crash` is a process death or a failed local write: what is in the
database stays, everything else is gone.

Abstractions: one claimed sender and one session for held envelopes; the failure
budget of an inspection is merged into the choice between retry and reject; per-run
limits, `drainRequested` and stand-down only end a run early, which `Crash` also does;
room state requests are left out because they do not hold the gap.

### `Outbox` — `durable_sync_engine.dart`, `pairwise_fanout_coordinator.dart`, `drift_pairwise_transport_store.dart`

Extends `Mailbox`; `Devices` are the devices of one peer. Two actors run the same
fan-out: the engine, for messages, and the dispatcher of a call being joined, for room
payloads (`job`). Resolve, reconcile, read, claim and commit are separate steps.
A session is its id and its version, which is what the store compares. `outbox` has a
row per operation and device, `status` is the stored copy of what the rows derive
(`Derived`), and `wire` and `late` are requests in flight and requests given up on.

Abstractions: the device-state revision check, capacity limits, repair, per-run limits
and stand-down are left out; an answer that does not add up is treated as a lost one
(`RecordRetry`), as the code does; the early return for a preparation whose rows
already exist is unreachable, which is what `OwedOrQueued` says.

### `Gateway` — `realtime/gateway.py`, `realtime/bus.py`

The sockets of one device on one worker, the subscriber they share, and Redis as a
command pipe and a reply stream. A step runs until the next `await`. Redis and
redis-py (`RedisReads`, `Published`, `ConnectionLost`, `Reconnect`) are modelled from
how `bus.py` uses them. A socket's rate window, frame parsing and the recipient checks
of a relayed signal are left out: the first two only end a socket (`ClientEnds`).

### `Pairwise` — `pairwise.rs`, `drift_pairwise_transport_store.dart`, the inspector

Two devices; device 1 has the smaller id. A device has a primary and an alternate row
(`primary`, `alternate`), each a ratchet state, a version and the stage of a repair.
`Send` is a durable send (a regular message, a first message, or the first message of
an authorised replacement), `Seal` and `OpenVolatile` are the volatile paths,
`RequestRepair` the request for repair a group makes. These four read, compute and
commit under a version check; losing the check they leave nothing behind, so each is
one step. (The check compares versions only: a session replaced by one that reached the
same version passes it. For these paths that case is `EndedSessionStaysEnded` of
`Outbox`.) The inspection of a durable envelope is two, because losing does leave
something behind: `Inspect` reads the row and decides, `Commit` applies the decision or
meets a conflict and quarantines the envelope. `sent` only grows and anything in it may
be delivered at any time, again, or never: loss, reordering and duplication.

Keys are symbolic: a root key is the sequence of secrets mixed into it, a chain key its
root and position, so two keys are equal exactly when they were derived alike. A key
pair that was drawn for a step that was not committed has no other trace, and shares its
name with the one drawn when the step is tried again. The session id at the head of the
root stands for the PQXDH secret; `oneTime` says whether one-time prekeys went into it
(the responder then cannot accept the same first message twice). A repair token is
its issuer's flag, since a state issues at most one.

Abstractions: padding, signatures, the sender's trust state (held envelopes are in
`InboxSync`) and counter overflow are left out; an envelope the core refuses is refused
at once, the eight attempts of the budget being repetitions that change nothing; a
volatile first message is left out because the sealer never makes one; the revision
of the device state is left out because only an accepted first message moves it, and
only one inspection runs at a time.

### MC modules

`MCMailbox`, `MCInboxSync`, `MCGateway`, `MCOutbox` and `MCPairwise` extend the specifications and
define the sets the `.cfg` files assign to constants. Device identifiers are model
values in the mailbox and inbox, numbers in the outbox (the code orders targets by id).
The sockets of the gateway's safety runs are interchangeable and declared symmetric;
no liveness run uses symmetry.

## Runs

| run | question | bounds | result |
| --- | --- | --- | --- |
| `mailbox` | is every number accounted for at every interleaving, does every expired row leave | 1 device, 4 envelopes, 4 days, window 1, sweep batch 2, 1 failed sweep | holds |
| `inbox` | does the checkpoint pass only what has an outcome or was announced lost, does every envelope end, is every loss noticed | 2 envelopes, page 1, 1 group, 1 crash, 1 lost answer, 1 retry | holds |
| `inbox_held` | are held envelopes kept until exactly one outcome | 3 envelopes, 2 held at most, inbox of 2, 1 crash, 1 lost answer, 1 retry, 1 failed sweep | holds |
| `gateway` | are sinks, subscriptions and frames consistent | 2 sockets, queue 1, 2 frames, 1 outage, 1 failure, 1 revocation | holds |
| `gateway_close` | is a socket closed when its token dies | working Redis | holds |
| `outbox_room` | is a send owed or queued, is a final status true, does accepted mean written, beside a call being joined | 2 devices, 1 message, 1 payload, batches of 1, 1 loss, 1 refusal, 1 user retry, 1 device goes | holds |
| `outbox_live` | does every send settle, once, and does stale mean gone | 2 devices, one enrolling late, 1 message, 1 loss, 1 refusal, 1 crash, 1 device goes | holds |
| `pairwise` | are keys used once, nothing opened twice, skipped keys owed, do the sessions converge | 4 envelopes one way, 2 the other, 1 frame each, 1 skipped key, repair | holds |

The bounds are the smallest at which each hazard happens: a sweep batch smaller than
the expired rows of one day (otherwise a batch never splits a day), an envelope above
a hole (otherwise the walk has nothing to stop at), a queue of one frame, a batch
limit below the number of targets, four envelopes one way in a session whose bound is
one skipped key (one skipped, one that meets the bound), and one crash and one loss in
the liveness runs. Every run but `mailbox`, whose theorems hold for any number of
devices and envelopes, says nothing beyond its bounds.

### Disagreements between the code and its own words

Four are runs whose one property is violated; `PROJECT.json` quotes the lines.

| run | what TLC shows |
| --- | --- |
| `inbox_gap_full` | With an unanswered gap acknowledged rows stay in the inbox; once it is full, the page that carries the answer is refused too. |
| `gateway_token` | The token is checked before the topic is subscribed; a revocation in between closes nobody. |
| `pairwise_beside` | A session a room's fan-out starts between the read and the commit of the peer's first message is moved aside without comparing device ids; the two devices send on different sessions from then on, and each refuses what the other sends. |
| `pairwise_race` | A volatile frame between the read and the commit makes the commit a conflict, and the engine quarantines an envelope that still opens. |

The others are kept as properties of the modules; each is violated when it is added to
a configuration of its component.

| property | what it shows |
| --- | --- |
| `Mailbox!WatermarkBelowMailbox` | The watermark passes rows the device can still fetch: the sweep orders by day only, and a later batch or a death in between leaves the lower numbers (`prune.py:129`). |
| `Mailbox!WatermarkIsHighestPruned` | An acknowledgement between the aggregate and the delete leaves the watermark at a number the sweep did not delete (`devices/models.py:64`). |
| `InboxSync!PassedIsGone` | Consequence of the first: settling the gap moves the client's checkpoint over a row the server still holds, which no drain then takes (`drift_group_repository.dart:557`). |
| `InboxSync!ReleasedIsPassed` | A released held row can be committed before the contiguity walk has passed it (`held_inbox_rows.dart:11`). |
| `Gateway!JoinedIsSubscribed` | The confirmation of an earlier SUBSCRIBE of the topic counts for a later one (`bus.py:194`). |
| `Outbox!StatusIsDerived` | Reconciliation settles rows without refreshing the status the user sees (`local-data-model.md:230`). |
| `Outbox!RetiredHasNoPeer` | A device list that changes between resolve and claim fails the send for good (`durable_sync_engine.dart:401`). |
| `Outbox!StaleWasGone`, `Outbox!SettledForGood` in `outbox_room` | A fan-out reconciling with a list older than an enrolment gives up a live device's row, and a row it gave up while the engine's batch was in flight is revived by the retry (`drift_sync_store.dart:1558`). Both hold when the engine is alone. |
| `Outbox!EndedSessionStaysEnded` | A session update prepared on a deleted session passes the version check of its successor (`pairwise-review-readiness.md:45`). |

A smaller one: `sync-engine.md:295` has the accepted count equal targets minus stale
devices, the engine also subtracts full ones.

## Fairness

- `Mailbox`: the systemd timer starts a sweep every hour, so `Sweep` is weakly fair.
- `InboxSync`: the supervisor starts runs while there is work, retry times pass, and a
  request under way is served. Sends, crashes, losses and verifications are not
  fair. Losses and crashes are bounded, which is the assumption under which anything
  can be delivered at all.
- `Gateway`: the event loop runs every task that can run; Redis serves its commands;
  the request that killed a token publishes its CLOSE.
- `Pairwise` has no liveness run: what the core refuses stays refused, and nothing
  promises that a repair ends.
- `Outbox`: the engine, the server, due times and the collection by the peer's devices.
  A user's retries are bounded: without a bound they may re-arm one message for ever
  and, being served first, keep another waiting.

## Proofs

`MailboxProofs` proves, for every set of devices, every ceiling, window and batch size
and every set of batches, `TypeOK`, `Ledger`, `LossIsAnnounced`,
`RetainedIsAboveWatermark` and the action property `CountersGrow`. The assumptions are
those of `Mailbox`: batches are sequences of positive sizes and the bounds are natural
numbers.

`LossIsAnnounced` (whatever the sweep removed is at or below the watermark) is not
inductive: the watermark is written by `SweepCommit` from a maximum taken in an earlier
step, while rows come and go. The inductive invariant `IInv` adds
- `RowsNumbered`: a queued row has a number between 1 and the device's counter;
- `DaysOrdered`: numbers and days of the rows of one device grow together;
- `WatermarkExpired`: the watermark is a number that was given out, and a row still
  queued at or below it is past its window;
- `SweepHolds`: every row at or below a number the sweep has read is older than its
  cutoff, and once aggregated every row of the batch that is still there is at or below
  the recorded maximum.

A row can leave the batch but not join it, because numbers are never reused; that is
the step the argument rests on. Each invariant is shown to hold initially and to be
preserved with one case per action; the temporal step is PTL.

Only model-checked: all of `InboxSync`, `Gateway`, `Outbox` and `Pairwise`; `WithinCeiling`, whose
sum over a set of rows is a fold the provers cannot unfold; and every liveness
property, which is out of the prover's reach.

## Plan

1. Model next: an abstract channel that `Pairwise` implements while no repair runs;
   prekeys (`Prekeys`: device state, upload, server directory,
   claim, maintenance, composed); accounts and lockout; attachments and the allowance;
   groups and rooms (concurrent signed control events, state requests); enrollment and
   the device log; tokens; the lifecycle supervisor; presence; voice negotiation;
   history transfer.
2. Compose `Outbox` and `InboxSync` through the one mailbox and show that together they
   implement an at-least-once, deduplicated channel.
3. Prove: the inbox checkpoint invariants (`PassedIsRecorded`, `OutcomeOnce`), the
   outbox's `OwedOrQueued`, `AcceptedIsWritten` and `SettledForGood`, the gateway's sink
   invariants, and `KeyUsedOnce` and `OpenedOnce` of `Pairwise`.

## Running

```
tlc -workers 2 -config MCMailbox.cfg MCMailbox
tlapm MailboxProofs.tla
```
