# Saku v2 in TLA+

Saku is a custodial wallet: a Next.js application (`web/`) over a Postgres database
(Supabase), a BNB Chain testnet RPC, a custodian that holds the users' keys (Privy), a
payment gateway (Xendit), and two contracts of its own (`contract/`). This directory
models the parts in which money, access, a one-time code or what a person is told can be lost by an
order of events that no test was written for: the contracts, the server's handlers, and the
screens that call them. Source paths below are relative to the repository root.

## The system's parts

| Part | Source | State it keeps | Operations |
| --- | --- | --- | --- |
| Off-ramp escrow contract | `contract/contracts/SakuOfframpEscrow.sol` | requests, nonce, settler, stable token, allowlist, token balance | `lockForOfframp`, `settleOfframp`, `refund`, admin setters |
| Off-ramp server | `web/app/api/offramp/*`, `web/lib/{escrow,offramp-sweep,offramp-payout,mock-fiat,xendit-disbursement}.ts` | `offramp_requests`, `transactions` | file a lock, settle in the background, refund by the user, scheduled sweep |
| Staking contract | `contract/contracts/SakuStaking.sol` | stakes, reward accumulator, reward reserve | `stake`, `unstake`, `claimRewards`, `exit`, `fundRewards`, `withdrawUnusedRewards`, `setMinStakeAmount` |
| Top up | `web/lib/topup.ts`, `web/app/api/topup/*` | `topup_requests` | create, webhook, status poll, settle once |
| Red packets | `web/lib/packet.ts`, `web/app/api/packet/*` | `packets`, `packet_claims` | fund, claim, pay out, undo a failed payout |
| QR payments, split bills, transfers | `web/app/api/{qr-payment,split-bill,transfer,transactions}`, `web/lib/{platform-fee,split-bill-math}.ts`, the hooks that pay | `qr_payments`, `split_bills`, `split_shares`, `transactions` | pay, file a receipt, charge the fee, mark a share, close a bill |
| Recovery | `web/app/api/recovery/*`, `web/lib/recovery*.ts` | `recovery_requests`, `recovery_approvals` | start, verify e-mail, vote, continue, complete |
| Guardians | `web/app/api/guardians/*`, `web/lib/guardian*.ts` | `guardians` | invite in the app or over WhatsApp, accept, decline, revoke |
| Backup e-mail | `web/app/api/account/email` | `users.email`, `pending_changes` | ask, mail, verify, remove |
| One-time codes, phone identity | `web/lib/{otp,otp-challenge,phone-identity}.ts`, `web/app/api/{request-otp,verify-otp}` | `otp_challenges`, `users.phone_hash` | request, consume, find or create the account |
| Sessions | `web/lib/{jwt,session}.ts`, `web/app/api/logout` | `users.token_version` | issue, check, revoke |
| Signing limits | `web/app/api/mpc/sign`, `web/lib/{spend-limits,tx-policy}.ts` | `signing_events` | check the policy and the cap, sign, record |
| Wallet provisioning, gas drip | `web/app/api/mpc/provision`, `web/lib/{privy,gas}.ts` | `wallets` | create or adopt, bind, drip |
| Nonces | `web/lib/{nonce,chain}.ts` | reservations in the memory of a process | allocate, reserve, release, send again |
| Screens | `web/app`, `web/components`, `web/hooks` | what a tab shows, the calls it has out | sign in, send, cash out, top up, earn, packets, QR and QRIS, bills, recover, security |
| Rate limiter, notifications, prices, compliance and profile, receipt reading, drawing, vendored libraries | various | see `PROJECT.json` | not modelled |

### How they interact

The browser holds no key: a user's transaction is signed by `mpc/sign` under the policy and the
daily cap, and broadcast to the chain. The server learns of it from the receipt (the client posts a
hash). Everything the settler pays out (top ups, packet shares, gas, off-ramp settlements and
refunds) is sent from one wallet whose nonces `lib/nonce.ts` hands out. The database is shared by
all serverless instances; there are no multi-statement transactions in the web code, only single
conditional updates (`update ... where status = ...`), unique indexes, and two SQL functions. Any
handler may be killed between two awaits, and supabase-js reports a failed write in its return
value, which several callers do not look at: such a read counts as one that found nothing. A screen
awaits as well: between a call and its answer the person types, goes back, closes the sheet or signs
out, and the answer is applied anyway unless the code looks whether it is still wanted.

### What is hard

* **A step on the chain and a row in the database are two steps.** A handler that dies between them,
  or whose `tx.wait()` fails although the transaction was mined, leaves the row behind the chain.
* **Two callers act on one row**: the user's refund and the scheduled sweep, the webhook and the
  status poll, two guardians, two payers of one bill, two tabs.
* **Check, act, record**: a cap, a drip count, a free wallet, a nonce is read in one step and used in
  a later one.
* **Time**: a rate lock of 120 seconds, a grace of 15, a sweep every ten minutes, codes of five
  minutes, a cooling day; the clock a decision was made with is older than the block it lands in.
* **Undo after an uncertain failure**: "failed" is written, or a claim deleted, when the payment may
  have gone out.
* **Answers out of order**: a lookup, a quote, a code or a session that was asked for one input and
  arrives over another.
* **Arithmetic**: reward-per-share accumulation with truncation, shares that must sum to a total, two
  currencies that round apart.

### What makes each part correct

* **Escrow.** It can pay back every open request at once; an account is out of pocket by exactly its
  own requests; an id is never reused; a request leaves `Locked` once, on the right side of its
  deadline.
* **Off-ramp server.** The tables never run ahead of the chain; one disbursement per request, out of
  a settlement, none for a refunded one; a refund shows once; no lock on file stays in the escrow.
* **Staking.** The total is the sum of the stakes; the stream is funded to its end; principal is not
  paid out as rewards beyond a rounding; what another account does never changes what a staker has
  earned.
* **Top up.** A paid order ends in tokens, once; the row claims nothing the chain does not show.
* **Red packets.** A packet stands on a transfer of its own; shares sum to it whatever the order of
  claims and releases; a claimer is paid once; a claim ends.
* **Payments.** A debt is filed as paid once, by a mined transfer of its amount to its owner; the
  history has what was mined and nothing else; the fee follows its payment; a bill closes when its
  shares are paid, and they come to the bill.
* **Recovery.** The number moves only for a request that its e-mail confirmed and a majority of its
  panel (two at least) approved, at most one submit per link gets through, a rejection is final, a
  majority is never lost between two voters.
* **Guardians, backup e-mail.** The owner hears of everybody who can come to count; an answer counts
  once; the newest link sets the address, and a spent or replaced one does not.
* **Codes, identity, sessions.** A code is good for three guesses however they overlap, and does not
  come back; a number has one account whichever hash it is filed under; a token that was signed out
  stays out.
* **Signing, wallets, nonces.** Signatures stay within the cap and drips within their number as far
  as invocations do not overlap and no failure of what counts them goes unnoticed; the wallet of a
  user id stays bound; a send lands once and leaves no gap in
  the nonces.
* **Screens.** What is paid is what the review showed; what is called paid, refundable, recovered or
  on is so on the server; two accounts that take turns in one browser do not see each other's.

## The modules

The contracts and the server:

| Module | Models | Uses |
| --- | --- | --- |
| `TokenSums` | the sum of a field over a set of accounts or requests | |
| `SakuOfframpEscrow` | the escrow contract, one action per external function | `TokenSums` |
| `OfframpPromise` | abstract: where the money of one off-ramp is | |
| `Offramp` | the off-ramp handlers over the contract | instance of `SakuOfframpEscrow`, refines `OfframpPromise` |
| `StakingConstants`, `SakuStaking` | the staking contract | `TokenSums` |
| `Topup` | creating, webhook, poll, crediting | |
| `Packet` | the share arithmetic; creating, claiming, paying, undoing | `TokenSums` |
| `Payments` | a payment from the signature to the row, the bill and the fee | |
| `SplitBill` | who owes what: the form, its arithmetic and the server's | |
| `Sessions`, `Recovery` | versions and tokens of one account; every handler of `api/recovery` | `Recovery` extends `Sessions` |
| `SignIn` | asking for a code and spending it; the account a code opens | |
| `Guardians`, `BackupEmail` | the panel and the address `Recovery` takes as given | |
| `MpcSign`, `WalletProvision`, `Nonces` | the wallet's three services | |

The screens and hooks:

| Module | Models |
| --- | --- |
| `SignInScreen` | the form of the web app and that of the extension's side panel |
| `Browser` | cookie, user, wallet and own number of a tab, through sign-ins and sign-outs |
| `TransferScreen` | sending to a number: lookup, amount, review, receipt |
| `OfframpForm`, `OfframpScreen` | cashing out up to the lock; the poll that waits for the settlement |
| `TopupScreen` | the poll that waits for a top-up while its window is open, closed, forgotten |
| `WarmApproval` | the approval signed ahead of time and the payment that joins its wait |
| `StakingScreen` | the Earn screen, recording a stake, and the direction the history gives it |
| `PacketScreen` | funding a packet, the hub, the envelope in the tabs of a claimer |
| `PayScreen`, `QrisScreen` | the sheet that shows a code and the page that pays it; a merchant's code from scan to payout |
| `BillScreen` | one share on the pages of those who see it |
| `RecoverScreen`, `SecurityScreen` | the owner's and the guardians' pages of a recovery; setting one up |

`TokenSums` and `*_proofs` hold lemmas and theorems; `MC*` give TLC its sets and symmetry and
put modules side by side.

**Contracts.** A call is one action, because every function that moves tokens is `nonReentrant` and a
revert undoes everything; a revert is an action that is not enabled. Who may call is a guard on
`caller`. The state variables carry the contract's names; `held` is its token balance and `spent`
what an account has handed over, net (a history of the token's transfers).

**Handlers.** A running invocation is a **job** in a slot (also `call`, `work`, `handler`), a record
with a program counter (`pc`, `at`) and the locals it carries over an await. An await that writes,
sends or waits ends a step, so any two invocations interleave there and a local is as old as the
step that read it. Reads that only refuse a request are one step with the write they guard when
nothing else can come in between that the properties tell apart; where it can, the read is a step of
its own (`ReadOwner`, `ReadAddress`, `Look`). A conditional update is one atomic action whose guard
is the `where`. The `StartX` actions are the client's calls, so calls are repeated and delayed
freely, up to the bounds.

The settler is one wallet, and in the modules that pay out its transactions are mined in nonce
order: the `mempool` is a queue, and `Mine...` runs the contract's action and reports to the job that
waits, if it still does. `Nonces` is about that assumption: it has the processes that do not share
their memory, a node that refuses, loses and drops, and the one retry, and shows that a send lands at
most once and that, while the node drops nothing, none waits behind a gap.

Failures are actions: `Crash` ends a job between two steps, `WaitThrows` ends a wait although the
transaction is out, `SendThrows`/`CallThrows` is a call that failed before it did anything,
`LoseWrite` is an update whose error nobody looked at. A read whose error nobody looks at is one that
found nothing, and the handler goes on: no drips and no wallet (`WalletProvision`), no open shares
(`Payments`), no claims (`PacketScreen`). They share a bound (`MaxFaults`, `MaxGlitches`).

**Screens.** A tab is a record of what it shows; a press puts a call under way, and its answer is an
action of its own, so answers come in any order, after the person has typed, gone back or closed the
sheet, or not at all. The server a screen talks to is cut down to what the screen can see of it (one
status, one step where the handler's own module has several). A number, an account, an amount or a
code is an opaque value. History variables (`mixed`, `recoded`, `left`, `crossed`, `late`, `behind`) remember
that something happened which the code does not defend against, so that a property can speak of
everything else; each is named in the property that uses it.

**Runs with several parts.** Modules that share no state are checked in one run when they ask
the same kind of question of the system. The MC module declares the variables of all of them and a
variable `part` that never changes: the part named takes the steps, the others rest in one initial
state. So the states of such a run are the sum over its parts and not their product, and a property
of it is a conjunction of `part = ... => ...`.

What an action leaves out is said at its head in the module. Throughout: HTTP statuses, words,
notices, logs, rate limits (they fail open) and authentication of the caller's session, except in
`Sessions` and `Browser`.

## The runs

Bounds are CONSTANTS named `Max...`; a property is about what happens up to them, so each is chosen
to let every kind of conflict happen at least once. `CHECK_DEADLOCK FALSE` everywhere: clocks, calls
and faults are bounded, so every instance comes to a stop.

| Run | States | Bounds, and why they are enough |
| --- | --- | --- |
| `contracts` | 709 thousand | Escrow: two accounts, two tokens, two locks, three time units: every admin change between lock and settlement, both locks in one token or in two, both sides of a deadline, a stray transfer. Staking: three stakers, precision 4 so that truncation is always in play, three reward tokens, three calls. Accounts, tokens and stakers are symmetric; one more would repeat a role. |
| `offramp` | 462 thousand | One lock posted twice, a user's refund, one from outside, two sweeps, one fault: every pair of handlers that can meet on a row. Rows share nothing but the settler's queue, so one request is enough for safety. The screen: two polls that miss, two server steps that are late. |
| `services` | 197 thousand | Packets: two creators racing for one transfer, three units, two slots, two claimers, one of each failure: first and last slot, a release between them, a repeated claim. Top-ups: one order, two invocations. The sweep: two requests and a batch of one, so that one row waits for another, and two faults. The top-up screen. Safety and liveness. |
| `recovery` | 1.5 million | Two requests (the second replaces or loses to the first), one guardian in the app and one on WhatsApp, two handlers at a time, two finish links, one change of the panel or end of a window, one fault. |
| `payments` | 1.9 million | Two payers, a QR request, two shares of a bill, two payments, two handlers, a stray post and a fault: a debt paid twice, one payment for two debts, the last two shares at once. Two receipts of one and two lines with every assignment to three people. One warm approval after another, three presses, two glitches. The Earn screen with a claim on another device. |
| `accounts` | 1.2 million | Seven parts, each with two invocations or requests at a time and a fault; three codes and one guess per code, so that a code ends, is replaced and asked for again within the bound; two guardians' seats; two addresses; a cap of two; three sends from two processes; four drips of two allowed; the rows of both earlier custodies; each of the reads and writes of a wallet's row failing unnoticed; one form in the app or the panel, two numbers of which one is read. |
| `screens` | 1.4 million | Nine screens with two of what matters (people, destinations, accounts, tabs, codes, locks, guardians) and one call that fails, whose error may be ignored: an answer for the one over the input of the other. Three numbers in a recovery: one of the owner's and free, one of another's, one of the owner's that has an account. The form of a packet is filled in only while a press is left, and one call at a time goes on after its screen was left: neither is looked at beyond that. |
| `offramp_dead_settle`, `topup_twice`, `recovery_old_holder`, `bill_by_item`, `warm_approval` | violation | the smallest instance that shows it. |

What each shows is in `PROJECT.json`. `Apart`, the one state constraint, explores sign-ins and
sign-outs only while no recovery has been started; `SignOutsHold` is about exactly that part, and
`recovery_old_holder` lets the two interleave. `SignOutsHold` stops at the first finish link because
completing a recovery writes the version it read plus one, without looking again, and a sign-out in
between may have gone past it. In `SplitBill` the form is edited only while nothing is posted: an
edit during the post changes neither what was posted nor what the server makes of it.

Some conditions in the properties are there because the code has no more to give, and TLC refutes
the property without them: `CapHolds` and `DripsAreCounted` allow for invocations that overlap,
`WindowBounded` for as many requests as overlap, `OneAlive` and `NewestLinkWorks` speak of
invocations that do not, `NoGap` of a node that drops nothing, `OneCreditPerWait`, `PayoutsAreFunded`
and `ClaimEnds` of waits that do not throw or invocations that are not killed.
Several are about an error the code does not look at, or about a press it does not prevent:

* `DripsAreCounted` forgives a cap of drips, and one drip of the hour, for each read or write of the
  count that failed unnoticed (`lib/gas.ts:60`, `:81`), or read of the row that sent a bound account
  through a new binding (`api/mpc/provision/route.ts:70`); after the latter `BoundForGood` lets a
  wallet under the phone hash be exchanged for the one under the user id, which itself is never
  exchanged (`lost`).
* `SettledWhenPaid` excepts a bill closed after the read of its open shares failed, which reads as
  none (`api/split-bill/[id]/route.ts:57`, `unread`); a write that fails there leaves a paid bill
  open, so `PaidBillCloses` is about runs without a fault.
* `PaysWhoIsShown` says of a send whose country code was changed under a contact's name only that the
  one who is paid is among those on the review: the name may be the contact's and the number another
  person's (`app/transfer/page.tsx:256`, `recoded`).
* `KeptApart` speaks of sessions that do not change in another tab, or with an answer out or an
  action under way (`crossed`): an action keeps the address it was started for and is signed with the
  wallet of whoever is signed in when it posts (`hooks/useMpcWallet.tsx:121`).
* `OpenedIsPaid` is about the claim of an envelope opened in its tab, not about the view it opens on:
  the reload after a claim may fail without anyone noticing (`hooks/usePacket.ts:206`).
* `AnswersAreKept` excepts a no whose own write failed: it reads "Request closed" all the same
  (`lib/recovery-vote.ts:63`, `lost`).
* `OnIsOn` and `CountedOnce` except what was taken away since the screen opened or loaded again by
  something it is not told of, among it a call that Back or "Not now" left under way
  (`components/profile/account-security.tsx:267`, `behind`).

Each stands in the definition, with the history variable that carries it.

### Fairness

Only `services` states any.

* The sweep: the clock and the chain go on, and the scheduler starts sweeps and runs them
  (`web/netlify/functions/offramp-sweep.mts`, every ten minutes). Nothing is assumed of the client,
  of the lock handler or of the refund handler; faults are bounded, so from some point on a sweep
  survives.
* Top-ups: invocations run, blocks are mined, and an order that is not final is polled again:
  `hooks/useTopup.ts` polls every 2.5 seconds for three minutes and the order's page starts over. A
  slot that is free again and again is used, hence the strong fairness of the poll.
* Packets: invocations run and blocks are mined. No claim is ever retried by assumption.

The other runs state safety only: nothing obliges a guardian, a payer or a person at a form to act.

### What the violations show

1. `offramp_dead_settle`: `settleOfframp` waits for the receipt before the row is touched. If the
   invocation dies or `tx.wait()` throws after the swap was mined, the row says `locked`, the chain
   says `Settled`, `refund()` reverts, and nobody asks for the disbursement. The sweep later writes
   `settled` to the row; the payout is still never asked for. `api/offramp/lock/route.ts:372` says
   such a row is still refundable.
2. `topup_twice`: an error of `tx.wait()` is treated as if nothing had been paid. `OneCreditPerWait`
   is what does hold.
3. `recovery_old_holder`: sessions are revoked before the number moves, and a sign-in on the old
   number that reads `token_version` in between is issued the version the recovery ends with.
4. `bill_by_item`: a bill split by item in a currency that is not USDC rounds each person's amount
   and the total apart. Their sum may miss the total, and the server refuses a bill the form allowed
   to be posted.
5. `warm_approval`: `awaitWarmApproval` answers true for an approval it has waited for, whether it
   was mined, failed, or took longer than the wait. The payment then skips the approval it needs and
   the call of the contract fails, though `useWarmApproval.ts` says that the normal approval still
   runs.

### What else was found on the way

TLC refutes these too. They are stated beside the properties that do hold, with the sentence of the
code they come from, and no run checks them:

* `Guardians!GuardiansAreDistinct`: one person can be two guardians, in the app and over WhatsApp.
* `BackupEmail!CancelledStaysCancelled`: a verification that has read its change writes the address
  although it is replaced or taken off in between.
* `SignIn!SessionHashMatches`: a session issued while another sign-in upgrades the hash carries the
  old one.
* `TopupScreen!ChargedIsSaid`: a payout that fails, or outlasts the grace, is called uncharged.
* `TransferScreen!ReceiptIsProof`: a send that was left with Back brings up its receipt over
  whatever the screen has by then: another recipient, or none.
* `Browser!AddressIsOwn`: an answer of `/api/me` for the first account that comes while the second
  signs in leaves the first beside the second's address.
* `Browser!SignedIsOwn`: an action of the first account that is under way while the second signs in is
  signed with the second's wallet.
* `OfframpForm!FailedIsNotFiled`: a report whose answer is lost reads as a failure, and the lock is
  on file.
* `PacketScreen!RevealedIsPaid`: a page loaded while the payout of its claim is under way opens the
  envelope at once.
* `PayScreen!BillIsAsShown`, `PaidIsWhatLeft`: the payee can edit the figure while its code is on its
  way, and the payer of a code without one while the payment is.
* `QrisScreen!MerchantGetsTheBill`: a payout is priced when it is filed, not when it was shown.
* `BillScreen!PaidByOne`: two devices can each transfer for one share; the table takes one.
* `RecoverScreen!ClosedIsStopped`, `ClosedIsClosed`, `AnotherIsOffered`: a guardian whose no came too
  late is told that it stopped the move; a request that is being moved is called closed, and its
  ticket dropped, though a move that fails opens it again; a code that died leaves the form at
  its boxes.
* `SecurityScreen!WayBack`: the walkthrough ends with "You have a way back" on two invitations nobody
  has answered.
* `SignInScreen!SentToShown`: the number edited while its code is being sent is the one the code is
  said to have gone to.
* `StakingScreen!ClaimedIsPaid`: a claim pressed after a stake took the reward, and before the screen
  read that, is called paid.

Smaller things the modules record in comments: a rounded `rewardDebt` lets the last `exit()` of an
empty reserve miss up to one base unit per rounding (`BackedUpToDust` is the bound); a guardian
without an account cannot approve again after a finish link could not be mailed
(`lib/recovery-vote.ts:149`); the side panel keeps its cooldown after a code is finished, where the
web form clears it; a code that lost a race is reported as one without tries left.

## The proofs

The theorems hold for every value of the constants that satisfies the `ASSUME`s of the module; the
bounds are constants too, so they hold for every bound. Where a run has several parts, a part's
theorem is proved of its own steps and carried to the specification of the run, in which every other
part's steps leave it alone; so the theorem and the run state the same formula of the same
specification.

`TokenSums` proves what a sum does when one value or one member changes, and two principles of
induction over the subsets of a finite set (`SubsetsWellFounded`, `SubsetInduction`): the installed
provers cannot use an induction theorem that takes an operator, but they can use one that takes the
family of the subsets for which the claim holds.

* **Escrow** (`Contracts_proofs`). `EscrowInv` is `TypeOK`, `IdsAreFresh`, `Custody` and
  `Solvent`. Neither is inductive alone: `spent` stays a natural number only because `Custody` says
  it is a sum, `Custody` survives a lock only because the id is fresh, and `Solvent` survives a
  payout because the paid request leaves the sum. `EscrowLifecycle` is proved of the steps;
  `EscrowRefundIsFunded` follows: a refund of a `Locked` request never lacks tokens.
* **Off-ramp** (`Offramp_proofs`, over an instance of the escrow's theorems, with a staking contract
  nobody uses in its place). `OfframpInv` says which
  transaction each job waits for (`MempoolOK`), that what a job has read of the chain is still so,
  because `Settled` and `Refunded` are final (`JobsOK`), that the job whose settlement was mined is
  one and has not paid yet (`PaidOnce`), and the same of the job that won the row of a refund
  (`RecordingOnce`). `TablesNeverRunAhead` follows, and `OfframpKeepsPromise`: the server over the
  contract implements `OfframpPromise`. Every step is shown to be a `Lock`, `Settle`, `Pay` or
  `Refund`, or a stutter of the abstract specification under the mapping `Stage`. `RefundOffersAreReal` is about the
  screen: while nothing is delayed, a settlement that is not on file has its worker about to write it
  (`ScreenServer`), and the two polls that make the screen offer a refund have then made it `slow`.
* **Staking** (`Contracts_proofs`). `StakingInv` is `TypeOK`, `StakesAddUp`, `StreamIsFunded` and
  `lastRewardTime <= now`. The stream's funding is what keeps `rewardReserve - accrued` above zero,
  and the sum of the stakes what keeps `totalStaked - amount` there. On top of it: the view agrees
  with what is paid, and `UpdateIsNeutral` (updating the pool changes nobody's pending rewards) gives
  `StakingOthersKeepTheirRewards`. `StakingIsBacked` is the bound on what truncation loses. It is
  argued in units of `1 / AccPrecision`, where nothing is rounded: `DustInv` says that no staker's
  debt exceeds what the stake has earned, and that what the contract holds, a unit for each call that
  rounded a debt, and the debts cover principal, reserve and everything the accumulator has promised
  (`BooksCover`). A call that rounds pays for it with the unit it is counted for (`CallCovers`).
  Summed up over the stakers by `TotalLinear`, that is `BackedUpToDust`.
* **Packets** (`Services_proofs`). `PacketInv` is the type of the data, that an insert in flight has a
  funding transfer behind it, that a packet is born without claims, `SharesFit` and
  `PacketsAreBacked`. `NextShares` is bounded by cases, and the sum of the claims moves by the share
  claimed or released. The unique index on the funding hash is the guard `Fileable`. `MoneyInv` adds,
  while no wait has thrown, that a claim has one job that works on it or one payout, of the share it
  took, and that a share is released only with no payout out (`MoneyOK`); hence
  `PacketPayoutsStayFunded`.
* **Top ups** (`Services_proofs`). `TopupInv`: at most one invocation is past the claim of an order,
  an order has one invoice, the row is `crediting` while somebody holds it, history is owed by the
  one that paid, and payouts are counted against the waits that threw. `TopupBooksFollowMoney` is that
  and no more: the second payout after a thrown wait is allowed for, because it happens
  (`topup_twice`). `ScreenIsNotTooEarly`: what the screen says after the window is closed, it says of
  an order it has looked at.
* **Recovery** (`Recovery_proofs`). `RecoveryInv` is `TypeOK`, `RowsOK` (only seats vote, and a
  majority that is written is one of votes) and `JobsOK` (what a handler has read, it may still rely
  on: from its decision to the move the request has the votes for its bar). The reads are stale by
  then, so the argument is that votes and seats only grow and a bar, once fixed, stays
  (`StepRequest`, `VouchedStays`); an undone mail takes `reached` back but no vote. Hence
  `MoveIsVouched`. `FinishInv` adds that a request past its claim is approved or filed as expired,
  which gives `OneFinisher`, and with it `RejectionIsFinal`: the one write that opens a request
  again is a release, and it finds a claimed request, never a rejected one. `SignOutsAreFinal` rests
  on the version growing with every sign-out until the first finish link; `MajoritiesAreHeard` on
  `HeardInv`: the last vote to be written is counted by the handler that wrote it, so a majority
  nobody has decided on has such a handler on its way.
* **Accounts** (`Accounts_proofs`), one invariant for each part.
  `NoncesAreSafe`: the nonces in use are as many as the transactions the node took, so a reservation
  that was given up is given to another send (`NothingMissing`). `WalletsAreBoundForGood`: what a
  provision is about to bind is the wallet of its user id, and an account with an older one is given
  another only where its row was read in vain (`lost`).
  `LimitsAreKept`: what is signed is the ledger and one amount for each invocation between its check
  and its record; the drips sent are those counted and, for each failure nobody noticed, at most a
  cap more (`DripsTracked`). `OwnerHears`: a
  written guardian was told of, or is covered by a notice under way, or both were lost.
  `SpentIsSpent` and `CodesAreKept`: codes are made in order and only the last is alive, every guess
  that passed was counted by the conditional increment before the hash was compared, a win has its
  try paid, and two sign-ins on one number end in one account.
* **Payments** (`Payments_proofs`). `PaidIsBacked` is not inductive: the receipt is read before the
  claim. `JobsOK` says what a handler that runs may rely on (its receipt, its payer's right to the
  share, the row it wrote, that no share was open when it goes on to settle, or the read of them failed), and `StepKeeps` why it
  may: no step changes a started payment, a debt's amount, a row or what settled a debt. Hence
  `PaidDebtsAreBacked`, `DebtsArePaidOnce`, `SettledBillsArePaid` and, with `FeesDue` (a device is
  sent on to its fee only after the row), `FeesFollowPayments`. `ToldOnce` needs `Tellings`: the
  claim of a debt and the first row of a transfer are each taken by one handler, which has yet to
  tell. The unique index on the hash is what makes the first row one (`FirstRecord`). `MoreInv` is
  about what holds while nothing fails: a payment that was mined has its row or a handler that will
  write it, a wallet covers the payments checked and their fees as long as its owner's do not
  overlap, and while every share is paid and the bill open, a handler is on its way to closing it.
  Hence `BooksFollowChain` and `BillsClose`. Beside them, `StakesInv` (the row of a stake tells what
  its transaction did) and `ApprovalInv`, from which `ApprovalsAreNotRepeated`.
* **Bills** (`Payments_proofs`). `BillsAreExact` is about every number of people, lines and cents.
  `SplitBill` adds up with the fold of the community modules. `FoldIsCount` shows that the fold has a
  value, which its definition only chooses, and that this value is a count of units; from there on
  sums are linear, can be split and exchanged (`SumsAreLinear`, `SumsApart`, `SumsExchange`).
  `AllocateAddsUp` is the point of `split-bill-math.ts`: shares rounded one by one come to the amount,
  because the first of the largest weights takes the difference, and there is such a one.
  `EvenSharesAddUp` is the same of the server's own division.
* **Screens** (`Screens_proofs`), one invariant for each of the nine, over any sets of people, tabs,
  codes and guardians. `ScreensInv` says that the part a behaviour is about keeps its own; a step of
  it is one of its module, or leaves its variables alone. They have one argument in common: what is
  under way was asked for what is on the screen, or the screen knows that it was not.
  `TransferInv`: unless a number is entered or chosen during a lookup (`mixed`), one lookup is out and
  the number shown is what it is for, and so is the name while no country code was changed under it
  (`LookedUp`); a sender who waits has one transfer under way, of what the review shows (`SendsAlone`).
  `OfframpFormInv`: one send runs and the stage is the one it is at, the hash is that of the
  destination shown (`HashIsShown`), and once a lock is on file Confirm does not come back
  (`FiledEndsIt`). `BrowserInv`: a connected wallet is of the account it is tagged for
  (`TaggedIsOwn`), and whatever is out is of the session's account, unless something was out when
  the session changed, or an action was under way (`OfTheSession`). `PacketScreenInv`: what a tab was told of a paid claim is
  still so, because a paid claim stays, and a tab that has its answer is of a paid claim whatever its
  reload brings. `PayScreenInv`: a request never changes its figure, and the
  open one of an opening is minted once (`RequestsKept`). `MerchantInv` is the property itself.
  `BillScreenInv`: an answer under way is of what the share is, or was before it was paid
  (`AnswersAreOld`). `RecoverScreenInv`: codes are numbered as they are sent, so a code is of one
  number (`CodesAreOnes`): who types a code they read, while the server finds it live on the number
  in the field, has that number's messages (`PageKeepsNumber`); and in one round the request only
  goes on (`StageGoesOn`), so a vote that counted still counts, and a no that was written still closes it. `SecurityInv`: a list that was
  loaded since the last call, and since the last one that was left under way, is still so
  (`ListIsFresh`), and nobody the walkthrough asks was among
  those it found (`FoundAreAsked`).

### What proving changed in the models

A proof that failed for a good reason showed something the runs had not.

* `SignInScreen` refused less than the form: a person who goes back can spend a try on a code asked
  for under another number. The history variable `wentBack` and `CodesHold` say so now.
* `PaidIsNotCalledOff` asked that no answer had been dropped; it holds without that.
* `HistoryMirrorsChain` spoke of payments with a handler; it is now of every payment that is over.
* `Payments` let a bill have no shares, which `api/split-bill/route.ts:143` refuses; then nothing
  would close it. `Share # {}` is an assumption.
* `MCScreens` fixed the sets of its screens; they are constants now, so that the theorems are of any
  people, tabs, envelopes and figures. `ScreensAssumption` is all it takes: what stands for nobody
  and nothing is not among them, and the people counted are finitely many.
* `OfTheSession` was not inductive before it said that no answer of `/api/me` is out while a sign-in
  waits for its wallet: `app/get-started/page.tsx:194` asks only after that.
* `OfTheSession` was not inductive with an action under way over a sign-out either: `crossed` had to
  remember that too.
* The conditions the code relies on without saying so (positive amounts, at least one slot, rates
  above zero) became named assumptions, which TLC evaluates with the constants of the runs.

### Model-checked only

* Everything temporal under fairness: `LocksEnd`, `PaidIsCredited`, `ClaimEnds`. Liveness and
  `ENABLED` are beyond the proof system.
* What the violations show is a counterexample each, and nothing to prove.

## What is not modelled

* Re-entrancy within a transaction: the guard makes a call atomic, and whether the guard works is
  OpenZeppelin's business.
* The schema. Unique indexes, the guardian trigger and the SQL functions (`claim_packet`,
  `migrate_phone_hash`) are not in the repository; each is modelled from how its caller uses it and
  marked external in `PROJECT.json`.
* Packets have no refund of an expired remainder, so there is nothing to model: what is left stays in
  the treasury.
* Rate limiter, notifications and push: one call each that fails open or is best effort; nothing
  decides on them. Prices, fees and currencies: floating point conversions without state; a quote
  enters as a number. Compliance, contacts and profile: single row edits. Receipt reading: parsing
  and drawing. Other screens, themes, the envelope's drawing and the extension's shell: they show
  what a call answered, or start a handler that is modelled elsewhere.
* Of the mocks and deployment scripts, only what the escrow sees of a router and a feed.
* Screens and handlers are not composed with each other state by state: the screen's module has the
  few server states its screen can see, which keeps both small enough to check. `Offramp` over the
  contract and `Recovery` over `Sessions` are real compositions.
* Known and without a property, or with one that speaks of less: see the notes of the hazards in
  `PROJECT.json` (the second history row of a lock posted twice, the refund row lost with its
  invocation, a packet share paid twice after a wait that threw, one transfer filed for two debts of
  one payee).

## The plan

Done, in this order: the escrow and its proofs, the off-ramp over it, staking and its proofs, top
ups, packets and their proofs, recovery over sessions and its proofs; then codes, guardians, the
backup address, signing, wallets and nonces; payments and bills and their proofs; the screens.

After that, the theorems: the refinement of `OfframpPromise` and the tables; top ups and the money
of packets; sign-outs and majorities; the parts of an account; the history, bills and approvals;
the dust of staking; the waiting screen; the arithmetic of a bill.
Last, the invariants of the nine screens.

What is left is out of the provers' reach (liveness), or a composition too large to check: a screen
with the handlers it calls, state by state.
