----------------------------- MODULE BatchPayout -----------------------------
(***************************************************************************)
(* contracts/batch_payout: one transaction pays many recipients.  The      *)
(* contract stores nothing; what makes it hard is inside one call, a loop  *)
(* of transfers of which any may be refused.  So here a call is taken step *)
(* by step: the lines are judged and totalled one at a time, then the      *)
(* funder's signature is required, then the lines are paid one at a time,  *)
(* and a failure anywhere gives back the balances the call found.          *)
(***************************************************************************)
EXTENDS CheckedMath, Ledger, Sequences, FiniteSets

Sets == INSTANCE FiniteSetsExt

CONSTANTS
    MaxRecipients,  \* MAX_RECIPIENTS, scaled down
    PayAmounts,     \* the amounts offered in a line
    NoReceipt       \* no call has succeeded since the last one began

ASSUME BatchAssumption ==
    /\ MaxRecipients \in Nat \ {0}
    /\ PayAmounts \subseteq I128

\* An address is an identifier of 32 bytes.
ASSUME AddressAssumption == IsFiniteSet(Holders)

VARIABLES
    call,    \* the call under way, with its local variables
    receipt  \* what the last successful call returned and published

batchVars == <<call, receipt>>
vars == <<ledgerVars, batchVars>>

-----------------------------------------------------------------------------

Payments == [to : Holders, amount : I128]

Entries == {"execute", "execute_equal"}
Phases  == {"Totalling", "Paying", "Failed"}
Replies == {"Ok", "BatchEmpty", "BatchTooLarge", "IdenticalParties", "InvalidAmount",
            "Overflow", "HostAuthError", "TokenError"}

\* `totals`, `share` and `undo` are not locals of the code: the running totals,
\* what the token moved to each holder, and the balances the host restores.
Calls ==
    [entry  : Entries,
     signer : Signers,
     funder : Signers,
     lines  : Seq(Payments),
     phase  : Phases,
     reply  : Replies,
     totals : Seq(0..I128Max),
     total  : 0..I128Max,
     paid   : Nat,
     share  : [Holders -> Nat],
     undo   : [Holders -> Nat]]

\* Between two calls.
NoCall == [phase |-> "Idle"]

\* Receipt with the funder of the event; `share` is history.
Receipts ==
    [payer : Signers,
     count : 1..MaxRecipients,
     total : 0..I128Max,
     share : [Holders -> Nat]]

Init ==
    /\ LedgerInit
    /\ call = NoCall
    /\ receipt = NoReceipt

-----------------------------------------------------------------------------
(* Validation.                                                             *)

\* Mutant: no upper bound.
CheckSizeAny(len) == Require(len > 0, "BatchEmpty")

\* check_size and check_size_of
CheckSize(len) ==
    Require(len > 0, "BatchEmpty") ?? Require(len <= MaxRecipients, "BatchTooLarge")

\* One turn of the first loop: the running total, or why the line is refused.
AddLine(total, line) ==
    LET sum == Add(total, line.amount)
        err == Require(line.to # Self, "IdenticalParties")
                   ?? Require(line.amount > 0, "InvalidAmount")
                   ?? sum.err
    IN  IF err = "Ok" THEN sum ELSE Err(err)

\* The view `preview`: the loop of `execute`, written out a second time.
Preview(lines) ==
    LET totalled[i \in 0..Len(lines)] ==
            IF i = 0 THEN Ok(0)
            ELSE IF totalled[i - 1].err = "Ok"
                 THEN AddLine(totalled[i - 1].val, lines[i])
                 ELSE totalled[i - 1]
        size == CheckSize(Len(lines))
    IN  IF size = "Ok" THEN totalled[Len(lines)] ELSE Err(size)

\* Mutant: the product is not checked.
EqualTotalWrapping(amount, count) == Ok((amount * count) % (I128Max + 1))

EqualTotal(amount, count) == Mul(amount, count)

\* The checks of `execute_equal`, in its order.
EqualReply(recipients, amount) ==
    Require(amount > 0, "InvalidAmount")
        ?? CheckSize(Len(recipients))
        ?? Require(\A i \in DOMAIN recipients : recipients[i] # Self, "IdenticalParties")
        ?? EqualTotal(amount, Len(recipients)).err

-----------------------------------------------------------------------------
(* A call begins.                                                          *)

Opened(entry, signer, funder, lines, reply, totals, total) ==
    [entry  |-> entry,
     signer |-> signer,
     funder |-> funder,
     lines  |-> lines,
     phase  |-> IF reply = "Ok" THEN "Totalling" ELSE "Failed",
     reply  |-> reply,
     totals |-> totals,
     total  |-> total,
     paid   |-> 0,
     share  |-> [h \in Holders |-> 0],
     undo   |-> balance]

Execute(signer, funder, lines) ==
    /\ call' = Opened("execute", signer, funder, lines, CheckSize(Len(lines)), <<>>, 0)
    /\ receipt' = NoReceipt
    /\ UNCHANGED ledgerVars

\* The same amount to everybody: the total is a product, there is no loop.
ExecuteEqual(signer, funder, recipients, amount) ==
    LET reply == EqualReply(recipients, amount)
        lines == [i \in DOMAIN recipients |-> [to |-> recipients[i], amount |-> amount]]
    IN  /\ call' = IF reply = "Ok"
                   THEN Opened("execute_equal", signer, funder, lines, reply,
                               [i \in DOMAIN recipients |-> amount * i],
                               EqualTotal(amount, Len(recipients)).val)
                   ELSE Opened("execute_equal", signer, funder, lines, reply, <<>>, 0)
        /\ receipt' = NoReceipt
        /\ UNCHANGED ledgerVars

-----------------------------------------------------------------------------
(* The steps of a call.                                                    *)

Fails(reply) == call' = [call EXCEPT !.phase = "Failed", !.reply = reply]

Totalled == Len(call.totals) = Len(call.lines)

TotalLine ==
    /\ call.phase = "Totalling" /\ ~Totalled
    /\ LET sum == AddLine(call.total, call.lines[Len(call.totals) + 1])
       IN  IF sum.err = "Ok"
           THEN call' = [call EXCEPT !.totals = Append(@, sum.val), !.total = sum.val]
           ELSE Fails(sum.err)
    /\ UNCHANGED <<ledgerVars, receipt>>

RequireFunder ==
    /\ call.phase = "Totalling" /\ Totalled
    /\ IF RequireAuth(call.signer, call.funder) = "Ok"
       THEN call' = [call EXCEPT !.phase = "Paying"]
       ELSE Fails("HostAuthError")
    /\ UNCHANGED <<ledgerVars, receipt>>

\* Mutant: a line of `execute_equal` pays the whole total.
LineAmountTotal(line) == IF call.entry = "execute_equal" THEN call.total ELSE line.amount

LineAmount(line) == line.amount

\* Mutant: a line that pays the funder is passed over.
TransferLineToOthers ==
    /\ call.phase = "Paying" /\ call.paid < Len(call.lines)
    /\ LET line == call.lines[call.paid + 1]
           to   == line.to
       IN  IF to = call.funder
           THEN call' = [call EXCEPT !.paid = @ + 1] /\ UNCHANGED balance
           ELSE IF TransferReply(balance, call.funder, to, line.amount) = "Ok"
           THEN /\ balance' = Transferred(balance, call.funder, to, line.amount)
                /\ call' = [call EXCEPT !.paid = @ + 1, !.share[to] = @ + line.amount]
           ELSE Fails("TokenError") /\ UNCHANGED balance
    /\ UNCHANGED <<now, frozen, strays, receipt>>

TransferLine ==
    /\ call.phase = "Paying" /\ call.paid < Len(call.lines)
    /\ LET line   == call.lines[call.paid + 1]
           to     == line.to
           amount == LineAmount(line)
       IN  IF TransferReply(balance, call.funder, to, amount) = "Ok"
           THEN /\ balance' = Transferred(balance, call.funder, to, amount)
                /\ call' = [call EXCEPT !.paid = @ + 1, !.share[to] = @ + amount]
           ELSE Fails("TokenError") /\ UNCHANGED balance
    /\ UNCHANGED <<now, frozen, strays, receipt>>

Return ==
    /\ call.phase = "Paying" /\ call.paid = Len(call.lines)
    /\ receipt' = [payer |-> call.funder,
                   count |-> Len(call.lines),
                   total |-> call.total,
                   share |-> call.share]
    /\ call' = NoCall
    /\ UNCHANGED ledgerVars

\* Mutant: what was paid before the failure stays paid.
RevertKeepingPayments ==
    /\ call.phase = "Failed"
    /\ call' = NoCall
    /\ UNCHANGED <<ledgerVars, receipt>>

\* The host undoes the transfers already made.
Revert ==
    /\ call.phase = "Failed"
    /\ balance' = call.undo
    /\ call' = NoCall
    /\ UNCHANGED <<now, frozen, strays, receipt>>

-----------------------------------------------------------------------------

Sequences(S) == UNION {[1..n -> S] : n \in 0..(MaxRecipients + 1)}

Begin ==
    /\ call.phase = "Idle"
    /\ \E signer \in Signers, funder \in Signers :
           \/ \E lines \in Sequences([to : Holders, amount : PayAmounts]) :
                  Execute(signer, funder, lines)
           \/ \E recipients \in Sequences(Holders), amount \in PayAmounts :
                  ExecuteEqual(signer, funder, recipients, amount)

Next ==
    \/ Begin
    \/ TotalLine \/ RequireFunder \/ TransferLine \/ Return \/ Revert
    \/ call.phase = "Idle" /\ LedgerNext /\ UNCHANGED batchVars

Spec == Init /\ [][Next]_vars

-----------------------------------------------------------------------------
(* Properties.                                                             *)

\* Every variable holds a value of its type.
TypeOK ==
    /\ LedgerTypeOK
    /\ call \in {NoCall} \cup Calls
    /\ receipt \in {NoReceipt} \cup Receipts

\* "The sum actually moved" (Receipt in types.rs): the receipt's total is the
\* sum of what the token moved to each recipient in that call, whether it was
\* added up line by line or multiplied out.
ReceiptIsExact ==
    receipt # NoReceipt =>
        receipt.total = Sets!MapThenSumSet(LAMBDA h : receipt.share[h], Holders)

\* The comment of preview: it "runs exactly the validation `execute` does".
\* A call of either entry point that preview accepts fails only for want of a
\* signature or in the token, with preview's total; one preview refuses is
\* refused by both, and by `execute` for the same reason.
PreviewAgrees ==
    call.phase \in {"Paying", "Failed"} =>
        LET preview == Preview(call.lines)
        IN  IF call.phase = "Paying" \/ call.reply \in {"HostAuthError", "TokenError"}
            THEN preview = Ok(call.total)
            ELSE /\ preview.err # "Ok"
                 /\ call.entry = "execute" => preview.err = call.reply

\* A funder that holds the total pays the batch: as long as the issuer has
\* frozen none of those it names, no line is refused in the middle, in whatever
\* order the lines are and however many of them pay the funder itself.
CoveredBatchesPay ==
    call.phase = "Failed" /\ call.reply = "TokenError" =>
        \/ call.undo[call.funder] < call.total
        \/ call.funder \in frozen
        \/ \E i \in DOMAIN call.lines : call.lines[i].to \in frozen

\* The balances outside of a call that is under way.
Committed == IF call.phase = "Idle" THEN balance ELSE call.undo

\* "Nobody is paid unless everybody is" (comment of execute): what a call that
\* is under way has moved is not there yet.
Payout == INSTANCE Payout WITH balance <- Committed

ImplementsPayout == Payout!Spec

=============================================================================
