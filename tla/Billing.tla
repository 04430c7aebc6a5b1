------------------------------ MODULE Billing ------------------------------
(***************************************************************************)
(* Invoices and Razorpay payments: createInvoice, createRazorpayOrder and  *)
(* verifyRazorpayPayment of BillingService                                 *)
(* (modules/billing/billing.service.ts).  Both payment handlers read the   *)
(* invoice first and act on that read later: the order after the provider  *)
(* answered, the payment in a transaction that writes the sum it computed  *)
(* before.  Payment ids are left out: a payment the provider signed is of   *)
(* one order, and an id that is in use elsewhere makes the update fail,    *)
(* which changes nothing.                                                  *)
(*                                                                         *)
(* Amounts are in hundredths, as the columns store them.  The code adds     *)
(* and compares them as binary fractions, a given amountPaid with any      *)
(* digits at all, and only the store rounds: the sum is off by less than    *)
(* half a hundredth, so its comparison with the total goes either way when *)
(* what is stored equals the total, and no way but the right one else.      *)
(***************************************************************************)
EXTENDS Integers, FiniteSets

CONSTANTS
  Invoice, Order, Slot,
  Totals,      \* the totalAmount an invoice may have
  LeastOrder,  \* the least amount an order may name (@Min(1), a hundred)
  MaxCredit,   \* bound on what the verifications for an invoice add up to
  MaxLoad      \* how many requests are in flight at most

VARIABLES
  load,        \* how many requests overlap at most
  invoice,     \* Invoice rows
  ledger,      \* PaymentLedger rows, by providerOrderId
  credited,    \* history: what the verifications for an invoice have added
  billingReq   \* the request in flight in each slot

vars == <<load, invoice, ledger, credited, billingReq>>

----------------------------------------------------------------------------
Unissued == [status |-> "none"]
InvoiceRow == [status : {"UNPAID", "PARTIAL", "PAID"}, total : Totals, paid : Nat]
NoOrder == [status |-> "none"]
LedgerRow == [status : {"CREATED", "CAPTURED", "FAILED"}, invoice : Invoice, amount : Nat \ {0}]
Idle == [op |-> "idle"]

Issued == {i \in Invoice : invoice[i] # Unissued}
Ordered == {o \in Order : ledger[o] # NoOrder}
Busy == {sl \in Slot : billingReq[sl] # Idle}

Enter(sl, q) ==
  /\ sl \notin Busy
  /\ Cardinality(Busy) < load
  /\ billingReq' = [billingReq EXCEPT ![sl] = q]

Finish(sl) == billingReq' = [billingReq EXCEPT ![sl] = Idle]

----------------------------------------------------------------------------
CreateInvoice ==
  \E i \in Invoice \ Issued, total \in Totals :
    /\ invoice' = [invoice EXCEPT ![i] = [status |-> "UNPAID", total |-> total, paid |-> 0]]
    /\ UNCHANGED <<load, ledger, credited, billingReq>>

Outstanding(i) == invoice[i].total - invoice[i].paid

(* All that is outstanding, or a part of it; no order for nothing.         *)
ReadForOrder(sl) ==
  \E i \in Issued :
    \E amount \in {Outstanding(i)} \cup LeastOrder..Outstanding(i) :
      /\ amount > 0
      /\ Enter(sl, [op |-> "order", invoice |-> i, amount |-> amount])
      /\ UNCHANGED <<load, invoice, ledger, credited>>

ProviderRefuses(sl) ==
  /\ billingReq[sl].op = "order"
  /\ Finish(sl)
  /\ UNCHANGED <<load, invoice, ledger, credited>>

CreateOrder(sl) ==
  LET q == billingReq[sl] IN
    /\ q.op = "order"
    /\ \E o \in Order \ Ordered :
         ledger' = [ledger EXCEPT ![o] =
           [status |-> "CREATED", invoice |-> q.invoice, amount |-> q.amount]]
    /\ Finish(sl)
    /\ UNCHANGED <<load, invoice, credited>>

----------------------------------------------------------------------------
(* Whatever the status of the ledger row; amountPaid may be given.         *)
ReadForVerify(sl) ==
  \E o \in Ordered :
    \E amountPaid \in {ledger[o].amount} \cup 1..MaxCredit :
      /\ credited[ledger[o].invoice] + amountPaid <= MaxCredit
      /\ Enter(sl, [op |-> "verify", order |-> o, amountPaid |-> amountPaid,
                    read |-> invoice[ledger[o].invoice]])
      /\ UNCHANGED <<load, invoice, ledger, credited>>

RejectSignature(sl) ==
  LET q == billingReq[sl] IN
    /\ q.op = "verify"
    /\ ledger' = [ledger EXCEPT ![q.order].status = "FAILED"]
    /\ Finish(sl)
    /\ UNCHANGED <<load, invoice, credited>>

(* fault: the amount paid before is compared *)
SettlesFaultOldAmount(read, amountPaid) == {read.paid >= read.total}

(* nextPaid >= invoiceTotal, before nextPaid is rounded                    *)
Settles(read, amountPaid) ==
  LET nextPaid == read.paid + amountPaid IN
    IF nextPaid = read.total THEN BOOLEAN ELSE {nextPaid > read.total}

AfterPayment(read, amountPaid, settles) ==
  [read EXCEPT !.paid = read.paid + amountPaid, !.status = IF settles THEN "PAID" ELSE "PARTIAL"]

CommitVerify(sl) ==
  LET q == billingReq[sl] IN
    /\ q.op = "verify"
    /\ ledger' = [ledger EXCEPT ![q.order].status = "CAPTURED"]
    /\ \E settles \in Settles(q.read, q.amountPaid) :
         invoice' = [invoice EXCEPT ![ledger[q.order].invoice] =
                       AfterPayment(q.read, q.amountPaid, settles)]
    /\ credited' = [credited EXCEPT ![ledger[q.order].invoice] = @ + q.amountPaid]
    /\ Finish(sl)
    /\ UNCHANGED load

----------------------------------------------------------------------------
Init ==
  /\ load \in 1..MaxLoad
  /\ invoice = [i \in Invoice |-> Unissued]
  /\ ledger = [o \in Order |-> NoOrder]
  /\ credited = [i \in Invoice |-> 0]
  /\ billingReq = [sl \in Slot |-> Idle]

Next ==
  \/ CreateInvoice
  \/ \E sl \in Slot :
       \/ ReadForOrder(sl)
       \/ ProviderRefuses(sl)
       \/ CreateOrder(sl)
       \/ ReadForVerify(sl)
       \/ RejectSignature(sl)
       \/ CommitVerify(sl)

Spec == Init /\ [][Next]_vars

----------------------------------------------------------------------------
(* Properties *)

(* The rows of the tables have the columns of the schema.                  *)
TypeOK ==
  /\ load \in 1..MaxLoad
  /\ invoice \in [Invoice -> InvoiceRow \cup {Unissued}]
  /\ ledger \in [Order -> LedgerRow \cup {NoOrder}]
  /\ credited \in [Invoice -> Nat]

(* The amount an invoice says was paid is what its verifications add up to  *)
(* while requests come one at a time; when they overlap it may miss some of *)
(* them, but invents nothing.  Its status is that of this amount, except   *)
(* that an invoice paid exactly may say either PAID or PARTIAL.            *)
BooksBalance ==
  \A i \in Issued :
    LET row == invoice[i] IN
      /\ row.paid <= credited[i]
      /\ load = 1 => row.paid = credited[i]
      /\ row.status = "UNPAID" <=> row.paid = 0
      /\ row.status = "PARTIAL" => row.paid <= row.total
      /\ row.status = "PAID" => row.paid >= row.total
=============================================================================
