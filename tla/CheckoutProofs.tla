--------------------------- MODULE CheckoutProofs ---------------------------
(***************************************************************************)
(* Proofs about the page of a game, for any number of accounts, invoices   *)
(* and calls.                                                              *)
(***************************************************************************)
EXTENDS Checkout, TLAPS

(* The invoice stays while it is being paid. *)
PayingKeepsInvoice == \A i \in Slots : Awaited(i, "pay") => calls[i].inv = page.invoice

(* Only a running download belongs to an attempt. *)
AttemptInstalls == page.attempt # None => page.op = "installing"

(* A page that was left is blank and waits for nothing. *)
LeftIsBlank == ~page.open => page = Closed /\ \A i \in Slots : ~Pending(i)

(* Nobody waits for a free slot, and a positive answer is backed.          *)
AnswersBacked ==
  \A i \in Slots :
    /\ Is(i, "none") => ~Pending(i)
    /\ calls[i].said # "nothing" => calls[i].at = "done"
    /\ calls[i].said = "ok" => calls[i].as \in holders
    /\ calls[i].said = "owned" => Is(i, "lookup") /\ calls[i].who \in holders

Inv ==
  /\ TypeOK
  /\ OperationAwaited
  /\ PayingKeepsInvoice
  /\ target # shown
  /\ AttemptInstalls
  /\ LeftIsBlank
  /\ AnswersBacked

-----------------------------------------------------------------------------
LEMMA Initially == Init => Inv
  BY CheckoutAssumption
  DEF Init, Inv, TypeOK, OperationAwaited, Stranded, PayingKeepsInvoice, AttemptInstalls,
      LeftIsBlank, AnswersBacked, Closed, NoCall, Call, Kinds, Ops, Says, Pages, Calls,
      Foreground, Pending, Awaited, Is, Amounts

-----------------------------------------------------------------------------
(***************************************************************************)
(* Calls                                                                   *)
(***************************************************************************)

LEMMA CallTyped ==
  ASSUME NEW k \in Kinds, NEW a \in Accounts \cup {None},
         NEW x \in Invoices \cup {None}, NEW p \in Invoices \cup {None}
  PROVE  /\ Call(k, a, x, p) \in Calls
         /\ Call(k, a, x, p).kind = k /\ Call(k, a, x, p).who = a
         /\ Call(k, a, x, p).inv = x
         /\ Call(k, a, x, p).said = "nothing"
  BY DEF Call, Calls, Says

LEMMA NoCallTyped ==
  /\ NoCall \in Calls
  /\ NoCall.kind = "none" /\ NoCall.who = None /\ NoCall.said = "nothing"
  BY DEF NoCall, Call, Calls, Says, Kinds

(* A step that gives slot i the call c leaves the others alone. *)
LEMMA Replaced ==
  ASSUME calls \in [Slots -> Calls], NEW i \in Slots, NEW c \in Calls,
         calls' = [calls EXCEPT ![i] = c]
  PROVE  /\ calls' \in [Slots -> Calls]
         /\ calls'[i] = c
         /\ \A j \in Slots : j # i => calls'[j] = calls[j]
  OBVIOUS

LEMMA Spent ==
  ASSUME left \in Amounts, Spend("visits") \/ Spend("invoices") \/ Spend("switches")
                           \/ Spend("downloads") \/ Spend("discoveries")
  PROVE  left' \in Amounts
<1>1. CASE Spend("visits")
  BY <1>1 DEF Spend, Amounts
<1>2. CASE Spend("invoices")
  BY <1>2, CheckoutAssumption DEF Spend, Amounts
<1>3. CASE Spend("switches")
  BY <1>3 DEF Spend, Amounts
<1>4. CASE Spend("downloads")
  BY <1>4 DEF Spend, Amounts
<1>5. CASE Spend("discoveries")
  BY <1>5 DEF Spend, Amounts
<1>6. QED
  BY <1>1, <1>2, <1>3, <1>4, <1>5

-----------------------------------------------------------------------------
(***************************************************************************)
(* What the steps have in common                                           *)
(***************************************************************************)

(* The operation of the page starts: nothing else was awaited. *)
LEMMA Begins ==
  ASSUME Inv, NEW i \in Slots, NEW c \in Calls, Start(i, c),
         page.op = "idle", c.who # None, <<c.kind, page'.op>> \in Operations
  PROVE  OperationAwaited'
<1>1. calls'[i] = c /\ \A j \in Slots : j # i => calls'[j] = calls[j]
  BY Replaced DEF Inv, TypeOK, Start
<1>2. \A j \in Slots : ~Foreground(j)
  BY DEF Inv, OperationAwaited, Operations
<1>3. \A j \in Slots : Foreground(j)' <=> j = i
  BY <1>1, <1>2 DEF Foreground, Pending, Operations
<1>4. page'.op # "installing"
  BY DEF Operations
<1>5. QED
  BY <1>1, <1>3, <1>4 DEF OperationAwaited

(* It ends. *)
LEMMA Ends ==
  ASSUME Inv, NEW i \in Slots, End(i), Foreground(i), page'.op = "idle"
  PROVE  OperationAwaited'
<1>1. calls'[i] = NoCall /\ \A j \in Slots : j # i => calls'[j] = calls[j]
  BY Replaced, NoCallTyped DEF Inv, TypeOK, End
<1>2. \A j \in Slots : Foreground(j) => j = i
  BY DEF Inv, OperationAwaited
<1>3. \A j \in Slots : ~Foreground(j)'
  BY <1>1, <1>2, NoCallTyped DEF Foreground, Pending
<1>4. QED
  BY <1>3 DEF OperationAwaited

(* A call that is not the operation starts or ends beside it, or a command *)
(* goes on.                                                                *)
LEMMA Beside ==
  ASSUME Inv, NEW i \in Slots, NEW c \in Calls, calls' = [calls EXCEPT ![i] = c],
         page'.op = page.op, page'.attempt = page.attempt, shown' = shown, Stranded => Stranded',
         \/ c.kind = calls[i].kind /\ c.who = calls[i].who
         \/ ~Foreground(i) /\ c.kind \in {"none", "lookup"} /\ ~Awaited(i, "install")
  PROVE  OperationAwaited'
<1>1. calls'[i] = c /\ \A j \in Slots : j # i => calls'[j] = calls[j]
  BY Replaced DEF Inv, TypeOK
<1>2. \A j \in Slots : Foreground(j)' <=> Foreground(j)
  BY <1>1 DEF Foreground, Pending
<1>3. \A j \in Slots : Foreground(j) => calls'[j].kind = calls[j].kind
  BY <1>1 DEF Foreground
<1>4. \A j \in Slots : Awaited(j, "install") => Awaited(j, "install")' /\ calls'[j].who = calls[j].who
  BY <1>1 DEF Awaited, Is, Pending
<1>5. QED
  BY <1>2, <1>3, <1>4 DEF Inv, OperationAwaited, Stranded

(* The call c that slot i gets is in order. *)
LEMMA InOrder ==
  ASSUME Inv, NEW i \in Slots, NEW c \in Calls, calls' = [calls EXCEPT ![i] = c],
         holders \subseteq holders',
         c.kind = "none" => c.who = None,
         c.said # "nothing" => c.at = "done",
         c.said = "ok" => c.as \in holders',
         c.said = "owned" => c.kind = "lookup" /\ c.who \in holders'
  PROVE  AnswersBacked'
<1>1. calls'[i] = c /\ \A j \in Slots : j # i => calls'[j] = calls[j]
  BY Replaced DEF Inv, TypeOK
<1>2. QED
  BY <1>1 DEF Inv, AnswersBacked, Is, Pending

(* A call gets on without ending, and the page does not know.              *)
LEMMA Advances ==
  ASSUME Inv, NEW i \in Slots, NEW c \in Calls, calls' = [calls EXCEPT ![i] = c],
         c.kind = calls[i].kind, c.who = calls[i].who, c.inv = calls[i].inv,
         page' = page, shown' = shown, paid' = paid
  PROVE  /\ calls' \in [Slots -> Calls]
         /\ OperationAwaited' /\ PayingKeepsInvoice' /\ AttemptInstalls' /\ LeftIsBlank'
<1>1. calls' \in [Slots -> Calls] /\ calls'[i] = c /\ \A j \in Slots : j # i => calls'[j] = calls[j]
  BY Replaced DEF Inv, TypeOK
<1>2. OperationAwaited'
  BY Beside DEF Stranded
<1>3. PayingKeepsInvoice'
  BY <1>1 DEF Inv, PayingKeepsInvoice, Awaited, Is, Pending
<1>4. AttemptInstalls' /\ LeftIsBlank'
  BY <1>1 DEF Inv, AttemptInstalls, LeftIsBlank, Pending
<1>5. QED
  BY <1>1, <1>2, <1>3, <1>4


LEMMA SwitchKeeps ==
  ASSUME Inv, NEW a \in Accounts, Switch(a)
  PROVE  Inv'
<1>1. TypeOK'
  BY Spent, CheckoutAssumption
  DEF Inv, Switch, TypeOK, Pages, Calls, Invoices, Ops, Kinds, Says
<1>2. OperationAwaited'
  BY CheckoutAssumption
  DEF Inv, Switch, TypeOK, OperationAwaited, Stranded, AttemptInstalls, LeftIsBlank, Pages, Calls,
      Invoices, Foreground, Operations, Awaited, Closed, Pending, Is
<1>3. PayingKeepsInvoice'
  BY CheckoutAssumption
  DEF Inv, Switch, TypeOK, OperationAwaited, PayingKeepsInvoice, LeftIsBlank, Pages, Calls,
      Invoices, Foreground, Operations, Awaited, Closed, Pending, Is
<1>4. (target # shown)'
  BY CheckoutAssumption
  DEF Inv, Switch, TypeOK, OperationAwaited, Pages, Calls, Invoices, Foreground, Operations,
      Awaited, Pending, Is
<1>5. AttemptInstalls'
  BY CheckoutAssumption
  DEF Inv, Switch, TypeOK, OperationAwaited, AttemptInstalls, LeftIsBlank, Pages, Calls,
      Invoices, Foreground, Operations, Awaited, Closed, Pending, Is
<1>6. LeftIsBlank'
  BY CheckoutAssumption
  DEF Inv, Switch, TypeOK, OperationAwaited, LeftIsBlank, AttemptInstalls, Pages, Calls,
      Invoices, Foreground, Operations, Awaited, Closed, Pending, Is
<1>7. AnswersBacked'
  BY CheckoutAssumption
  DEF Inv, Switch, TypeOK, OperationAwaited, AnswersBacked, Pages, Calls, Invoices, Foreground,
      Operations, Awaited, Is, Pending
<1>8. QED
  BY <1>1, <1>2, <1>3, <1>4, <1>5, <1>6, <1>7 DEF Inv

LEMMA SwitchedKeeps ==
  ASSUME Inv, Switched
  PROVE  Inv'
<1>1. TypeOK'
  BY CheckoutAssumption
  DEF Inv, Switched, TypeOK, Pages, Calls, Invoices, Ops, Kinds, Says
<1>2. OperationAwaited'
  BY CheckoutAssumption
  DEF Inv, Switched, TypeOK, OperationAwaited, Stranded, AttemptInstalls, LeftIsBlank, Pages,
      Calls, Invoices, Foreground, Operations, Awaited, Closed, Pending, Is
<1>3. PayingKeepsInvoice'
  BY CheckoutAssumption
  DEF Inv, Switched, TypeOK, OperationAwaited, PayingKeepsInvoice, LeftIsBlank, Pages, Calls,
      Invoices, Foreground, Operations, Awaited, Closed, Pending, Is
<1>4. (target # shown)'
  BY CheckoutAssumption
  DEF Inv, Switched, TypeOK, OperationAwaited, Pages, Calls, Invoices, Foreground, Operations,
      Awaited, Pending, Is
<1>5. AttemptInstalls'
  BY CheckoutAssumption
  DEF Inv, Switched, TypeOK, OperationAwaited, AttemptInstalls, LeftIsBlank, Pages, Calls,
      Invoices, Foreground, Operations, Awaited, Closed, Pending, Is
<1>6. LeftIsBlank'
  BY CheckoutAssumption
  DEF Inv, Switched, TypeOK, OperationAwaited, LeftIsBlank, AttemptInstalls, Pages, Calls,
      Invoices, Foreground, Operations, Awaited, Closed, Pending, Is
<1>7. AnswersBacked'
  BY CheckoutAssumption
  DEF Inv, Switched, TypeOK, OperationAwaited, AnswersBacked, Pages, Calls, Invoices,
      Foreground, Operations, Awaited, Is, Pending
<1>8. QED
  BY <1>1, <1>2, <1>3, <1>4, <1>5, <1>6, <1>7 DEF Inv

LEMMA LeaveKeeps ==
  ASSUME Inv, Leave
  PROVE  Inv'
<1>1. \A i \in Slots :
        /\ calls'[i] \in Calls
        /\ calls'[i].who = None
        /\ calls'[i] = NoCall \/ (/\ calls'[i].said = calls[i].said
                                  /\ calls'[i].as = calls[i].as /\ IsAcquisition(i))
  <2> SUFFICES ASSUME NEW i \in Slots
               PROVE  /\ calls'[i] \in Calls
                      /\ calls'[i].who = None
                      /\ calls'[i] = NoCall \/ (/\ calls'[i].said = calls[i].said
                                                /\ calls'[i].as = calls[i].as
                                                /\ IsAcquisition(i))
    OBVIOUS
  <2>1. calls[i] \in Calls
    BY DEF Inv, TypeOK
  <2>2. calls'[i] = IF IsAcquisition(i) THEN [calls[i] EXCEPT !.who = None] ELSE NoCall
    BY DEF Leave
  <2>3. QED
    BY <2>1, <2>2, NoCallTyped DEF Calls
<1>2. Closed \in Pages /\ calls' \in [Slots -> Calls]
  BY <1>1 DEF Closed, Pages, Ops, Leave
<1>3. TypeOK'
  BY <1>2 DEF Leave, Inv, TypeOK, device
<1>4. \A i \in Slots : ~Foreground(i)' /\ ~Pending(i)'
  BY <1>1 DEF Foreground, Pending
<1>5. (OperationAwaited /\ PayingKeepsInvoice /\ AttemptInstalls /\ LeftIsBlank)'
  BY <1>4 DEF Leave, OperationAwaited, Stranded, PayingKeepsInvoice, AttemptInstalls, LeftIsBlank,
      Awaited, Closed
<1>6. AnswersBacked'
  BY <1>1, <1>4, NoCallTyped DEF Leave, Inv, AnswersBacked, device, Is, Pending, IsAcquisition
<1>7. QED
  BY <1>3, <1>5, <1>6 DEF Inv, Leave, device

LEMMA DiscoverKeeps ==
  ASSUME Inv, NEW o \in {"unknown", "none", "active"}, Discover(o)
  PROVE  Inv'
<1>1. TypeOK'
  BY Spent, CheckoutAssumption
  DEF Inv, Discover, TypeOK, device, Pages, Calls, Invoices, Ops, Kinds, Says
<1>2. OperationAwaited'
  BY CheckoutAssumption
  DEF Inv, Discover, TypeOK, OperationAwaited, Stranded, AttemptInstalls, LeftIsBlank, device,
      Pages, Calls, Invoices, Foreground, Operations, Awaited, Closed, Pending, Is
<1>3. PayingKeepsInvoice'
  BY CheckoutAssumption
  DEF Inv, Discover, TypeOK, OperationAwaited, PayingKeepsInvoice, LeftIsBlank, device, Pages,
      Calls, Invoices, Foreground, Operations, Awaited, Closed, Pending, Is
<1>4. (target # shown)'
  BY CheckoutAssumption
  DEF Inv, Discover, TypeOK, OperationAwaited, device, Pages, Calls, Invoices, Foreground,
      Operations, Awaited, Pending, Is
<1>5. AttemptInstalls'
  BY CheckoutAssumption
  DEF Inv, Discover, TypeOK, OperationAwaited, AttemptInstalls, LeftIsBlank, device, Pages,
      Calls, Invoices, Foreground, Operations, Awaited, Closed, Pending, Is
<1>6. LeftIsBlank'
  BY CheckoutAssumption
  DEF Inv, Discover, TypeOK, OperationAwaited, LeftIsBlank, AttemptInstalls, device, Pages,
      Calls, Invoices, Foreground, Operations, Awaited, Closed, Pending, Is
<1>7. AnswersBacked'
  BY CheckoutAssumption
  DEF Inv, Discover, TypeOK, OperationAwaited, AnswersBacked, device, Pages, Calls, Invoices,
      Foreground, Operations, Awaited, Is, Pending
<1>8. QED
  BY <1>1, <1>2, <1>3, <1>4, <1>5, <1>6, <1>7 DEF Inv

LEMMA SettleKeeps ==
  ASSUME Inv, NEW x \in Invoices, Settle(x)
  PROVE  Inv'
<1>1. TypeOK'
  BY CheckoutAssumption
  DEF Inv, Settle, TypeOK, Awaited, PanelOpen, Pages, Calls, Invoices, Is, Pending, Ops, Kinds,
      Says
<1>2. OperationAwaited'
  BY CheckoutAssumption
  DEF Inv, Settle, TypeOK, OperationAwaited, Stranded, AttemptInstalls, LeftIsBlank, Awaited,
      PanelOpen, Pages, Calls, Invoices, Foreground, Operations, Closed, Pending, Is
<1>3. PayingKeepsInvoice'
  BY CheckoutAssumption
  DEF Inv, Settle, TypeOK, OperationAwaited, PayingKeepsInvoice, LeftIsBlank, Awaited,
      PanelOpen, Pages, Calls, Invoices, Foreground, Operations, Closed, Pending, Is
<1>4. (target # shown)'
  BY CheckoutAssumption
  DEF Inv, Settle, TypeOK, OperationAwaited, Awaited, PanelOpen, Pages, Calls, Invoices,
      Foreground, Operations, Is, Pending
<1>5. AttemptInstalls'
  BY CheckoutAssumption
  DEF Inv, Settle, TypeOK, OperationAwaited, AttemptInstalls, LeftIsBlank, Awaited, PanelOpen,
      Pages, Calls, Invoices, Foreground, Operations, Closed, Pending, Is
<1>6. LeftIsBlank'
  BY CheckoutAssumption
  DEF Inv, Settle, TypeOK, OperationAwaited, LeftIsBlank, AttemptInstalls, Awaited, PanelOpen,
      Pages, Calls, Invoices, Foreground, Operations, Closed, Pending, Is
<1>7. AnswersBacked'
  BY CheckoutAssumption
  DEF Inv, Settle, TypeOK, OperationAwaited, AnswersBacked, Awaited, PanelOpen, Pages, Calls,
      Invoices, Foreground, Operations, Is, Pending
<1>8. QED
  BY <1>1, <1>2, <1>3, <1>4, <1>5, <1>6, <1>7 DEF Inv

LEMMA PasteKeeps ==
  ASSUME Inv, NEW x \in Invoices, Paste(x)
  PROVE  Inv'
<1>1. TypeOK'
  BY CheckoutAssumption
  DEF Inv, Paste, TypeOK, PanelOpen, device, Pages, Calls, Invoices, Ops, Kinds, Says
<1>2. OperationAwaited'
  BY CheckoutAssumption
  DEF Inv, Paste, TypeOK, OperationAwaited, Stranded, AttemptInstalls, LeftIsBlank, PanelOpen,
      device, Pages, Calls, Invoices, Foreground, Operations, Awaited, Closed, Pending, Is
<1>3. PayingKeepsInvoice'
  BY CheckoutAssumption
  DEF Inv, Paste, TypeOK, OperationAwaited, PayingKeepsInvoice, LeftIsBlank, PanelOpen, device,
      Pages, Calls, Invoices, Foreground, Operations, Awaited, Closed, Pending, Is
<1>4. (target # shown)'
  BY CheckoutAssumption
  DEF Inv, Paste, TypeOK, OperationAwaited, PanelOpen, device, Pages, Calls, Invoices,
      Foreground, Operations, Awaited, Pending, Is
<1>5. AttemptInstalls'
  BY CheckoutAssumption
  DEF Inv, Paste, TypeOK, OperationAwaited, AttemptInstalls, LeftIsBlank, PanelOpen, device,
      Pages, Calls, Invoices, Foreground, Operations, Awaited, Closed, Pending, Is
<1>6. LeftIsBlank'
  BY CheckoutAssumption
  DEF Inv, Paste, TypeOK, OperationAwaited, LeftIsBlank, AttemptInstalls, PanelOpen, device,
      Pages, Calls, Invoices, Foreground, Operations, Awaited, Closed, Pending, Is
<1>7. AnswersBacked'
  BY CheckoutAssumption
  DEF Inv, Paste, TypeOK, OperationAwaited, AnswersBacked, PanelOpen, device, Pages, Calls,
      Invoices, Foreground, Operations, Awaited, Is, Pending
<1>8. QED
  BY <1>1, <1>2, <1>3, <1>4, <1>5, <1>6, <1>7 DEF Inv

LEMMA AskClaimKeeps ==
  ASSUME Inv, AskClaim
  PROVE  Inv'
<1>1. TypeOK'
  BY CheckoutAssumption
  DEF Inv, AskClaim, TypeOK, Primary, device, Pages, Calls, Invoices, Ready, Ops, Kinds, Says
<1>2. OperationAwaited'
  BY CheckoutAssumption
  DEF Inv, AskClaim, TypeOK, OperationAwaited, Stranded, AttemptInstalls, LeftIsBlank, Primary,
      device, Pages, Calls, Invoices, Foreground, Operations, Awaited, Closed, Pending, Ready,
      Is
<1>3. PayingKeepsInvoice'
  BY CheckoutAssumption
  DEF Inv, AskClaim, TypeOK, OperationAwaited, PayingKeepsInvoice, LeftIsBlank, Primary,
      device, Pages, Calls, Invoices, Foreground, Operations, Awaited, Closed, Pending, Ready,
      Is
<1>4. (target # shown)'
  BY CheckoutAssumption
  DEF Inv, AskClaim, TypeOK, OperationAwaited, Primary, device, Pages, Calls, Invoices,
      Foreground, Operations, Awaited, Ready, Pending, Is
<1>5. AttemptInstalls'
  BY CheckoutAssumption
  DEF Inv, AskClaim, TypeOK, OperationAwaited, AttemptInstalls, LeftIsBlank, Primary, device,
      Pages, Calls, Invoices, Foreground, Operations, Awaited, Closed, Pending, Ready, Is
<1>6. LeftIsBlank'
  BY CheckoutAssumption
  DEF Inv, AskClaim, TypeOK, OperationAwaited, LeftIsBlank, AttemptInstalls, Primary, device,
      Pages, Calls, Invoices, Foreground, Operations, Awaited, Closed, Pending, Ready, Is
<1>7. AnswersBacked'
  BY CheckoutAssumption
  DEF Inv, AskClaim, TypeOK, OperationAwaited, AnswersBacked, Primary, device, Pages, Calls,
      Invoices, Foreground, Operations, Awaited, Is, Pending, Ready
<1>8. QED
  BY <1>1, <1>2, <1>3, <1>4, <1>5, <1>6, <1>7 DEF Inv

LEMMA CancelClaimKeeps ==
  ASSUME Inv, CancelClaim
  PROVE  Inv'
<1>1. TypeOK'
  BY CheckoutAssumption
  DEF Inv, CancelClaim, TypeOK, device, Pages, Calls, Invoices, Ops, Kinds, Says
<1>2. OperationAwaited'
  BY CheckoutAssumption
  DEF Inv, CancelClaim, TypeOK, OperationAwaited, Stranded, AttemptInstalls, LeftIsBlank,
      device, Pages, Calls, Invoices, Foreground, Operations, Awaited, Closed, Pending, Is
<1>3. PayingKeepsInvoice'
  BY CheckoutAssumption
  DEF Inv, CancelClaim, TypeOK, OperationAwaited, PayingKeepsInvoice, LeftIsBlank, device,
      Pages, Calls, Invoices, Foreground, Operations, Awaited, Closed, Pending, Is
<1>4. (target # shown)'
  BY CheckoutAssumption
  DEF Inv, CancelClaim, TypeOK, OperationAwaited, device, Pages, Calls, Invoices, Foreground,
      Operations, Awaited, Pending, Is
<1>5. AttemptInstalls'
  BY CheckoutAssumption
  DEF Inv, CancelClaim, TypeOK, OperationAwaited, AttemptInstalls, LeftIsBlank, device, Pages,
      Calls, Invoices, Foreground, Operations, Awaited, Closed, Pending, Is
<1>6. LeftIsBlank'
  BY CheckoutAssumption
  DEF Inv, CancelClaim, TypeOK, OperationAwaited, LeftIsBlank, AttemptInstalls, device, Pages,
      Calls, Invoices, Foreground, Operations, Awaited, Closed, Pending, Is
<1>7. AnswersBacked'
  BY CheckoutAssumption
  DEF Inv, CancelClaim, TypeOK, OperationAwaited, AnswersBacked, device, Pages, Calls,
      Invoices, Foreground, Operations, Awaited, Is, Pending
<1>8. QED
  BY <1>1, <1>2, <1>3, <1>4, <1>5, <1>6, <1>7 DEF Inv

LEMMA OpenKeeps ==
  ASSUME Inv, NEW i \in Slots, Open(i)
  PROVE  Inv'
<1>1. TypeOK'
  BY Spent, CheckoutAssumption
  DEF Inv, Open, TypeOK, Closed, Start, Call, device, Pages, Calls, Invoices, FirstFree, Ops,
      Kinds, Says, Is
<1>2. OperationAwaited'
  BY CheckoutAssumption
  DEF Inv, Open, TypeOK, OperationAwaited, Stranded, AttemptInstalls, LeftIsBlank, Closed,
      Start, Call, device, Pages, Calls, Invoices, Foreground, Operations, Awaited, Pending,
      FirstFree, Is
<1>3. PayingKeepsInvoice'
  BY CheckoutAssumption
  DEF Inv, Open, TypeOK, OperationAwaited, PayingKeepsInvoice, LeftIsBlank, Closed, Start,
      Call, device, Pages, Calls, Invoices, Foreground, Operations, Awaited, Pending,
      FirstFree, Is
<1>4. (target # shown)'
  BY CheckoutAssumption
  DEF Inv, Open, TypeOK, OperationAwaited, Closed, Start, Call, device, Pages, Calls, Invoices,
      Foreground, Operations, Awaited, FirstFree, Pending, Is
<1>5. AttemptInstalls'
  BY CheckoutAssumption
  DEF Inv, Open, TypeOK, OperationAwaited, AttemptInstalls, LeftIsBlank, Closed, Start, Call,
      device, Pages, Calls, Invoices, Foreground, Operations, Awaited, Pending, FirstFree, Is
<1>6. LeftIsBlank'
  BY CheckoutAssumption
  DEF Inv, Open, TypeOK, OperationAwaited, LeftIsBlank, AttemptInstalls, Closed, Start, Call,
      device, Pages, Calls, Invoices, Foreground, Operations, Awaited, Pending, FirstFree, Is
<1>7. AnswersBacked'
  BY CheckoutAssumption
  DEF Inv, Open, TypeOK, OperationAwaited, AnswersBacked, Closed, Start, Call, device, Pages,
      Calls, Invoices, Foreground, Operations, Awaited, Is, Pending, FirstFree
<1>8. QED
  BY <1>1, <1>2, <1>3, <1>4, <1>5, <1>6, <1>7 DEF Inv

LEMMA ForgetKeeps ==
  ASSUME Inv, NEW i \in Slots, Forget(i)
  PROVE  Inv'
<1>1. TypeOK'
  BY CheckoutAssumption
  DEF Inv, Forget, TypeOK, IsAcquisition, Pending, End, device, Pages, Calls, Invoices, Is,
      NoCall, Ops, Kinds, Says, Call
<1>2. OperationAwaited'
  BY CheckoutAssumption
  DEF Inv, Forget, TypeOK, OperationAwaited, Stranded, AttemptInstalls, LeftIsBlank, IsAcquisition,
      Pending, End, device, Pages, Calls, Invoices, Foreground, Operations, Awaited, Closed,
      Is, NoCall, Call
<1>3. PayingKeepsInvoice'
  BY CheckoutAssumption
  DEF Inv, Forget, TypeOK, OperationAwaited, PayingKeepsInvoice, LeftIsBlank, IsAcquisition,
      Pending, End, device, Pages, Calls, Invoices, Foreground, Operations, Awaited, Closed,
      Is, NoCall, Call
<1>4. (target # shown)'
  BY CheckoutAssumption
  DEF Inv, Forget, TypeOK, OperationAwaited, IsAcquisition, Pending, End, device, Pages, Calls,
      Invoices, Foreground, Operations, Awaited, Is, NoCall, Call
<1>5. AttemptInstalls'
  BY CheckoutAssumption
  DEF Inv, Forget, TypeOK, OperationAwaited, AttemptInstalls, LeftIsBlank, IsAcquisition,
      Pending, End, device, Pages, Calls, Invoices, Foreground, Operations, Awaited, Closed,
      Is, NoCall, Call
<1>6. LeftIsBlank'
  BY CheckoutAssumption
  DEF Inv, Forget, TypeOK, OperationAwaited, LeftIsBlank, AttemptInstalls, IsAcquisition,
      Pending, End, device, Pages, Calls, Invoices, Foreground, Operations, Awaited, Closed,
      Is, NoCall, Call
<1>7. AnswersBacked'
  BY CheckoutAssumption
  DEF Inv, Forget, TypeOK, OperationAwaited, AnswersBacked, IsAcquisition, Pending, End,
      device, Pages, Calls, Invoices, Foreground, Operations, Awaited, Is, NoCall, Call
<1>8. QED
  BY <1>1, <1>2, <1>3, <1>4, <1>5, <1>6, <1>7 DEF Inv

LEMMA FollowKeeps ==
  ASSUME Inv, NEW i \in Slots, Follow(i)
  PROVE  Inv'
<1> DEFINE c == Call("lookup", active, None, None)
<1>1. target' = None /\ shown' = active /\ active \in Accounts /\ active # None
  BY CheckoutAssumption DEF Follow, Inv, TypeOK
<1>2. c \in Calls /\ c.kind = "lookup" /\ c.who = active /\ c.said = "nothing"
  BY <1>1, CallTyped DEF Kinds
<1> HIDE DEF c
<1>3. CASE ~page.open
  <2>1. page' = page /\ calls' = calls /\ page.op = "idle"
    BY <1>3 DEF Follow, Inv, LeftIsBlank, Closed
  <2>2. TypeOK'
    BY <1>1, <2>1 DEF Follow, Inv, TypeOK
  <2>3. QED
    BY <1>1, <2>1, <2>2 DEF
        Follow, Inv, OperationAwaited, Stranded, PayingKeepsInvoice, AttemptInstalls,
        LeftIsBlank, AnswersBacked, Foreground, Pending, Awaited, Is
<1>4. CASE page.open
  <2>1. calls' = [calls EXCEPT ![i] = c] /\ Is(i, "none")
    BY <1>4 DEF Follow, Start, FirstFree, c
  <2>2. calls' \in [Slots -> Calls] /\ calls'[i] = c /\ \A j \in Slots : j # i => calls'[j] = calls[j]
    BY <1>2, <2>1, Replaced DEF Inv, TypeOK
  <2>3. /\ page' \in Pages
        /\ page'.open /\ page'.attempt = None /\ page'.invoice = page.invoice
        /\ page'.op \in {page.op, "idle"}
        /\ page'.op = page.op \/ page.attempt # None
        /\ page'.server = page.server
        /\ page.op = "installing" => page'.op = "idle"
    <3>1. page \in Pages
      BY DEF Inv, TypeOK
    <3>2. page.op = "installing" => page.attempt = shown /\ shown # active /\ shown # None
      BY <1>1, CheckoutAssumption DEF Follow, Inv, TypeOK, OperationAwaited
    <3>3. page' = [page EXCEPT !.owned = FALSE, !.checking = TRUE, !.attempt = None,
                     !.op = IF page.attempt \notin {None, active} THEN "idle" ELSE page.op]
      BY <1>4, <3>1 DEF Follow, Pages
    <3>4. QED
      BY <1>4, <3>1, <3>2, <3>3 DEF Pages, Ops
  <2>4. TypeOK'
    BY <1>1, <2>2, <2>3 DEF Follow, Inv, TypeOK
  <2>5. \A j \in Slots : /\ Foreground(j)' <=> Foreground(j)
                         /\ Foreground(j) => calls'[j] = calls[j]
    BY <1>2, <2>1, <2>2 DEF Foreground, Pending, Is
  <2>6. (\E j \in Slots : Foreground(j)) => page'.op = page.op
    BY <2>3 DEF Inv, AttemptInstalls, OperationAwaited, Stranded, Operations
  <2>7. OperationAwaited'
    <3>1. Stranded => Stranded'
      BY <2>3 DEF Inv, AttemptInstalls, Stranded, Follow
    <3>2. QED
      BY <2>3, <2>5, <2>6, <3>1 DEF Inv, OperationAwaited
  <2>8. PayingKeepsInvoice'
    BY <1>2, <2>2, <2>3 DEF Inv, PayingKeepsInvoice, Awaited, Is, Pending
  <2>9. AnswersBacked'
    BY <1>2, <2>1, InOrder DEF Follow
  <2>10. QED
    BY <1>1, <2>3, <2>4, <2>7, <2>8, <2>9 DEF Inv, AttemptInstalls, LeftIsBlank
<1>5. QED
  BY <1>3, <1>4

LEMMA LookKeeps ==
  ASSUME Inv, NEW i \in Slots, Look(i)
  PROVE  Inv'
<1>1. PICK s \in {IF calls[i].who \in holders THEN "owned" ELSE "none", "error"} :
        calls' = Answered(i, s)
  BY DEF Look
<1> DEFINE c == [calls[i] EXCEPT !.at = "done", !.said = s]
<1>2. calls[i] \in Calls /\ calls[i].kind = "lookup" /\ calls[i].who # None
  BY DEF Look, Inv, TypeOK, Awaited, Is, Pending
<1>3. /\ c \in Calls /\ c.kind = calls[i].kind /\ c.who = calls[i].who /\ c.inv = calls[i].inv
      /\ c.said = s /\ c.at = "done"
  BY <1>2 DEF Calls, Says
<1>4. calls' = [calls EXCEPT ![i] = c]
  BY <1>1 DEF Answered, Inv, TypeOK
<1> HIDE DEF c
<1>5. TypeOK' /\ OperationAwaited' /\ PayingKeepsInvoice' /\ AttemptInstalls' /\ LeftIsBlank'
  BY <1>3, <1>4, Advances DEF Look, device, Inv, TypeOK
<1>6. AnswersBacked'
  BY <1>2, <1>3, <1>4, InOrder DEF Look, device
<1>7. QED
  BY <1>5, <1>6 DEF Inv, Look, device

LEMMA LookedKeeps ==
  ASSUME Inv, NEW i \in Slots, Looked(i)
  PROVE  Inv'
<1>1. TypeOK'
  BY CheckoutAssumption
  DEF Inv, Looked, TypeOK, Awaited, IsCurrent, End, device, Pages, Calls, Invoices, Is,
      Pending, NoCall, Ops, Kinds, Says, Call
<1>2. OperationAwaited'
  BY CheckoutAssumption
  DEF Inv, Looked, TypeOK, OperationAwaited, Stranded, AttemptInstalls, LeftIsBlank, Awaited,
      IsCurrent, End, device, Pages, Calls, Invoices, Foreground, Operations, Closed, Pending,
      Is, NoCall, Call
<1>3. PayingKeepsInvoice'
  BY CheckoutAssumption
  DEF Inv, Looked, TypeOK, OperationAwaited, PayingKeepsInvoice, LeftIsBlank, Awaited,
      IsCurrent, End, device, Pages, Calls, Invoices, Foreground, Operations, Closed, Pending,
      Is, NoCall, Call
<1>4. (target # shown)'
  BY CheckoutAssumption
  DEF Inv, Looked, TypeOK, OperationAwaited, Awaited, IsCurrent, End, device, Pages, Calls,
      Invoices, Foreground, Operations, Is, Pending, NoCall, Call
<1>5. AttemptInstalls'
  BY CheckoutAssumption
  DEF Inv, Looked, TypeOK, OperationAwaited, AttemptInstalls, LeftIsBlank, Awaited, IsCurrent,
      End, device, Pages, Calls, Invoices, Foreground, Operations, Closed, Pending, Is, NoCall,
      Call
<1>6. LeftIsBlank'
  BY CheckoutAssumption
  DEF Inv, Looked, TypeOK, OperationAwaited, LeftIsBlank, AttemptInstalls, Awaited, IsCurrent,
      End, device, Pages, Calls, Invoices, Foreground, Operations, Closed, Pending, Is, NoCall,
      Call
<1>7. AnswersBacked'
  BY CheckoutAssumption
  DEF Inv, Looked, TypeOK, OperationAwaited, AnswersBacked, Awaited, IsCurrent, End, device,
      Pages, Calls, Invoices, Foreground, Operations, Is, Pending, NoCall, Call
<1>8. QED
  BY <1>1, <1>2, <1>3, <1>4, <1>5, <1>6, <1>7 DEF Inv

LEMMA BuyKeeps ==
  ASSUME Inv, NEW i \in Slots, Buy(i)
  PROVE  Inv'
<1>1. TypeOK'
  BY CheckoutAssumption
  DEF Inv, Buy, TypeOK, Primary, Start, Call, device, Pages, Calls, Invoices, Ready, FirstFree,
      Ops, Kinds, Says, Is
<1>2. OperationAwaited'
  BY CheckoutAssumption
  DEF Inv, Buy, TypeOK, OperationAwaited, Stranded, AttemptInstalls, LeftIsBlank, Primary,
      Start, Call, device, Pages, Calls, Invoices, Foreground, Operations, Awaited, Closed,
      Pending, Ready, FirstFree, Is
<1>3. PayingKeepsInvoice'
  BY CheckoutAssumption
  DEF Inv, Buy, TypeOK, OperationAwaited, PayingKeepsInvoice, LeftIsBlank, Primary, Start,
      Call, device, Pages, Calls, Invoices, Foreground, Operations, Awaited, Closed, Pending,
      Ready, FirstFree, Is
<1>4. (target # shown)'
  BY CheckoutAssumption
  DEF Inv, Buy, TypeOK, OperationAwaited, Primary, Start, Call, device, Pages, Calls, Invoices,
      Foreground, Operations, Awaited, Ready, FirstFree, Pending, Is
<1>5. AttemptInstalls'
  BY CheckoutAssumption
  DEF Inv, Buy, TypeOK, OperationAwaited, AttemptInstalls, LeftIsBlank, Primary, Start, Call,
      device, Pages, Calls, Invoices, Foreground, Operations, Awaited, Closed, Pending, Ready,
      FirstFree, Is
<1>6. LeftIsBlank'
  BY CheckoutAssumption
  DEF Inv, Buy, TypeOK, OperationAwaited, LeftIsBlank, AttemptInstalls, Primary, Start, Call,
      device, Pages, Calls, Invoices, Foreground, Operations, Awaited, Closed, Pending, Ready,
      FirstFree, Is
<1>7. AnswersBacked'
  BY CheckoutAssumption
  DEF Inv, Buy, TypeOK, OperationAwaited, AnswersBacked, Primary, Start, Call, device, Pages,
      Calls, Invoices, Foreground, Operations, Awaited, Is, Pending, Ready, FirstFree
<1>8. QED
  BY <1>1, <1>2, <1>3, <1>4, <1>5, <1>6, <1>7 DEF Inv

LEMMA InvoicedKeeps ==
  ASSUME Inv, NEW i \in Slots, Invoiced(i)
  PROVE  Inv'
<1>1. calls' = [calls EXCEPT ![i] = NoCall] /\ Foreground(i) /\ calls[i].kind = "invoice"
  BY DEF Invoiced, End, Awaited, Is, Pending, Foreground
<1>2. calls' \in [Slots -> Calls] /\ calls'[i] = NoCall /\ \A j \in Slots : j # i => calls'[j] = calls[j]
  BY <1>1, NoCallTyped, Replaced DEF Inv, TypeOK
<1>3. NewInvoice \in Invoices
  BY CheckoutAssumption DEF Invoiced, Spend, NewInvoice, Invoices, Inv, TypeOK, Amounts
<1>4. page' \in Pages /\ page'.op = "idle" /\ page'.open = page.open /\ page'.attempt = page.attempt
  BY <1>3 DEF Invoiced, Inv, TypeOK, Pages, Ops
<1>5. TypeOK'
  BY <1>2, <1>4, Spent DEF Invoiced, Inv, TypeOK, device
<1>6. OperationAwaited'
  BY <1>1, <1>4, Ends DEF Invoiced
<1>7. \A j \in Slots : ~Awaited(j, "pay")'
  BY <1>1, <1>2, NoCallTyped DEF Inv, OperationAwaited, Stranded, Foreground, Awaited, Is, Pending
<1>8. AttemptInstalls'
  BY <1>1, <1>4 DEF Inv, AttemptInstalls, OperationAwaited, Operations
<1>9. AnswersBacked'
  BY <1>1, NoCallTyped, InOrder DEF Invoiced, device
<1>10. page.open
  BY <1>1 DEF Inv, LeftIsBlank, Foreground
<1>11. QED
  BY <1>4, <1>5, <1>6, <1>7, <1>8, <1>9, <1>10
     DEF Inv, Invoiced, PayingKeepsInvoice, LeftIsBlank, device

LEMMA ConnectWalletKeeps ==
  ASSUME Inv, NEW i \in Slots, ConnectWallet(i)
  PROVE  Inv'
<1>1. TypeOK'
  BY CheckoutAssumption
  DEF Inv, ConnectWallet, TypeOK, PanelOpen, Ready, Start, Call, device, Pages, Calls,
      Invoices, FirstFree, Ops, Kinds, Says, Is
<1>2. OperationAwaited'
  BY CheckoutAssumption
  DEF Inv, ConnectWallet, TypeOK, OperationAwaited, Stranded, AttemptInstalls, LeftIsBlank,
      PanelOpen, Ready, Start, Call, device, Pages, Calls, Invoices, Foreground, Operations,
      Awaited, Closed, Pending, FirstFree, Is
<1>3. PayingKeepsInvoice'
  BY CheckoutAssumption
  DEF Inv, ConnectWallet, TypeOK, OperationAwaited, PayingKeepsInvoice, LeftIsBlank, PanelOpen,
      Ready, Start, Call, device, Pages, Calls, Invoices, Foreground, Operations, Awaited,
      Closed, Pending, FirstFree, Is
<1>4. (target # shown)'
  BY CheckoutAssumption
  DEF Inv, ConnectWallet, TypeOK, OperationAwaited, PanelOpen, Ready, Start, Call, device,
      Pages, Calls, Invoices, Foreground, Operations, Awaited, FirstFree, Pending, Is
<1>5. AttemptInstalls'
  BY CheckoutAssumption
  DEF Inv, ConnectWallet, TypeOK, OperationAwaited, AttemptInstalls, LeftIsBlank, PanelOpen,
      Ready, Start, Call, device, Pages, Calls, Invoices, Foreground, Operations, Awaited,
      Closed, Pending, FirstFree, Is
<1>6. LeftIsBlank'
  BY CheckoutAssumption
  DEF Inv, ConnectWallet, TypeOK, OperationAwaited, LeftIsBlank, AttemptInstalls, PanelOpen,
      Ready, Start, Call, device, Pages, Calls, Invoices, Foreground, Operations, Awaited,
      Closed, Pending, FirstFree, Is
<1>7. AnswersBacked'
  BY CheckoutAssumption
  DEF Inv, ConnectWallet, TypeOK, OperationAwaited, AnswersBacked, PanelOpen, Ready, Start,
      Call, device, Pages, Calls, Invoices, Foreground, Operations, Awaited, Is, Pending,
      FirstFree
<1>8. QED
  BY <1>1, <1>2, <1>3, <1>4, <1>5, <1>6, <1>7 DEF Inv

LEMMA ConnectedKeeps ==
  ASSUME Inv, NEW i \in Slots, Connected(i)
  PROVE  Inv'
<1>1. TypeOK'
  BY CheckoutAssumption
  DEF Inv, Connected, TypeOK, Awaited, End, device, Pages, Calls, Invoices, Is, Pending,
      NoCall, Ops, Kinds, Says, Call
<1>2. OperationAwaited'
  BY CheckoutAssumption
  DEF Inv, Connected, TypeOK, OperationAwaited, Stranded, AttemptInstalls, LeftIsBlank, Awaited,
      End, device, Pages, Calls, Invoices, Foreground, Operations, Closed, Pending, Is, NoCall,
      Call
<1>3. PayingKeepsInvoice'
  BY CheckoutAssumption
  DEF Inv, Connected, TypeOK, OperationAwaited, PayingKeepsInvoice, LeftIsBlank, Awaited, End,
      device, Pages, Calls, Invoices, Foreground, Operations, Closed, Pending, Is, NoCall, Call
<1>4. (target # shown)'
  BY CheckoutAssumption
  DEF Inv, Connected, TypeOK, OperationAwaited, Awaited, End, device, Pages, Calls, Invoices,
      Foreground, Operations, Is, Pending, NoCall, Call
<1>5. AttemptInstalls'
  BY CheckoutAssumption
  DEF Inv, Connected, TypeOK, OperationAwaited, AttemptInstalls, LeftIsBlank, Awaited, End,
      device, Pages, Calls, Invoices, Foreground, Operations, Closed, Pending, Is, NoCall, Call
<1>6. LeftIsBlank'
  BY CheckoutAssumption
  DEF Inv, Connected, TypeOK, OperationAwaited, LeftIsBlank, AttemptInstalls, Awaited, End,
      device, Pages, Calls, Invoices, Foreground, Operations, Closed, Pending, Is, NoCall, Call
<1>7. AnswersBacked'
  BY CheckoutAssumption
  DEF Inv, Connected, TypeOK, OperationAwaited, AnswersBacked, Awaited, End, device, Pages,
      Calls, Invoices, Foreground, Operations, Is, Pending, NoCall, Call
<1>8. QED
  BY <1>1, <1>2, <1>3, <1>4, <1>5, <1>6, <1>7 DEF Inv

LEMMA PayKeeps ==
  ASSUME Inv, NEW i \in Slots, Pay(i)
  PROVE  Inv'
<1>1. TypeOK'
  BY CheckoutAssumption
  DEF Inv, Pay, TypeOK, PanelOpen, Ready, Start, Call, device, Pages, Calls, Invoices,
      FirstFree, Ops, Kinds, Says, Is
<1>2. OperationAwaited'
  BY CheckoutAssumption
  DEF Inv, Pay, TypeOK, OperationAwaited, Stranded, AttemptInstalls, LeftIsBlank, PanelOpen, Ready,
      Start, Call, device, Pages, Calls, Invoices, Foreground, Operations, Awaited, Closed,
      Pending, FirstFree, Is
<1>3. PayingKeepsInvoice'
  BY CheckoutAssumption
  DEF Inv, Pay, TypeOK, OperationAwaited, PayingKeepsInvoice, LeftIsBlank, PanelOpen, Ready,
      Start, Call, device, Pages, Calls, Invoices, Foreground, Operations, Awaited, Closed,
      Pending, FirstFree, Is
<1>4. (target # shown)'
  BY CheckoutAssumption
  DEF Inv, Pay, TypeOK, OperationAwaited, PanelOpen, Ready, Start, Call, device, Pages, Calls,
      Invoices, Foreground, Operations, Awaited, FirstFree, Pending, Is
<1>5. AttemptInstalls'
  BY CheckoutAssumption
  DEF Inv, Pay, TypeOK, OperationAwaited, AttemptInstalls, LeftIsBlank, PanelOpen, Ready,
      Start, Call, device, Pages, Calls, Invoices, Foreground, Operations, Awaited, Closed,
      Pending, FirstFree, Is
<1>6. LeftIsBlank'
  BY CheckoutAssumption
  DEF Inv, Pay, TypeOK, OperationAwaited, LeftIsBlank, AttemptInstalls, PanelOpen, Ready,
      Start, Call, device, Pages, Calls, Invoices, Foreground, Operations, Awaited, Closed,
      Pending, FirstFree, Is
<1>7. AnswersBacked'
  BY CheckoutAssumption
  DEF Inv, Pay, TypeOK, OperationAwaited, AnswersBacked, PanelOpen, Ready, Start, Call, device,
      Pages, Calls, Invoices, Foreground, Operations, Awaited, Is, Pending, FirstFree
<1>8. QED
  BY <1>1, <1>2, <1>3, <1>4, <1>5, <1>6, <1>7 DEF Inv

LEMMA PaidKeeps ==
  ASSUME Inv, NEW i \in Slots, Paid(i)
  PROVE  Inv'
<1>1. calls[i].kind = "pay" /\ Foreground(i) /\ Pending(i)
  BY DEF Paid, Awaited, Is, Pending, Foreground
<1>2. page.op = "paying" /\ page.open /\ page.attempt = None
  BY <1>1 DEF Inv, OperationAwaited, Stranded, Operations, AttemptInstalls, LeftIsBlank
<1>3. \A j \in Slots : Foreground(j) => j = i
  BY <1>1 DEF Inv, OperationAwaited
<1>4. calls[i].inv = page.invoice
  BY DEF Paid, Inv, PayingKeepsInvoice
<1>5. CASE End(i) /\ page' = [page EXCEPT !.op = "idle"]
  <2>1. /\ page' \in Pages
        /\ page'.op = "idle" /\ page'.open /\ page'.attempt = None /\ page'.invoice = page.invoice
    BY <1>2, <1>5 DEF Inv, TypeOK, Pages, Ops
  <2>2. calls' \in [Slots -> Calls] /\ calls'[i] = NoCall /\ \A j \in Slots : j # i => calls'[j] = calls[j]
    BY <1>5, NoCallTyped, Replaced DEF End, Inv, TypeOK
  <2>3. TypeOK'
    BY <2>1, <2>2 DEF Paid, Inv, TypeOK, device
  <2>4. OperationAwaited'
    BY <1>1, <1>5, <2>1, Ends
  <2>5. \A j \in Slots : ~Awaited(j, "pay")'
    BY <1>3, <2>2, NoCallTyped DEF Foreground, Awaited, Is, Pending
  <2>6. AnswersBacked'
    BY <1>5, NoCallTyped, InOrder DEF End, Paid, device
  <2>7. QED
    BY <2>1, <2>3, <2>4, <2>5, <2>6
       DEF Inv, Paid, PayingKeepsInvoice, AttemptInstalls, LeftIsBlank, device
<1>6. CASE /\ IsCurrent(i)
           /\ page' = [page EXCEPT !.op = "confirming", !.preimage = calls[i].inv]
           /\ calls' = [calls EXCEPT ![i] = Confirmation(calls[i].inv)]
  <2> DEFINE c == Confirmation(calls[i].inv)
  <2>1. /\ c \in Calls /\ c.kind = "confirm" /\ c.who = shown /\ c.said = "nothing"
        /\ shown # None
    <3>1. /\ shown \in Accounts /\ page.invoice \in Invoices \cup {None}
          /\ calls[i].inv \in Invoices \cup {None}
      BY <1>4 DEF Inv, TypeOK, Pages
    <3>2. QED
      BY <3>1, CallTyped, CheckoutAssumption DEF Confirmation, Kinds
  <2> HIDE DEF c
  <2>2. calls' = [calls EXCEPT ![i] = c]
    BY <1>6 DEF c
  <2>3. calls' \in [Slots -> Calls] /\ calls'[i] = c /\ \A j \in Slots : j # i => calls'[j] = calls[j]
    BY <2>1, <2>2, Replaced DEF Inv, TypeOK
  <2>4. /\ page' \in Pages
        /\ page'.op = "confirming" /\ page'.open /\ page'.attempt = None
    BY <1>2, <1>4, <1>6 DEF Inv, TypeOK, Pages, Ops
  <2>5. TypeOK'
    BY <2>3, <2>4 DEF Paid, Inv, TypeOK, device
  <2>6. \A j \in Slots : Foreground(j)' <=> j = i
    BY <1>3, <2>1, <2>3 DEF Foreground, Pending
  <2>7. OperationAwaited'
    BY <2>1, <2>3, <2>4, <2>6 DEF OperationAwaited, Stranded, Operations
  <2>8. \A j \in Slots : ~Awaited(j, "pay")'
    BY <1>3, <2>1, <2>3 DEF Foreground, Awaited, Is, Pending
  <2>9. AnswersBacked'
    BY <2>1, <2>2, InOrder DEF Paid, device
  <2>10. QED
    BY <2>4, <2>5, <2>7, <2>8, <2>9
       DEF Inv, Paid, PayingKeepsInvoice, AttemptInstalls, LeftIsBlank, device
<1>7. CASE /\ calls[i].inv \in paid /\ ~page.server
           /\ page' = [page EXCEPT !.preimage = calls[i].inv]
           /\ End(i)
  <2>1. /\ page' \in Pages
        /\ page'.op = page.op /\ page'.open = page.open /\ page'.attempt = page.attempt
        /\ page'.invoice = page.invoice /\ ~page'.server
    BY <1>4, <1>7 DEF Inv, TypeOK, Pages
  <2>2. calls' \in [Slots -> Calls] /\ calls'[i] = NoCall /\ \A j \in Slots : j # i => calls'[j] = calls[j]
    BY <1>7, NoCallTyped, Replaced DEF End, Inv, TypeOK
  <2>3. TypeOK'
    BY <2>1, <2>2 DEF Paid, Inv, TypeOK, device
  <2>4. \A j \in Slots : ~Foreground(j)'
    BY <1>3, <2>2, NoCallTyped DEF Foreground, Pending
  <2>5. Stranded'
    BY <1>2, <1>4, <1>7, <2>1 DEF Paid, Stranded, device
  <2>6. OperationAwaited'
    BY <1>2, <2>1, <2>4, <2>5 DEF OperationAwaited
  <2>7. \A j \in Slots : ~Awaited(j, "pay")'
    BY <2>4 DEF Foreground, Awaited, Is, Pending
  <2>8. AnswersBacked'
    BY <1>7, NoCallTyped, InOrder DEF End, Paid, device
  <2>9. QED
    BY <1>2, <2>1, <2>3, <2>6, <2>7, <2>8
       DEF Inv, Paid, PayingKeepsInvoice, AttemptInstalls, LeftIsBlank, device
<1>8. QED
  BY <1>5, <1>6, <1>7 DEF Paid

LEMMA ConfirmManualKeeps ==
  ASSUME Inv, NEW i \in Slots, ConfirmManual(i)
  PROVE  Inv'
<1>1. TypeOK'
  BY CheckoutAssumption
  DEF Inv, ConfirmManual, TypeOK, PanelOpen, Ready, Start, Confirmation, device, Pages, Calls,
      Invoices, FirstFree, Call, Ops, Kinds, Says, Is
<1>2. OperationAwaited'
  BY CheckoutAssumption
  DEF Inv, ConfirmManual, TypeOK, OperationAwaited, Stranded, AttemptInstalls, LeftIsBlank,
      PanelOpen, Ready, Start, Confirmation, device, Pages, Calls, Invoices, Foreground,
      Operations, Awaited, Closed, Pending, FirstFree, Call, Is
<1>3. PayingKeepsInvoice'
  BY CheckoutAssumption
  DEF Inv, ConfirmManual, TypeOK, OperationAwaited, PayingKeepsInvoice, LeftIsBlank, PanelOpen,
      Ready, Start, Confirmation, device, Pages, Calls, Invoices, Foreground, Operations,
      Awaited, Closed, Pending, FirstFree, Call, Is
<1>4. (target # shown)'
  BY CheckoutAssumption
  DEF Inv, ConfirmManual, TypeOK, OperationAwaited, PanelOpen, Ready, Start, Confirmation,
      device, Pages, Calls, Invoices, Foreground, Operations, Awaited, FirstFree, Call,
      Pending, Is
<1>5. AttemptInstalls'
  BY CheckoutAssumption
  DEF Inv, ConfirmManual, TypeOK, OperationAwaited, AttemptInstalls, LeftIsBlank, PanelOpen,
      Ready, Start, Confirmation, device, Pages, Calls, Invoices, Foreground, Operations,
      Awaited, Closed, Pending, FirstFree, Call, Is
<1>6. LeftIsBlank'
  BY CheckoutAssumption
  DEF Inv, ConfirmManual, TypeOK, OperationAwaited, LeftIsBlank, AttemptInstalls, PanelOpen,
      Ready, Start, Confirmation, device, Pages, Calls, Invoices, Foreground, Operations,
      Awaited, Closed, Pending, FirstFree, Call, Is
<1>7. AnswersBacked'
  BY CheckoutAssumption
  DEF Inv, ConfirmManual, TypeOK, OperationAwaited, AnswersBacked, PanelOpen, Ready, Start,
      Confirmation, device, Pages, Calls, Invoices, Foreground, Operations, Awaited, Is,
      Pending, FirstFree, Call
<1>8. QED
  BY <1>1, <1>2, <1>3, <1>4, <1>5, <1>6, <1>7 DEF Inv

LEMMA TakeSignerKeeps ==
  ASSUME Inv, NEW i \in Slots, TakeSigner(i)
  PROVE  Inv'
<1> DEFINE c == [calls[i] EXCEPT !.at = "asked", !.as = active]
<1>1. /\ c \in Calls /\ c.kind = calls[i].kind /\ c.who = calls[i].who /\ c.inv = calls[i].inv
      /\ c.said = "nothing"
  <2>1. calls[i] \in Calls /\ active \in Accounts /\ calls[i].said = "nothing"
    BY DEF TakeSigner, Inv, TypeOK, AnswersBacked
  <2>2. QED
    BY <2>1 DEF Calls
<1>2. calls' = [calls EXCEPT ![i] = c]
  BY DEF TakeSigner, Inv, TypeOK
<1>3. calls[i].kind # "none"
  BY DEF TakeSigner, IsAcquisition, Is
<1> HIDE DEF c
<1>4. TypeOK' /\ OperationAwaited' /\ PayingKeepsInvoice' /\ AttemptInstalls' /\ LeftIsBlank'
  BY <1>1, <1>2, Advances DEF TakeSigner, device, Inv, TypeOK
<1>5. AnswersBacked'
  BY <1>1, <1>2, <1>3, InOrder DEF TakeSigner, device
<1>6. QED
  BY <1>4, <1>5 DEF Inv, TakeSigner, device

LEMMA Answers ==
  ASSUME Inv, NEW i \in Slots, calls[i].kind # "none", NEW s \in Says, calls' = Answered(i, s),
         s # "owned", s = "ok" => calls[i].as \in holders',
         page' = page, shown' = shown, holders \subseteq holders', paid' = paid
  PROVE  /\ calls' \in [Slots -> Calls]
         /\ OperationAwaited' /\ PayingKeepsInvoice' /\ AttemptInstalls' /\ LeftIsBlank'
         /\ AnswersBacked'
<1> DEFINE c == [calls[i] EXCEPT !.at = "done", !.said = s]
<1>1. /\ c \in Calls /\ c.kind = calls[i].kind /\ c.who = calls[i].who /\ c.inv = calls[i].inv
      /\ c.said = s /\ c.at = "done" /\ c.as = calls[i].as
  BY DEF Inv, TypeOK, Calls
<1>2. calls' = [calls EXCEPT ![i] = c]
  BY DEF Answered, Inv, TypeOK
<1> HIDE DEF c
<1>3. QED
  BY <1>1, <1>2, Advances, InOrder

(* The server has answered.                                                *)
LEMMA Served ==
  ASSUME Inv, NEW i \in Slots, calls[i].kind # "none", calls[i].at # "done",
         calls' = [calls EXCEPT ![i].at = "served"],
         page' = page, shown' = shown, holders' = holders, paid' = paid
  PROVE  /\ calls' \in [Slots -> Calls]
         /\ OperationAwaited' /\ PayingKeepsInvoice' /\ AttemptInstalls' /\ LeftIsBlank'
         /\ AnswersBacked'
<1> DEFINE c == [calls[i] EXCEPT !.at = "served"]
<1>1. /\ c \in Calls /\ c.kind = calls[i].kind /\ c.who = calls[i].who /\ c.inv = calls[i].inv
      /\ c.said = "nothing"
  BY DEF Inv, TypeOK, Calls, AnswersBacked
<1>2. calls' = [calls EXCEPT ![i] = c]
  BY DEF Inv, TypeOK
<1> HIDE DEF c
<1>3. QED
  BY <1>1, <1>2, Advances, InOrder

LEMMA ServeKeeps ==
  ASSUME Inv, NEW i \in Slots, Serve(i)
  PROVE  Inv'
<1>1. calls[i].kind = "confirm" /\ calls[i].at = "asked"
  BY DEF Serve, Is
<1>2. /\ page' = page /\ shown' = shown /\ target' = target /\ active' = active
      /\ holders' = holders /\ paid' = paid /\ left' = left
  BY DEF Serve
<1>3. \/ \E s \in {"402", "409", "error"} : calls' = Answered(i, s)
      \/ calls' = [calls EXCEPT ![i].at = "served"]
  BY DEF Serve
<1>4. /\ calls' \in [Slots -> Calls]
      /\ OperationAwaited' /\ PayingKeepsInvoice' /\ AttemptInstalls' /\ LeftIsBlank'
      /\ AnswersBacked'
  BY <1>1, <1>2, <1>3, Answers, Served DEF Says
<1>5. used' \in [Invoices -> Accounts \cup {None}]
  <2>1. calls[i].as \in Accounts \cup {None}
    BY DEF Inv, TypeOK, Calls
  <2>2. used' = used \/ used' = [used EXCEPT ![calls[i].inv] = calls[i].as]
    BY DEF Serve
  <2>3. QED
    BY <2>1, <2>2 DEF Inv, TypeOK
<1>6. QED
  BY <1>2, <1>4, <1>5 DEF Inv, TypeOK

LEMMA GrantKeeps ==
  ASSUME Inv, NEW i \in Slots, Grant(i)
  PROVE  Inv'
<1>1. calls[i].kind = "claim" /\ calls[i].at = "asked"
  BY DEF Grant, Is
<1>2. QED
  BY <1>1, Served DEF Grant, device, Inv, TypeOK

LEMMA StoreKeeps ==
  ASSUME Inv, NEW i \in Slots, Store(i)
  PROVE  Inv'
<1>1. calls[i].kind # "none"
  BY DEF Store, IsAcquisition, Is
<1>2. PICK s \in {"ok", "error"} : calls' = Answered(i, s)
  BY DEF Store
<1>3. holders \subseteq holders' /\ calls[i].as \in holders' /\ holders' \subseteq Accounts
  BY DEF Store, Inv, TypeOK
<1>4. QED
  BY <1>1, <1>2, <1>3, Answers DEF Store, Inv, TypeOK, Says

LEMMA CommandFailsKeeps ==
  ASSUME Inv, NEW i \in Slots, CommandFails(i)
  PROVE  Inv'
<1>1. calls[i].kind # "none"
  BY DEF CommandFails, IsAcquisition, Is
<1>2. QED
  BY <1>1, Answers DEF CommandFails, device, Inv, TypeOK, Says

LEMMA ConfirmedKeeps ==
  ASSUME Inv, NEW i \in Slots, Confirmed(i)
  PROVE  Inv'
<1>1. TypeOK'
  BY CheckoutAssumption
  DEF Inv, Confirmed, TypeOK, Awaited, IsCurrent, End, device, Pages, Calls, Invoices, Is,
      Pending, NoCall, Ops, Kinds, Says, Call
<1>2. OperationAwaited'
  BY CheckoutAssumption
  DEF Inv, Confirmed, TypeOK, OperationAwaited, Stranded, AttemptInstalls, LeftIsBlank, Awaited,
      IsCurrent, End, device, Pages, Calls, Invoices, Foreground, Operations, Closed, Pending,
      Is, NoCall, Call
<1>3. PayingKeepsInvoice'
  BY CheckoutAssumption
  DEF Inv, Confirmed, TypeOK, OperationAwaited, PayingKeepsInvoice, LeftIsBlank, Awaited,
      IsCurrent, End, device, Pages, Calls, Invoices, Foreground, Operations, Closed, Pending,
      Is, NoCall, Call
<1>4. (target # shown)'
  BY CheckoutAssumption
  DEF Inv, Confirmed, TypeOK, OperationAwaited, Awaited, IsCurrent, End, device, Pages, Calls,
      Invoices, Foreground, Operations, Is, Pending, NoCall, Call
<1>5. AttemptInstalls'
  BY CheckoutAssumption
  DEF Inv, Confirmed, TypeOK, OperationAwaited, AttemptInstalls, LeftIsBlank, Awaited,
      IsCurrent, End, device, Pages, Calls, Invoices, Foreground, Operations, Closed, Pending,
      Is, NoCall, Call
<1>6. LeftIsBlank'
  BY CheckoutAssumption
  DEF Inv, Confirmed, TypeOK, OperationAwaited, LeftIsBlank, AttemptInstalls, Awaited,
      IsCurrent, End, device, Pages, Calls, Invoices, Foreground, Operations, Closed, Pending,
      Is, NoCall, Call
<1>7. AnswersBacked'
  BY CheckoutAssumption
  DEF Inv, Confirmed, TypeOK, OperationAwaited, AnswersBacked, Awaited, IsCurrent, End, device,
      Pages, Calls, Invoices, Foreground, Operations, Is, Pending, NoCall, Call
<1>8. QED
  BY <1>1, <1>2, <1>3, <1>4, <1>5, <1>6, <1>7 DEF Inv

LEMMA ClaimKeeps ==
  ASSUME Inv, NEW i \in Slots, Claim(i)
  PROVE  Inv'
<1>1. TypeOK'
  BY CheckoutAssumption
  DEF Inv, Claim, TypeOK, Ready, Start, Call, device, Pages, Calls, Invoices, FirstFree, Ops,
      Kinds, Says, Is
<1>2. OperationAwaited'
  BY CheckoutAssumption
  DEF Inv, Claim, TypeOK, OperationAwaited, Stranded, AttemptInstalls, LeftIsBlank, Ready,
      Start, Call, device, Pages, Calls, Invoices, Foreground, Operations, Awaited, Closed,
      Pending, FirstFree, Is
<1>3. PayingKeepsInvoice'
  BY CheckoutAssumption
  DEF Inv, Claim, TypeOK, OperationAwaited, PayingKeepsInvoice, LeftIsBlank, Ready, Start,
      Call, device, Pages, Calls, Invoices, Foreground, Operations, Awaited, Closed, Pending,
      FirstFree, Is
<1>4. (target # shown)'
  BY CheckoutAssumption
  DEF Inv, Claim, TypeOK, OperationAwaited, Ready, Start, Call, device, Pages, Calls, Invoices,
      Foreground, Operations, Awaited, FirstFree, Pending, Is
<1>5. AttemptInstalls'
  BY CheckoutAssumption
  DEF Inv, Claim, TypeOK, OperationAwaited, AttemptInstalls, LeftIsBlank, Ready, Start, Call,
      device, Pages, Calls, Invoices, Foreground, Operations, Awaited, Closed, Pending,
      FirstFree, Is
<1>6. LeftIsBlank'
  BY CheckoutAssumption
  DEF Inv, Claim, TypeOK, OperationAwaited, LeftIsBlank, AttemptInstalls, Ready, Start, Call,
      device, Pages, Calls, Invoices, Foreground, Operations, Awaited, Closed, Pending,
      FirstFree, Is
<1>7. AnswersBacked'
  BY CheckoutAssumption
  DEF Inv, Claim, TypeOK, OperationAwaited, AnswersBacked, Ready, Start, Call, device, Pages,
      Calls, Invoices, Foreground, Operations, Awaited, Is, Pending, FirstFree
<1>8. QED
  BY <1>1, <1>2, <1>3, <1>4, <1>5, <1>6, <1>7 DEF Inv

LEMMA ClaimedKeeps ==
  ASSUME Inv, NEW i \in Slots, Claimed(i)
  PROVE  Inv'
<1>1. TypeOK'
  BY CheckoutAssumption
  DEF Inv, Claimed, TypeOK, Awaited, IsCurrent, End, device, Pages, Calls, Invoices, Is,
      Pending, NoCall, Ops, Kinds, Says, Call
<1>2. OperationAwaited'
  BY CheckoutAssumption
  DEF Inv, Claimed, TypeOK, OperationAwaited, Stranded, AttemptInstalls, LeftIsBlank, Awaited,
      IsCurrent, End, device, Pages, Calls, Invoices, Foreground, Operations, Closed, Pending,
      Is, NoCall, Call
<1>3. PayingKeepsInvoice'
  BY CheckoutAssumption
  DEF Inv, Claimed, TypeOK, OperationAwaited, PayingKeepsInvoice, LeftIsBlank, Awaited,
      IsCurrent, End, device, Pages, Calls, Invoices, Foreground, Operations, Closed, Pending,
      Is, NoCall, Call
<1>4. (target # shown)'
  BY CheckoutAssumption
  DEF Inv, Claimed, TypeOK, OperationAwaited, Awaited, IsCurrent, End, device, Pages, Calls,
      Invoices, Foreground, Operations, Is, Pending, NoCall, Call
<1>5. AttemptInstalls'
  BY CheckoutAssumption
  DEF Inv, Claimed, TypeOK, OperationAwaited, AttemptInstalls, LeftIsBlank, Awaited, IsCurrent,
      End, device, Pages, Calls, Invoices, Foreground, Operations, Closed, Pending, Is, NoCall,
      Call
<1>6. LeftIsBlank'
  BY CheckoutAssumption
  DEF Inv, Claimed, TypeOK, OperationAwaited, LeftIsBlank, AttemptInstalls, Awaited, IsCurrent,
      End, device, Pages, Calls, Invoices, Foreground, Operations, Closed, Pending, Is, NoCall,
      Call
<1>7. AnswersBacked'
  BY CheckoutAssumption
  DEF Inv, Claimed, TypeOK, OperationAwaited, AnswersBacked, Awaited, IsCurrent, End, device,
      Pages, Calls, Invoices, Foreground, Operations, Is, Pending, NoCall, Call
<1>8. QED
  BY <1>1, <1>2, <1>3, <1>4, <1>5, <1>6, <1>7 DEF Inv

LEMMA DownloadKeeps ==
  ASSUME Inv, NEW i \in Slots, Download(i)
  PROVE  Inv'
<1> DEFINE c == Call("install", shown, None, None)
<1>1. /\ page.op = "idle" /\ page.open
      /\ page' = [page EXCEPT !.op = "installing", !.attempt = shown]
  <2>1. Primary # "wait"
    BY DEF Download
  <2>2. page.open /\ Ready
    BY <2>1 DEF Primary
  <2>3. QED
    BY <2>2 DEF Download, Ready
<1>2. page' \in Pages /\ page'.op = "installing" /\ page'.attempt = shown /\ page'.open
  BY <1>1 DEF Inv, TypeOK, Pages, Ops
<1>3. shown \in Accounts /\ shown # None
  BY CheckoutAssumption DEF Inv, TypeOK
<1>4. c \in Calls /\ c.kind = "install" /\ c.who = shown /\ c.said = "nothing"
  BY <1>3, CallTyped DEF Kinds
<1> HIDE DEF c
<1>5. calls' = [calls EXCEPT ![i] = c] /\ Is(i, "none")
  BY DEF Download, Start, FirstFree, c
<1>6. calls' \in [Slots -> Calls] /\ calls'[i] = c /\ \A j \in Slots : j # i => calls'[j] = calls[j]
  BY <1>4, <1>5, Replaced DEF Inv, TypeOK
<1>7. TypeOK'
  BY <1>2, <1>6, Spent DEF Download, Inv, TypeOK, device
<1>8. \A j \in Slots : ~Foreground(j)
  BY <1>1 DEF Inv, OperationAwaited, Stranded, Operations
<1>9. \A j \in Slots : ~Foreground(j)'
  BY <1>4, <1>6, <1>8 DEF Foreground, Pending
<1>10. Awaited(i, "install")' /\ calls'[i].who = shown'
  BY <1>3, <1>4, <1>6 DEF Awaited, Is, Pending, Download
<1>11. OperationAwaited'
  BY <1>2, <1>9, <1>10 DEF OperationAwaited, Stranded, Download
<1>12. PayingKeepsInvoice'
  BY <1>9 DEF PayingKeepsInvoice, Awaited, Is, Foreground
<1>13. AnswersBacked'
  BY <1>4, <1>5, InOrder DEF Download, device
<1>14. QED
  BY <1>2, <1>7, <1>11, <1>12, <1>13
     DEF Inv, Download, device, AttemptInstalls, LeftIsBlank

LEMMA DownloadedKeeps ==
  ASSUME Inv, NEW i \in Slots, Downloaded(i)
  PROVE  Inv'
<1>1. calls[i].kind = "install" /\ Pending(i) /\ ~Foreground(i)
  BY DEF Downloaded, Awaited, Is, Foreground
<1>2. calls' = [calls EXCEPT ![i] = NoCall]
  BY DEF Downloaded, End
<1>3. calls' \in [Slots -> Calls] /\ calls'[i] = NoCall /\ \A j \in Slots : j # i => calls'[j] = calls[j]
  BY <1>2, NoCallTyped, Replaced DEF Inv, TypeOK
<1>4. PICK ok \in BOOLEAN :
        page' = LET p == [page EXCEPT !.installed = page.installed \/ ok]
                IN  IF IsCurrent(i) /\ page.attempt # None
                    THEN [p EXCEPT !.op = "idle", !.attempt = None]
                    ELSE p
  BY DEF Downloaded, Inv, TypeOK, Pages
<1> DEFINE p == [page EXCEPT !.installed = page.installed \/ ok]
<1>5. p \in Pages /\ p.op = page.op /\ p.attempt = page.attempt /\ p.open = page.open
      /\ p.invoice = page.invoice /\ p.server = page.server
  BY DEF Inv, TypeOK, Pages
<1>6. page' = IF IsCurrent(i) /\ page.attempt # None
              THEN [p EXCEPT !.op = "idle", !.attempt = None] ELSE p
  BY <1>4
<1> HIDE DEF p
<1>7. /\ page' \in Pages /\ page'.open = page.open /\ page'.invoice = page.invoice
      /\ page'.server = page.server
      /\ IF IsCurrent(i) /\ page.attempt # None
         THEN page'.op = "idle" /\ page'.attempt = None
         ELSE page'.op = page.op /\ page'.attempt = page.attempt
  BY <1>5, <1>6 DEF Pages, Ops
<1>8. TypeOK'
  BY <1>3, <1>7 DEF Downloaded, Inv, TypeOK, device
<1>9. \A j \in Slots : /\ Foreground(j)' <=> Foreground(j)
                       /\ Foreground(j) => calls'[j] = calls[j]
  BY <1>1, <1>3, NoCallTyped DEF Foreground, Pending
<1>10. OperationAwaited'
  <2>1. CASE page.op = "installing"
    <3>1. \A j \in Slots : ~Foreground(j)
      BY <2>1 DEF Inv, OperationAwaited, Stranded, Operations
    <3>2. page.attempt = shown /\ shown # None
      BY <2>1, CheckoutAssumption DEF Inv, OperationAwaited, Stranded, TypeOK
    <3>3. CASE IsCurrent(i)
      BY <1>7, <1>9, <3>1, <3>2, <3>3 DEF OperationAwaited
    <3>4. CASE ~IsCurrent(i)
      <4>1. PICK j \in Slots : Awaited(j, "install") /\ calls[j].who = shown
        BY <2>1 DEF Inv, OperationAwaited
      <4>2. calls'[j] = calls[j]
        BY <1>3, <3>4, <4>1 DEF IsCurrent
      <4>3. QED
        BY <1>7, <1>9, <2>1, <3>1, <3>2, <3>4, <4>1, <4>2
           DEF OperationAwaited, Stranded, Awaited, Is, Pending, Downloaded
    <3>5. QED
      BY <3>3, <3>4
  <2>2. CASE page.op # "installing"
    <3>1. page.attempt = None
      BY <2>2 DEF Inv, AttemptInstalls
    <3>2. page'.op = page.op
      BY <1>7, <3>1
    <3>3. Stranded => Stranded'
      BY <1>7, <3>2 DEF Stranded, Downloaded, device
    <3>4. QED
      BY <1>9, <2>2, <3>2, <3>3 DEF Inv, OperationAwaited
  <2>3. QED
    BY <2>1, <2>2
<1>11. PayingKeepsInvoice'
  BY <1>1, <1>3, <1>7, NoCallTyped DEF Inv, PayingKeepsInvoice, Awaited, Is, Pending
<1>12. AttemptInstalls'
  BY <1>7 DEF Inv, AttemptInstalls
<1>13. page.open
  BY <1>1 DEF Inv, LeftIsBlank
<1>14. AnswersBacked'
  BY <1>2, NoCallTyped, InOrder DEF Downloaded, device
<1>15. QED
  BY <1>7, <1>8, <1>10, <1>11, <1>12, <1>13, <1>14
     DEF Inv, Downloaded, device, LeftIsBlank

-----------------------------------------------------------------------------
(***************************************************************************)
(* The steps together                                                      *)
(***************************************************************************)

LEMMA NextKeeps == Inv /\ Next => Inv'
<1> SUFFICES ASSUME Inv, Next
             PROVE  Inv'
  OBVIOUS
<1>1. ASSUME NEW a \in Accounts, Switch(a) PROVE Inv'
  BY <1>1, SwitchKeeps
<1>2. ASSUME Switched \/ Leave \/ AskClaim \/ CancelClaim PROVE Inv'
  BY <1>2, SwitchedKeeps, LeaveKeeps, AskClaimKeeps, CancelClaimKeeps
<1>3. ASSUME NEW o \in {"unknown", "none", "active"}, Discover(o) PROVE Inv'
  BY <1>3, DiscoverKeeps
<1>4. ASSUME NEW x \in Invoices, Settle(x) \/ Paste(x) PROVE Inv'
  BY <1>4, SettleKeeps, PasteKeeps
<1>5. ASSUME NEW i \in Slots,
             \/ Open(i) \/ Forget(i) \/ Follow(i) \/ Look(i) \/ Looked(i)
             \/ Buy(i) \/ Invoiced(i) \/ ConnectWallet(i) \/ Connected(i)
             \/ Pay(i) \/ Paid(i) \/ ConfirmManual(i)
      PROVE  Inv'
  BY <1>5, OpenKeeps, ForgetKeeps, FollowKeeps, LookKeeps, LookedKeeps, BuyKeeps, InvoicedKeeps,
     ConnectWalletKeeps, ConnectedKeeps, PayKeeps, PaidKeeps, ConfirmManualKeeps
<1>6. ASSUME NEW i \in Slots,
             \/ TakeSigner(i) \/ Serve(i) \/ Grant(i) \/ Store(i) \/ CommandFails(i)
             \/ Confirmed(i) \/ Claim(i) \/ Claimed(i) \/ Download(i) \/ Downloaded(i)
      PROVE  Inv'
  BY <1>6, TakeSignerKeeps, ServeKeeps, GrantKeeps, StoreKeeps, CommandFailsKeeps,
     ConfirmedKeeps, ClaimKeeps, ClaimedKeeps, DownloadKeeps, DownloadedKeeps
<1>7. QED
  BY <1>1, <1>2, <1>3, <1>4, <1>5, <1>6 DEF Next

LEMMA StutterKeeps == Inv /\ UNCHANGED vars => Inv'
  BY DEF Inv, vars, TypeOK, OperationAwaited, Stranded, PayingKeepsInvoice, AttemptInstalls,
         LeftIsBlank, AnswersBacked, Foreground, Pending, Awaited, Is

(* The invariant of the page, its calls and the commands behind them.     *)
THEOREM Invariance == Spec => []Inv
<1>1. Inv /\ [Next]_vars => Inv'
  BY NextKeeps, StutterKeeps
<1>2. QED
  BY Initially, <1>1, PTL DEF Spec

(* Signals and calls keep their shape. *)
THEOREM TypeCorrect == Spec => []TypeOK
<1>1. Inv => TypeOK
  BY DEF Inv
<1>2. QED
  BY <1>1, Invariance, PTL

(* The page is busy only with a call under way, except after a payment for *)
(* a listing without an ADP server, and never lets two payments,           *)
(* confirmations or claims run beside each other.                          *)
THEOREM OneOperation == Spec => []OperationAwaited
<1>1. Inv => OperationAwaited
  BY DEF Inv
<1>2. QED
  BY <1>1, Invariance, PTL

-----------------------------------------------------------------------------
(***************************************************************************)
(* What a step may do                                                      *)
(***************************************************************************)

PaidStep ==
  \A i \in Slots :
    Awaited(i, "pay") /\ calls'[i].kind = "confirm" =>
      calls'[i].inv = calls[i].inv /\ calls'[i].who = calls[i].who

OwnedStep ==
  ~page.owned /\ page'.owned =>
    \/ shown \in holders
    \/ \E i \in Slots :
         /\ IsAcquisition(i) /\ calls'[i].kind = "none"
         /\ calls[i].said = "409" \/ calls[i].as # calls[i].who

(* A call that starts in a free slot, ends or is not a payment confirms    *)
(* none.                                                                   *)
LEMMA NotPaid ==
  ASSUME Inv, NEW i \in Slots, NEW c, calls' = [calls EXCEPT ![i] = c],
         ~Is(i, "pay") \/ c.kind = "none"
  PROVE  PaidStep
  BY DEF Inv, TypeOK, PaidStep, Awaited, Is

LEMMA PaidBy ==
  ASSUME Inv, Next
  PROVE  PaidStep
<1>1. ASSUME calls' = calls PROVE PaidStep
  BY <1>1 DEF PaidStep, Awaited, Is
<1>2. ASSUME NEW i \in Slots, NEW c, Start(i, c) PROVE PaidStep
  BY <1>2, NotPaid DEF Start, FirstFree, Is
<1>3. ASSUME NEW i \in Slots, End(i) PROVE PaidStep
  BY <1>3, NotPaid, NoCallTyped DEF End
<1>4. ASSUME NEW i \in Slots, IsAcquisition(i), calls' = [calls EXCEPT ![i].at = "served"]
      PROVE  PaidStep
  BY <1>4 DEF Inv, TypeOK, Calls, PaidStep, Awaited, Is, IsAcquisition
<1>5. ASSUME NEW i \in Slots, ~Is(i, "pay"), NEW s, calls' = Answered(i, s) PROVE PaidStep
  BY <1>5, NotPaid DEF Answered, Inv, TypeOK
<1>6. ASSUME NEW i \in Slots, Paid(i) PROVE PaidStep
  <2>1. CASE End(i)
    BY <2>1, <1>3
  <2>2. CASE /\ IsCurrent(i)
             /\ calls' = [calls EXCEPT ![i] = Confirmation(calls[i].inv)]
    <3>1. calls[i].inv = page.invoice
      BY <1>6 DEF Paid, Inv, PayingKeepsInvoice
    <3>2. /\ calls'[i] = Confirmation(calls[i].inv)
          /\ \A j \in Slots : j # i => calls'[j] = calls[j]
      BY <2>2 DEF Inv, TypeOK
    <3>3. calls'[i].inv = calls[i].inv /\ calls'[i].who = calls[i].who
      BY <2>2, <3>1, <3>2 DEF Confirmation, Call, IsCurrent
    <3>4. QED
      BY <3>2, <3>3 DEF PaidStep, Awaited, Is
  <2>3. QED
    BY <1>6, <2>1, <2>2 DEF Paid
<1>7. ASSUME Leave PROVE PaidStep
  BY <1>7, NoCallTyped DEF Leave, PaidStep, IsAcquisition, Awaited, Is
<1>8. ASSUME NEW a \in Accounts, Switch(a) PROVE PaidStep
  BY <1>1, <1>8 DEF Switch
<1>9. ASSUME Switched \/ AskClaim \/ CancelClaim PROVE PaidStep
  BY <1>1, <1>9 DEF Switched, AskClaim, CancelClaim
<1>10. ASSUME NEW o \in {"unknown", "none", "active"}, Discover(o) PROVE PaidStep
  BY <1>1, <1>10 DEF Discover
<1>11. ASSUME NEW x \in Invoices, Settle(x) \/ Paste(x) PROVE PaidStep
  BY <1>1, <1>11 DEF Settle, Paste
<1>12. ASSUME NEW i \in Slots,
              \/ Open(i) \/ Buy(i) \/ ConnectWallet(i) \/ Pay(i) \/ ConfirmManual(i)
              \/ Claim(i) \/ Download(i)
       PROVE  PaidStep
  BY <1>2, <1>12 DEF Open, Buy, ConnectWallet, Pay, ConfirmManual, Claim, Download
<1>13. ASSUME NEW i \in Slots, Follow(i) PROVE PaidStep
  BY <1>1, <1>2, <1>13 DEF Follow
<1>14. ASSUME NEW i \in Slots,
              \/ Forget(i) \/ Looked(i) \/ Invoiced(i) \/ Connected(i) \/ Confirmed(i)
              \/ Claimed(i) \/ Downloaded(i)
       PROVE  PaidStep
  BY <1>3, <1>14 DEF Forget, Looked, Invoiced, Connected, Confirmed, Claimed, Downloaded
<1>15. ASSUME NEW i \in Slots, Look(i) PROVE PaidStep
  BY <1>5, <1>15 DEF Look, Awaited, Is
<1>16. ASSUME NEW i \in Slots, TakeSigner(i) PROVE PaidStep
  BY <1>16, NotPaid DEF TakeSigner, IsAcquisition, Is
<1>17. ASSUME NEW i \in Slots, Serve(i) \/ Grant(i) \/ Store(i) \/ CommandFails(i)
       PROVE  PaidStep
  <2>1. IsAcquisition(i) /\ ~Is(i, "pay")
    BY <1>17 DEF Serve, Grant, Store, CommandFails, IsAcquisition, Is
  <2>2. \/ calls' = [calls EXCEPT ![i].at = "served"]
        \/ \E s \in Says : calls' = Answered(i, s)
    BY <1>17 DEF Serve, Grant, Store, CommandFails, Says
  <2>3. QED
    BY <1>4, <1>5, <2>1, <2>2
<1>18. QED
  BY <1>6, <1>7, <1>8, <1>9, <1>10, <1>11, <1>12, <1>13, <1>14, <1>15, <1>16, <1>17 DEF Next

LEMMA OwnedBy ==
  ASSUME Inv, Next
  PROVE  OwnedStep
<1>1. ASSUME page'.owned = page.owned PROVE OwnedStep
  BY <1>1 DEF OwnedStep
<1>2. ASSUME page' = page PROVE OwnedStep
  BY <1>1, <1>2
<1>3. ASSUME page' = Closed PROVE OwnedStep
  BY <1>3 DEF OwnedStep, Closed
<1>4. ASSUME NEW i \in Slots, Looked(i) PROVE OwnedStep
  BY <1>4 DEF Looked, OwnedStep, Inv, TypeOK, Pages, AnswersBacked, IsCurrent
<1>5. ASSUME NEW i \in Slots, Confirmed(i) \/ Claimed(i) PROVE OwnedStep
  <2>1. /\ IsAcquisition(i)
        /\ calls' = [calls EXCEPT ![i] = NoCall]
    BY <1>5 DEF Confirmed, Claimed, End, Awaited, IsAcquisition
  <2>2. calls'[i].kind = "none"
    BY <2>1, NoCallTyped DEF Inv, TypeOK
  <2>3. ~page.owned /\ page'.owned =>
          shown = calls[i].who /\ calls[i].said \in {"ok", "409"}
    BY <1>5 DEF Confirmed, Claimed, IsCurrent, Inv, TypeOK, Pages
  <2>4. calls[i].said = "ok" => calls[i].as \in holders
    BY DEF Inv, AnswersBacked
  <2>5. QED
    BY <2>1, <2>2, <2>3, <2>4 DEF OwnedStep
<1>6. ASSUME NEW i \in Slots, Invoiced(i) \/ Connected(i) \/ Paid(i) PROVE OwnedStep
  BY <1>1, <1>6 DEF Invoiced, Connected, Paid, Inv, TypeOK, Pages
<1>7. ASSUME NEW i \in Slots,
             Buy(i) \/ ConnectWallet(i) \/ Pay(i) \/ ConfirmManual(i) \/ Claim(i) \/ Download(i)
      PROVE  OwnedStep
  BY <1>1, <1>7
     DEF Buy, ConnectWallet, Pay, ConfirmManual, Claim, Download, Inv, TypeOK, Pages
<1>8. ASSUME NEW i \in Slots, Downloaded(i) PROVE OwnedStep
  BY <1>1, <1>8 DEF Downloaded, Inv, TypeOK, Pages
<1>9. ASSUME NEW i \in Slots, Follow(i) PROVE OwnedStep
  BY <1>2, <1>9 DEF Follow, OwnedStep, Inv, TypeOK, Pages
<1>10. ASSUME NEW i \in Slots, Open(i) PROVE OwnedStep
  BY <1>10 DEF Open, OwnedStep, Closed
<1>11. ASSUME NEW i \in Slots,
              Forget(i) \/ Look(i) \/ TakeSigner(i) \/ Serve(i) \/ Grant(i) \/ Store(i)
              \/ CommandFails(i)
       PROVE  OwnedStep
  BY <1>2, <1>11 DEF Forget, Look, TakeSigner, Serve, Grant, Store, CommandFails
<1>12. ASSUME NEW a \in Accounts, Switch(a) PROVE OwnedStep
  BY <1>2, <1>12 DEF Switch
<1>13. ASSUME Switched \/ Leave PROVE OwnedStep
  BY <1>2, <1>3, <1>13 DEF Switched, Leave
<1>14. ASSUME NEW o \in {"unknown", "none", "active"}, Discover(o) PROVE OwnedStep
  BY <1>1, <1>14 DEF Discover, Inv, TypeOK, Pages
<1>15. ASSUME NEW x \in Invoices, Settle(x) \/ Paste(x) PROVE OwnedStep
  BY <1>1, <1>2, <1>15 DEF Settle, Paste, Inv, TypeOK, Pages
<1>16. ASSUME AskClaim \/ CancelClaim PROVE OwnedStep
  BY <1>1, <1>16 DEF AskClaim, CancelClaim, Inv, TypeOK, Pages
<1>17. QED
  BY <1>4, <1>5, <1>6, <1>7, <1>8, <1>9, <1>10, <1>11, <1>12, <1>13, <1>14, <1>15, <1>16 DEF Next

(* What the wallet returned is confirmed for the invoice and the account   *)
(* that paid.                                                              *)
THEOREM PaidConfirmed == Spec => PaidInvoiceConfirmed
<1>1. Inv /\ [Next]_vars => [PaidStep]_vars
  BY PaidBy
<1>2. Spec => [][PaidStep]_vars
  BY <1>1, Invariance, PTL DEF Spec
<1>3. QED
  BY <1>2 DEF PaidInvoiceConfirmed, PaidStep

(* What the page calls owned is stored for its account, two divergences    *)
(* aside.                                                                  *)
THEOREM OwnedRecorded == Spec => OwnedIsRecorded
<1>1. Inv /\ [Next]_vars => [OwnedStep]_vars
  BY OwnedBy
<1>2. Spec => [][OwnedStep]_vars
  BY <1>1, Invariance, PTL DEF Spec
<1>3. QED
  BY <1>2 DEF OwnedIsRecorded, OwnedStep
=============================================================================
