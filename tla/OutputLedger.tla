---------------------------- MODULE OutputLedger ----------------------------
(***************************************************************************)
(* What the contract promises about each deposit output, and nothing else: *)
(*                                                                         *)
(*    free --> reserved --> active(holder) --> withdrawn(holder)           *)
(*      ^---------'   '--> failed                                          *)
(*                                                                         *)
(* An output is credited to one holder at most once, never goes back from  *)
(* active to free, and is never withdrawn twice. A failed output is one    *)
(* whose verification could not be finished: it stays out for good.        *)
(***************************************************************************)
CONSTANTS
  Output,  \* ids of outputs
  Holder,  \* users
  Nobody   \* no user

VARIABLES
  status,  \* where each output stands
  holder   \* whom it was credited to

ledgerVars == <<status, holder>>

LedgerTypeOK ==
  /\ status \in [Output -> {"free", "reserved", "failed", "active", "withdrawn"}]
  /\ holder \in [Output -> Holder \cup {Nobody}]

LedgerInit ==
  /\ status = [o \in Output |-> "free"]
  /\ holder = [o \in Output |-> Nobody]

Reserve(o) ==
  /\ status[o] = "free"
  /\ status' = [status EXCEPT ![o] = "reserved"]
  /\ UNCHANGED holder

Release(o) ==
  /\ status[o] = "reserved"
  /\ status' = [status EXCEPT ![o] = "free"]
  /\ UNCHANGED holder

Fail(o) ==
  /\ status[o] = "reserved"
  /\ status' = [status EXCEPT ![o] = "failed"]
  /\ UNCHANGED holder

Credit(o, h) ==
  /\ status[o] = "reserved"
  /\ status' = [status EXCEPT ![o] = "active"]
  /\ holder' = [holder EXCEPT ![o] = h]

(* One Bitcoin transaction may withdraw several outputs of a holder.       *)
ActiveOf(h) == {o \in Output : status[o] = "active" /\ holder[o] = h}

Withdraw(h, outputs) ==
  /\ outputs # {} /\ outputs \subseteq ActiveOf(h)
  /\ status' = [o \in Output |-> IF o \in outputs THEN "withdrawn" ELSE status[o]]
  /\ UNCHANGED holder

LedgerNext ==
  \/ \E o \in Output : Reserve(o) \/ Release(o) \/ Fail(o)
  \/ \E o \in Output, h \in Holder : Credit(o, h)
  \/ \E h \in Holder : \E outputs \in SUBSET ActiveOf(h) : Withdraw(h, outputs)

LedgerSpec == LedgerInit /\ [][LedgerNext]_ledgerVars

=============================================================================
