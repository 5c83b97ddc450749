----------------------------- MODULE HourlyRate -----------------------------
(***************************************************************************)
(* The private hourly rate of a member                                     *)
(* (web/src/components/settings/HourlyRateField.tsx) with the handler that *)
(* stores it (internal/handler/member.go, internal/service/member.go).     *)
(* A rate is a pair of a minimum and a maximum, each of which may be unset.*)
(***************************************************************************)
EXTENDS Integers

CONSTANT MaxSets \* bound on the edits, the saves and the writes of another device

VARIABLES rate,   \* hourly_rate_cents_min and max of the member
          viewer, \* who edits: the owner of the household, another adult, the member
          known,  \* the rate in the cached list of members
          field,  \* minDollars, maxDollars, error and savedFlash
          put,    \* the save under way
          told,   \* what the last acknowledged save sent, while nobody wrote since
          sets

rateVars == <<rate, viewer, known, field, put, told, sets>>

None == 0
Bad  == 3         \* a text that is not a non-negative number
Amounts == {None, 1, 2}
Rates == Amounts \X Amounts
Nothing == [n |-> 0, rate |-> <<None, None>>, st |-> "none"]

\* min <= max, where both are set: checked by the form and by the server.
Ordered(r) == r[1] # None /\ r[2] # None => r[1] <= r[2]

RateTypeOK ==
    /\ rate \in Rates /\ viewer \in {"owner", "adult", "self", "child"}
    /\ known \in Rates /\ sets \in 0..MaxSets
    /\ field \in [min : Amounts \cup {Bad}, max : Amounts \cup {Bad}, error : BOOLEAN, flash : BOOLEAN]
    /\ put \in [n : 0..MaxSets, rate : Rates, st : {"none", "sent", "ok", "failed"}]
    /\ told \in Rates \cup {<<>>}

\* The client shows the field to every adult and to the member; the server accepts
\* the owner and the member, and sends the rate to nobody else.
canViewHourlyRate == viewer \in {"owner", "adult", "self"}
CanEditHourlyRate == viewer \in {"owner", "self"}
RedactHourlyRate(r) == IF CanEditHourlyRate THEN r ELSE <<None, None>>

Seeded(r) == [min |-> r[1], max |-> r[2], error |-> FALSE, flash |-> FALSE]

RateInit ==
    /\ viewer \in {"owner", "adult", "self", "child"} /\ rate \in {<<None, None>>, <<1, 2>>}
    /\ known = RedactHourlyRate(rate) /\ field = Seeded(known)
    /\ put = Nothing /\ told = <<>> /\ sets = 0

Edit == sets < MaxSets /\ sets' = sets + 1

setDollars ==
    /\ canViewHourlyRate /\ Edit
    /\ \E v \in Amounts \cup {Bad} :
         field' \in {[field EXCEPT !.min = v], [field EXCEPT !.max = v]}
    /\ UNCHANGED <<rate, viewer, known, put, told>>

dollarStringToCents(v) == IF v = Bad THEN None ELSE v

\* The button is disabled while a save is under way.  The flash of an earlier save
\* stays on.
handleSave ==
    /\ canViewHourlyRate /\ Edit /\ put.st = "none"
    /\ LET r == <<dollarStringToCents(field.min), dollarStringToCents(field.max)>>
       IN  IF Bad \in {field.min, field.max} \/ ~Ordered(r)
           THEN field' = [field EXCEPT !.error = TRUE] /\ UNCHANGED put
           ELSE field' = [field EXCEPT !.error = FALSE] /\ put' = [n |-> sets + 1, rate |-> r, st |-> "sent"]
    /\ UNCHANGED <<rate, viewer, known, told>>

\* Mutant: COALESCE keeps a column that is not sent.
UpdateHourlyRateKeepsUnset(r) == <<IF r[1] = None THEN rate[1] ELSE r[1], IF r[2] = None THEN rate[2] ELSE r[2]>>

\* Both columns are set, a missing one to NULL.
UpdateHourlyRate(r) == r

\* wantsRateChange: a request with neither changes no rate, and succeeds.
Update ==
    /\ put.st = "sent"
    /\ LET wantsRateChange == put.rate # <<None, None>>
       IN  \/ put' = [put EXCEPT !.st = "failed"] /\ UNCHANGED <<rate, told>>
           \/ /\ wantsRateChange => CanEditHourlyRate
              /\ rate' = IF wantsRateChange THEN UpdateHourlyRate(put.rate) ELSE rate
              /\ told' = <<>>
              /\ put' \in {[put EXCEPT !.st = "ok"], [put EXCEPT !.st = "failed"]}
    /\ UNCHANGED <<viewer, known, field, sets>>

\* "Saved.", for 1.8 seconds, or the error.
Saved ==
    /\ put.st \in {"ok", "failed"} /\ put' = Nothing
    /\ IF put.st = "ok"
       THEN /\ field' = [field EXCEPT !.flash = TRUE]
            /\ told' = IF put.n > 0 THEN put.rate ELSE told
       ELSE field' = [field EXCEPT !.error = TRUE] /\ UNCHANGED told
    /\ UNCHANGED <<rate, viewer, known, sets>>

FlashEnds == field.flash /\ field' = [field EXCEPT !.flash = FALSE]
             /\ UNCHANGED <<rate, viewer, known, put, told, sets>>

\* The members are fetched again: a rate that differs starts the form anew.
MembersLand ==
    /\ known' = RedactHourlyRate(rate)
    /\ field' = IF known' = known THEN field ELSE Seeded(known')
    /\ UNCHANGED <<rate, viewer, put, told, sets>>

\* The owner on another device.  It may write between the save and its answer.
OtherDevice ==
    /\ Edit /\ \E r \in Rates \ {<<None, None>>} : Ordered(r) /\ rate' = r
    /\ told' = <<>> /\ put' = [put EXCEPT !.n = 0]
    /\ UNCHANGED <<viewer, known, field>>

RateNext ==
    \/ setDollars \/ handleSave \/ Update \/ Saved \/ FlashEnds \/ MembersLand \/ OtherDevice

-----------------------------------------------------------------------------
\* "Saved." is true: until somebody writes again, the server holds the range that was
\* sent, the unset ends unset too, unless the save tried to clear both ends.
SavedIsStored == field.flash /\ told \notin {<<>>, <<None, None>>} => rate = told
=============================================================================
