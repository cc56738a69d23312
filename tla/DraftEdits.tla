------------------------------ MODULE DraftEdits ------------------------------
(***************************************************************************)
(* Draft operations of internal/change/service.go. Each reads the row,     *)
(* validates its ops against the inventory and writes the whole row back,  *)
(* without applyMu: another handler may change the row in between, and the *)
(* write puts the status that was computed from the read back over it.     *)
(***************************************************************************)
EXTENDS EngineState

\* Create, CreateRequest, and createRestoringDraft for a committed changeset.
Create(c) ==
    /\ Serving
    /\ status[c] = Absent
    /\ \E s \in {"draft", "requested"} : status' = Set(status, c, s)
    /\ UNCHANGED <<stage, ticket, snap, worldVars, bootVars, lockVars, timerVars,
                   callVars, execVars>>

\* Clients that serialise their calls do not edit a changeset while an apply
\* of it is in its gates.
MayEdit(c) ==
    /\ Serving
    /\ edit[c] = Absent
    /\ SerialCalls => job.cs # c

\* The read of an operation that will write status s.
EditRead(c, s) ==
    /\ edit' = Set(edit, c, s)
    /\ UNCHANGED <<storeVars, worldVars, bootVars, lockVars, timerVars, guards, fire,
                   fanout, clearing, execVars>>

Approve(c) == MayEdit(c) /\ status[c] = "requested" /\ EditRead(c, "draft")

UpdateDraft(c) == MayEdit(c) /\ Editable(status[c]) /\ EditRead(c, "draft")

Discard(c) ==
    /\ MayEdit(c)
    /\ <<status[c], "discarded">> \in AllowedTransitions
    /\ EditRead(c, "discarded")

\* Blocking findings send the changeset back to draft, none promote it.
Validate(c) ==
    /\ MayEdit(c)
    /\ Editable(status[c])
    /\ \E clean \in BOOLEAN : EditRead(c, IF clean THEN "validated" ELSE "draft")

\* repo.Update of the row the operation holds; Discard also wipes the ticket.
EditPersist(c) ==
    /\ Serving
    /\ edit[c] # Absent
    /\ \E row \in StoreOk :
           /\ status' = IF row THEN Set(status, c, edit[c]) ELSE status
           /\ ticket' = IF row /\ edit[c] = "discarded" THEN Set(ticket, c, "none") ELSE ticket
    /\ edit' = Set(edit, c, Absent)
    /\ UNCHANGED <<stage, snap, worldVars, bootVars, lockVars, timerVars, guards, fire,
                   fanout, clearing, execVars>>

DraftStep(c) ==
    \/ Create(c)
    \/ Approve(c)
    \/ UpdateDraft(c)
    \/ Discard(c)
    \/ Validate(c)
    \/ EditPersist(c)
==============================================================================
