----------------------------- MODULE ReviewedForms -----------------------------
(***************************************************************************)
(* The forms of one State and year that PMU reviews, side by side: the SFC  *)
(* status form with the exemption requests, the FC unspent declaration, the *)
(* form of the elected urban local bodies, and the devolution formula. They *)
(* share no state. A behaviour follows one of them: one of the last three   *)
(* in a scene that has requests for it, the first where no scene has any.   *)
(***************************************************************************)
EXTENDS StateForms, FcUnspent, ElectedBodies, DevolutionFormula

\* How many of the scenes have requests.
Moving == {c \in {<<"fc", fcCast.ops>>, <<"eulb", eulbCast.ops>>, <<"df", dfCast.ops>>} : c[2] # {}}

\* Where another form moves the SFC form rests at one of its initial states, and where another form
\* than the devolution formula moves the grant is some grant.
FormsInit ==
  /\ StateFormsInit /\ FcInit /\ EulbInit /\ DfInit
  /\ Cardinality(Moving) <= 1
  /\ Moving # {} => sfc.status = "NOT_STARTED"
  /\ dfCast.ops = {} => dfGrant = CHOOSE g \in DfGrant : TRUE

FormsNext ==
  \/ Moving = {} /\ StateFormsNext /\ UNCHANGED <<fcVars, eulbVars, dfVars>>
  \/ fcCast.ops # {} /\ FcNext /\ UNCHANGED <<formVars, eulbVars, dfVars>>
  \/ eulbCast.ops # {} /\ EulbNext /\ UNCHANGED <<formVars, fcVars, dfVars>>
  \/ dfCast.ops # {} /\ DfNext /\ UNCHANGED <<formVars, fcVars, eulbVars>>

FormsSpec == FormsInit /\ [][FormsNext]_<<formVars, fcVars, eulbVars, dfVars>>

FormsTypeOK == StateFormsTypeOK /\ FcTypeOK /\ EulbTypeOK /\ DfTypeOK

\* The rows there are belong to the active dataset version and came with one upload, in the form of
\* the elected bodies and in the devolution formula (ADR 0001, of both): readers of the active
\* version, and those that read by State and year, never get a mixture of two files.
DatasetsAreWhole == DatasetIsWhole /\ DfDatasetIsWhole
=============================================================================
