------------------------------ MODULE Dashboard -------------------------------
(***************************************************************************)
(* The dashboard in a browser: one page is open, and only its scripts run. *)
(* The halves of the Budget & Spend page, its evidence and its agreement   *)
(* and amount, share a submit button and no state, and are opened one at a *)
(* time as well.                                                           *)
(***************************************************************************)
EXTENDS EvidenceForm, SpendForm, NodePanel, AgreementEditor

VARIABLE page

dashboardVars == <<page, formVars, spendFormVars, panelVars, agreementVars,
                   editorVars>>

\* A page that is not open has one state only.
DashboardInit ==
    /\ page \in {"evidence", "spend", "overview", "agreements"}
    /\ FormInit /\ (page # "evidence" => form = "spend")
    /\ SpendFormInit
    /\ PanelInit
    /\ page # "overview" =>
            forked = {} /\ \A n \in Nodes : height[n] = Min(Starts)
    /\ EditorInit /\ (page # "agreements" => nextAgreementId = 1)

EvidencePage ==
    /\ page = "evidence"
    /\ FormNext
    /\ UNCHANGED <<page, spendFormVars, panelVars, agreementVars, editorVars>>

SpendPage ==
    /\ page = "spend"
    /\ SpendFormNext
    /\ UNCHANGED <<page, formVars, panelVars, agreementVars, editorVars>>

OverviewPage ==
    /\ page = "overview"
    /\ PanelNext
    /\ UNCHANGED <<page, formVars, spendFormVars, agreementVars, editorVars>>

AgreementsPage ==
    /\ page = "agreements"
    /\ EditorNext
    /\ UNCHANGED <<page, formVars, spendFormVars, panelVars>>

DashboardNext == EvidencePage \/ SpendPage \/ OverviewPage \/ AgreementsPage

DashboardSpec == DashboardInit /\ [][DashboardNext]_dashboardVars

-----------------------------------------------------------------------------

\* The variables of the open page stay in their types: what a handler writes
\* is always something the other handlers of the page can read.
PagesTypeOK ==
    CASE page = "evidence" -> FormTypeOK
      [] page = "spend" -> SpendFormTypeOK
      [] page = "overview" -> PanelTypeOK
      [] page = "agreements" -> EditorTypeOK

=============================================================================
