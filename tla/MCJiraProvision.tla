---------------------------- MODULE MCJiraProvision ----------------------------
(* Two result fields, so that one may be made and the other not; before the *)
(* first run nothing is there, or the Forge app and one thing more, or the *)
(* Space and its screens.                                                  *)
EXTENDS JiraProvision

MCFields == <<"FireFlow Request ID", "FireFlow Status">>

MCBeforehand == {{}} \union {{Structured, k} : k \in Kinds}
                \union {{Structured, "screenScheme", "typeScreen"},
                        {Structured, "space", "screen", "screenScheme", "typeScreen"}}
=============================================================================
