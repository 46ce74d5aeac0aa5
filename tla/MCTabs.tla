------------------------------- MODULE MCTabs -------------------------------
(* One tab whose cookie jar is shared with the rest of the browser, and two *)
(* people: enough for the tab to be overtaken by a login as the same person *)
(* or as another, again and again. The tabs meet in the jar only.           *)
EXTENDS Tabs
=============================================================================
