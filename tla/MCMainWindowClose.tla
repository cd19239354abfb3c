-------------------------- MODULE MCMainWindowClose --------------------------
(* Two panes and two quits let an exit meet every step of the shutdown while *)
(* windows remain, and let the last window close before, during and after it *)
EXTENDS MainWindowClose

=============================================================================
