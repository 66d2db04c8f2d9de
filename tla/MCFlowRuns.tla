----------------------------- MODULE MCFlowRuns -----------------------------
(* The bindings of one page for TLC.                                        *)
EXTENDS FlowRuns

Binding(concurrency, exclusive, form, debounced, settles, tracked, timed, asks) ==
  [concurrency |-> concurrency, exclusive |-> exclusive, form |-> form,
   debounced |-> debounced, settles |-> settles, tracked |-> tracked,
   timed |-> timed, asks |-> asks]

\* A button that saves the form and queues; the changes of a field, with the
\* settings such an event has by default; a bulk action on the page that asks
\* first; an action that would lock its form and is in none; and a step of a
\* guided form.
PageSettings ==
  [edit   |-> Binding("queue", "form", "F", TRUE, TRUE, FALSE, TRUE, TRUE),
   change |-> Binding("latest_wins", "none", "F", TRUE, FALSE, TRUE, FALSE, FALSE),
   bulk   |-> Binding("ignore_while_running", "page", NoForm, FALSE, FALSE, FALSE,
                      TRUE, TRUE),
   stray  |-> Binding("queue", "form", NoForm, FALSE, FALSE, FALSE, TRUE, FALSE),
   step   |-> Binding("ignore_while_running", "none", "F", FALSE, TRUE, FALSE,
                      FALSE, FALSE)]

PageBindings == DOMAIN PageSettings
==============================================================================
