--------------------------- MODULE MCListenerManager ---------------------------
(* Model values for ListenerManager: one button, one axis with two         *)
(* positions, and two listeners, one of which is bound to two keys.        *)
EXTENDS ListenerManager

CONSTANTS l1, l2

MCButtons    == {1}
MCAxes       == {11}
MCAxisValues == {0, 2}
MCListeners  == {l1, l2}
MCBindings   == {<<1, l1>>, <<11, l1>>, <<21, l2>>}
===============================================================================
