----------------------------- MODULE MCIrqNapi -----------------------------
(* Instances of IrqNapi for model checking.                                *)
EXTENDS IrqNapi

OneTx == {<<0, "tx">>}
OneRx == {<<0, "rx">>}
OneChan == {0} \X Dirs

With(own, f) == [owned |-> own, faults |-> f]

\* Both directions on one channel; one direction with everything that can
\* go wrong.
Safety == {With(OneChan, {}), With(OneRx, {"close", "rx_full"}),
           With(OneTx, {"close", "fbe", "timeout", "safety"})}

\* One direction at a time, closed and opened at will, or with frames that find
\* no descriptor.
Live == {With(OneTx, {"close"}), With(OneRx, {"close"}), With(OneRx, {"rx_full"})}

\* A transmit timeout may occur.
Timeout == {With(OneTx, {"timeout"})}
=============================================================================
