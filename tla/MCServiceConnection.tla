------------------------- MODULE MCServiceConnection -------------------------
(* All kinds of service, and for those with credential keys every config.    *)
EXTENDS ServiceConnection

AllKinds == KeyedKinds \cup UrlKinds

=============================================================================
