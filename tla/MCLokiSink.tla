------------------------------ MODULE MCLokiSink ------------------------------
(* One server with two tailed files, and the flush ticker: two goroutines     *)
(* that flush, and a full buffer of one stream flushes the other as well.     *)
EXTENDS LokiSink, TLC

CONSTANTS access, error, session, ticker

MCStreams == {access, error}
MCSessions == {session}
MCLoops == {ticker}
MCSessionOf == [k \in MCStreams |-> session]
MCMaxLines == (access :> 3) @@ (error :> 1)
=============================================================================
