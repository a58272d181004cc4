----------------------------- MODULE MCPipeline -----------------------------
(* Pipeline for TLC: a channel for each way of reading, and documents that name
   one channel once or twice, two channels in either order, or none.           *)
EXTENDS Pipeline

CONSTANTS kline, info, order

MCDocument ==
  {<<kline>>, <<kline, kline>>, <<info, info>>, <<kline, info>>, <<kline, order>>,
   <<order, info>>, <<info, NoChannel>>, <<NoChannel, kline>>}
=============================================================================
