--------------------------- MODULE MCPreviewCache ---------------------------
(* PreviewCache with two processes that write previews in two formats: a  *)
(* server, and a command started with another configuration.              *)
EXTENDS PreviewCache, TLC

CONSTANTS server, cli, jpg, webp

TwoFormats == (server :> jpg) @@ (cli :> webp)
=============================================================================
