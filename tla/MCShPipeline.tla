---------------------------- MODULE MCShPipeline ----------------------------
(***************************************************************************)
(* Scripts for the model-checking runs of ShPipeline.                      *)
(***************************************************************************)
EXTENDS ShPipeline

Run(c) == [run |-> c, toFile |-> FALSE]
ToFile(c) == [run |-> c, toFile |-> TRUE]

\* Pipelines of one to four stages whose ends meet in every way: a writer
\* faster than the pipe, one that outlives its reader, a stage that reads
\* nothing, fails, is missing or redirected, builtins in and out of pipelines.
Mixed == {
    <<<<Run("yes"), Run("head"), Run("cat")>>, <<Run("echo")>>>>,
    <<<<Run("gen"), Run("cat")>>, <<Run("false"), Run("echo")>>>>,
    <<<<Run("gen"), Run("cat"), Run("false")>>>>,
    <<<<Run("yes"), Run("cat"), Run("head"), Run("cat")>>>>,
    <<<<Run("echo")>>, <<Run("gen"), ToFile("cat")>>, <<Run("cat"), Run("missing")>>>>,
    <<<<Run("echo")>>, <<ToFile("echo")>>, <<Run("echo")>>, <<Run("gen")>>>>,
    <<<<ToFile("gen"), Run("cat")>>, <<Run("echo"), Run("head")>>>>,
    <<<<Run("echo")>>, <<Run("exec")>>>> }
=============================================================================
