---------------------------- MODULE MCCollector -----------------------------
(* A small instance of every part of Collector for TLC.                    *)
EXTENDS Collector
=============================================================================
