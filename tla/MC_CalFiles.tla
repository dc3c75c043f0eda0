---------------------------- MODULE MC_CalFiles -----------------------------
(***************************************************************************)
(* Instance of CalFiles for TLC.                                           *)
(***************************************************************************)
EXTENDS CalFiles

\* The handlers share nothing but their thread, so the requests about one file
\* (two, for txdata.txt and tsx.dat) are taken apart from the rest.
OneFileEach ==
  {{"tsx_write", "tsx_read", "ext_write", "ext_read", "other"},
   {"raw_write", "raw_read"},
   {"dcx_save", "dcx_load"},
   {"bbat_write", "bbat_read", "cit_read"},
   {"cit_write", "cit_read", "bbat_read"}}
=============================================================================
