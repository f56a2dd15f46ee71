--------------------------- MODULE MCRenderService ---------------------------
(* Two requests on two radargrams with one handle to share, while one of    *)
(* the files is replaced.                                                    *)
EXTENDS RenderService
=============================================================================
