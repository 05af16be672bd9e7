---------------------------- MODULE MCX11Clipboard -------------------------
(* An instance of X11Clipboard: two formats, of which we write the second. *)
EXTENDS X11Clipboard

MCFormats == << "png", "utf8" >>
============================================================================
