---------------------------- MODULE MCWhiteboard ----------------------------
EXTENDS Whiteboard
============================================================================
