---------------------------- MODULE MCJournalApp -----------------------------
EXTENDS JournalApp
=============================================================================
