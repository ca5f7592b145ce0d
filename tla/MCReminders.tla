----------------------------- MODULE MCReminders -----------------------------
EXTENDS Reminders, TLC
=============================================================================
