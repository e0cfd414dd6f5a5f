----------------------------- MODULE MCListing -----------------------------
EXTENDS Listing
=============================================================================
