----------------------------- MODULE MCSiteData -----------------------------
EXTENDS SiteData
=============================================================================
