------------------------ MODULE MCReportDispatcher ------------------------
EXTENDS ReportDispatcher
=============================================================================
